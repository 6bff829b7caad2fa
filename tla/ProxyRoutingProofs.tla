------------------------- MODULE ProxyRoutingProofs -------------------------
(***************************************************************************)
(* Proofs for ProxyRouting.  What state.json becomes is one lemma per      *)
(* writer, with the shape it keeps and what it does to the generation; the *)
(* steps of Next are then taken variable by variable.                      *)
(***************************************************************************)
EXTENDS ProxyRouting, AppDataProofs, SequenceTheorems

-----------------------------------------------------------------------------
(* Routes *)

LEMMA Prioritised ==
  ASSUME NEW r \in RouteRecords, NEW p \in Nat
  PROVE  [r EXCEPT !.priority = p] \in RouteRecords /\ [r EXCEPT !.priority = p].priority = p
BY DEF RouteRecords

LEMMA NormalisedFacts ==
  ASSUME NEW routes \in Seq(RouteRecords)
  PROVE  Normalised(routes) \in Seq(RouteRecords) /\ Ordered(Normalised(routes))
<1> DEFINE new == [i \in 1..Len(routes) |-> [routes[i] EXCEPT !.priority = i - 1]]
<1>1. \A i \in 1..Len(routes) : new[i] \in RouteRecords /\ new[i].priority = i - 1
  <2> SUFFICES ASSUME NEW i \in 1..Len(routes)
               PROVE  new[i] \in RouteRecords /\ new[i].priority = i - 1
    OBVIOUS
  <2>1. routes[i] \in RouteRecords /\ i - 1 \in Nat OBVIOUS
  <2> QED BY <2>1, Prioritised
<1>2. new \in Seq(RouteRecords) /\ DOMAIN new = 1..Len(routes) BY <1>1
<1>3. Normalised(routes) = new BY DEF Normalised
<1> HIDE DEF new
<1> QED BY <1>1, <1>2, <1>3 DEF Ordered

LEMMA InsertTyped ==
  ASSUME NEW S, NEW s \in Seq(S), NEW e \in S, NEW i \in 1..(Len(s) + 1)
  PROVE  InsertAt(s, i, e) \in Seq(S)
<1>1. SubSeq(s, 1, i - 1) \in Seq(S) /\ SubSeq(s, i, Len(s)) \in Seq(S) BY SubSeqProperties
<1>2. <<e>> \in Seq(S) OBVIOUS
<1>3. SubSeq(s, 1, i - 1) \o <<e>> \in Seq(S) BY <1>1, <1>2, ConcatProperties
<1> QED BY <1>1, <1>3, ConcatProperties DEF InsertAt

LEMMA RemoveTyped ==
  ASSUME NEW S, NEW s \in Seq(S), NEW i \in 1..Len(s)
  PROVE  RemoveAt(s, i) \in Seq(S)
<1>1. SubSeq(s, 1, i - 1) \in Seq(S) /\ SubSeq(s, i + 1, Len(s)) \in Seq(S) BY SubSeqProperties
<1> QED BY <1>1, ConcatProperties DEF RemoveAt

-----------------------------------------------------------------------------
(* Mutations *)

\* What holds of a state a request leads to, before it is saved.
EditOf(s, n) == Shaped(n) /\ n.gen = s.gen /\ n.active = s.active

LEMMA PoolsEdited ==
  ASSUME NEW s, Shaped(s), NEW pools,
         \A id \in DOMAIN pools : PoolFormed(pools[id])
  PROVE  EditOf(s, [s EXCEPT !.pools = pools])
<1> DEFINE n == [s EXCEPT !.pools = pools]
<1>0. DOMAIN s = Fields BY DEF Shaped, WellFormed
<1>1. SameBut(s, n, {"pools"}) /\ n.pools = pools BY <1>0, SetPools
<1> HIDE DEF n
<1>2. /\ DOMAIN n = Fields /\ n.gen = s.gen /\ n.active = s.active /\ n.routes = s.routes
      /\ n.providers = s.providers
  BY <1>1, SameFields
<1>3. EditOf(s, n) BY <1>1, <1>2 DEF EditOf, Shaped, WellFormed
<1> QED BY <1>3 DEF n

LEMMA RoutesEdited ==
  ASSUME NEW s, Shaped(s), NEW routes \in Seq(RouteRecords), Ordered(routes)
  PROVE  EditOf(s, [s EXCEPT !.routes = routes])
<1> DEFINE n == [s EXCEPT !.routes = routes]
<1>0. DOMAIN s = Fields BY DEF Shaped, WellFormed
<1>1. SameBut(s, n, {"routes"}) /\ n.routes = routes BY <1>0, SetRoutes
<1> HIDE DEF n
<1>2. /\ DOMAIN n = Fields /\ n.gen = s.gen /\ n.active = s.active /\ n.pools = s.pools
      /\ n.providers = s.providers
  BY <1>1, SameFields
<1>3. EditOf(s, n) BY <1>1, <1>2 DEF EditOf, Shaped, WellFormed
<1> QED BY <1>3 DEF n

LEMMA PoolCreatedFacts ==
  ASSUME NEW s, Shaped(s), NEW id, NEW pool, PoolFormed(pool), NEW n \in PoolCreated(s, id, pool)
  PROVE  EditOf(s, n)
<1>1. n = [s EXCEPT !.pools = With(s.pools, id, pool)] BY DEF PoolCreated
<1>2. \A k \in DOMAIN With(s.pools, id, pool) : PoolFormed(With(s.pools, id, pool)[k])
  BY DEF Shaped, WellFormed, With
<1> QED BY <1>1, <1>2, PoolsEdited

LEMMA PoolUpdatedFacts ==
  ASSUME NEW s, Shaped(s), NEW id, NEW pool, PoolFormed(pool), NEW n \in PoolUpdated(s, id, pool)
  PROVE  EditOf(s, n)
<1>1. n = [s EXCEPT !.pools = With(s.pools, id, pool)] BY DEF PoolUpdated
<1>2. \A k \in DOMAIN With(s.pools, id, pool) : PoolFormed(With(s.pools, id, pool)[k])
  BY DEF Shaped, WellFormed, With
<1> QED BY <1>1, <1>2, PoolsEdited

LEMMA PoolDeletedFacts ==
  ASSUME NEW s, Shaped(s), NEW id, NEW n \in PoolDeleted(s, id)
  PROVE  EditOf(s, n)
<1>1. n = [s EXCEPT !.pools = Without(s.pools, {id})] BY DEF PoolDeleted
<1>2. \A k \in DOMAIN Without(s.pools, {id}) : PoolFormed(Without(s.pools, {id})[k])
  BY DEF Shaped, WellFormed, Without
<1> QED BY <1>1, <1>2, PoolsEdited

\* The pool keeps all but its selection.
LEMMA SelectionSetFacts ==
  ASSUME NEW s, Shaped(s), NEW id, NEW node, NEW n \in SelectionSet(s, id, node)
  PROVE  /\ EditOf(s, n) /\ SameBut(s, n, {"pools"}) /\ id \in DOMAIN s.pools
         /\ DOMAIN n.pools = DOMAIN s.pools
         /\ n.pools[id].selection = Manual(node)
         /\ \A k \in DOMAIN s.pools :
              /\ n.pools[k].kind = s.pools[k].kind /\ n.pools[k].sources = s.pools[k].sources
              /\ n.pools[k].enabled = s.pools[k].enabled
              /\ n.pools[k].selection.kind = s.pools[k].selection.kind
<1> DEFINE pool == [s.pools[id] EXCEPT !.selection = Manual(node)]
           pools == With(s.pools, id, pool)
<1>0. DOMAIN s = Fields BY DEF Shaped, WellFormed
<1>1. /\ n = [s EXCEPT !.pools = pools] /\ id \in DOMAIN s.pools
      /\ s.pools[id].selection.kind = "manual"
  BY DEF SelectionSet
<1>2. PoolFormed(s.pools[id]) BY <1>1 DEF Shaped, WellFormed
<1>3. /\ PoolFormed(pool) /\ pool.kind = s.pools[id].kind /\ pool.sources = s.pools[id].sources
      /\ pool.enabled = s.pools[id].enabled /\ pool.selection = Manual(node)
      /\ pool.selection.kind = "manual"
  BY <1>2 DEF PoolFormed, Manual
<1> HIDE DEF pool
<1>4. /\ DOMAIN pools = DOMAIN s.pools /\ pools[id] = pool
      /\ \A k \in DOMAIN s.pools : k # id => pools[k] = s.pools[k]
      /\ \A k \in DOMAIN pools : PoolFormed(pools[k])
  BY <1>1, <1>3 DEF With, Shaped, WellFormed
<1> HIDE DEF pools
<1>5. EditOf(s, n) BY <1>1, <1>4, PoolsEdited
<1>6. SameBut(s, n, {"pools"}) /\ n.pools = pools BY <1>0, <1>1, SetPools
<1> QED BY <1>1, <1>3, <1>4, <1>5, <1>6

LEMMA TargetSetFacts ==
  ASSUME NEW s, Shaped(s), NEW t, NEW n \in TargetSet(s, t)
  PROVE  EditOf(s, n)
<1>0. DOMAIN s = Fields BY DEF Shaped, WellFormed
<1>1. SameBut(s, n, {"target"}) BY <1>0, SetTarget DEF TargetSet
<1>2. /\ DOMAIN n = Fields /\ n.gen = s.gen /\ n.active = s.active /\ n.pools = s.pools
      /\ n.providers = s.providers /\ n.routes = s.routes
  BY <1>1, SameFields
<1> QED BY <1>2 DEF EditOf, Shaped, WellFormed

LEMMA RouteCreatedFacts ==
  ASSUME NEW s, Shaped(s), NEW route \in RouteRecords, NEW at \in Nat,
         NEW n \in RouteCreated(s, route, at)
  PROVE  EditOf(s, n)
<1>1. n = [s EXCEPT !.routes = Normalised(InsertAt(s.routes, at + 1, route))]
      /\ at <= Len(s.routes)
  BY DEF RouteCreated
<1>2. s.routes \in Seq(RouteRecords) BY DEF Shaped
<1>3. at + 1 \in 1..(Len(s.routes) + 1) BY <1>1, <1>2
<1>4. InsertAt(s.routes, at + 1, route) \in Seq(RouteRecords) BY <1>2, <1>3, InsertTyped
<1> QED BY <1>1, <1>4, NormalisedFacts, RoutesEdited

LEMMA RouteUpdatedFacts ==
  ASSUME NEW s, Shaped(s), NEW route \in RouteRecords, NEW n \in RouteUpdated(s, route)
  PROVE  EditOf(s, n)
<1>1. s.routes \in Seq(RouteRecords) /\ Ordered(s.routes) BY DEF Shaped
<1>2. PICK i \in DOMAIN s.routes :
        n = [s EXCEPT !.routes = [s.routes EXCEPT ![i] =
               [route EXCEPT !.priority = s.routes[i].priority]]]
  BY DEF RouteUpdated
<1> DEFINE new == [route EXCEPT !.priority = s.routes[i].priority]
           routes == [s.routes EXCEPT ![i] = new]
<1>3. new \in RouteRecords /\ new.priority = s.routes[i].priority
  <2>1. s.routes[i] \in RouteRecords BY <1>1
  <2>2. s.routes[i].priority \in Nat BY <2>1 DEF RouteRecords
  <2> QED BY <2>2, Prioritised
<1>4. n = [s EXCEPT !.routes = routes] BY <1>2
<1> HIDE DEF new
<1>5. routes \in Seq(RouteRecords) BY <1>1, <1>3
<1>6. /\ DOMAIN routes = DOMAIN s.routes
      /\ \A j \in DOMAIN s.routes : routes[j].priority = s.routes[j].priority
  BY <1>3
<1> HIDE DEF routes
<1>7. Ordered(routes) BY <1>1, <1>6 DEF Ordered
<1> QED BY <1>4, <1>5, <1>7, RoutesEdited

LEMMA RouteDeletedFacts ==
  ASSUME NEW s, Shaped(s), NEW id, NEW n \in RouteDeleted(s, id)
  PROVE  EditOf(s, n)
<1>1. s.routes \in Seq(RouteRecords) BY DEF Shaped
<1>2. PICK i \in DOMAIN s.routes : n = [s EXCEPT !.routes = Normalised(RemoveAt(s.routes, i))]
  BY DEF RouteDeleted
<1>3. i \in 1..Len(s.routes) BY <1>1
<1>4. RemoveAt(s.routes, i) \in Seq(RouteRecords) BY <1>1, <1>3, RemoveTyped
<1> QED BY <1>2, <1>4, NormalisedFacts, RoutesEdited

LEMMA RoutesReorderedFacts ==
  ASSUME NEW s, Shaped(s), NEW ids \in TupleOf(RouteIds, Len(s.routes)),
         NEW n \in RoutesReordered(s, ids)
  PROVE  EditOf(s, n)
<1> DEFINE Place(k) == CHOOSE i \in DOMAIN s.routes : s.routes[i].id = ids[k]
           routes == [k \in DOMAIN ids |-> s.routes[Place(k)]]
<1>1. s.routes \in Seq(RouteRecords) /\ DOMAIN s.routes = 1..Len(s.routes) /\ Len(s.routes) \in Nat
  BY DEF Shaped
<1>2. DOMAIN ids = 1..Len(s.routes) BY DEF TupleOf
<1>3. /\ n = [s EXCEPT !.routes = Normalised(routes)]
      /\ Range(ids) \subseteq {s.routes[i].id : i \in DOMAIN s.routes}
  BY DEF RoutesReordered
<1>4. ASSUME NEW k \in DOMAIN ids PROVE s.routes[Place(k)] \in RouteRecords
  <2>1. \E i \in DOMAIN s.routes : s.routes[i].id = ids[k] BY <1>3 DEF Range
  <2>2. Place(k) \in DOMAIN s.routes BY <2>1
  <2> HIDE DEF Place
  <2> QED BY <2>2, <1>1
<1> HIDE DEF Place
<1>5. routes \in Seq(RouteRecords) BY <1>1, <1>2, <1>4
<1> HIDE DEF routes
<1> QED BY <1>3, <1>5, NormalisedFacts, RoutesEdited

-----------------------------------------------------------------------------
(* What the configuration keeps while the generation stays *)

LEMMA StructureOf ==
  ASSUME NEW s, NEW t, t.active = s.active, t.gen = s.gen,
         OwnNodes(t) = OwnNodes(s), PoolsInUse(t) = PoolsInUse(s),
         \A id \in PoolsInUse(s) : /\ MembersInUse(t, id) = MembersInUse(s, id)
                                   /\ t.pools[id].selection.kind = s.pools[id].selection.kind,
         ProjectedRoutes(t) = ProjectedRoutes(s), ProjectedTarget(t) = ProjectedTarget(s)
  PROVE  Structure(Projection(t)) = Structure(Projection(s))
<1> DEFINE Pool(x, id) ==
      IF id = RuntimePool(x.active) THEN [members |-> OwnNodes(x), kind |-> "manual"]
      ELSE [members |-> MembersInUse(x, id), kind |-> x.pools[id].selection.kind]
    Pools_(x) == [id \in PoolsInUse(x) \cup {RuntimePool(x.active)} |-> Pool(x, id)]
    Form(x) == [sub |-> x.active, gen |-> x.gen,
                nodes |-> OwnNodes(x) \cup UNION {MembersInUse(x, id) : id \in PoolsInUse(x)},
                pools |-> Pools_(x), routes |-> ProjectedRoutes(x), target |-> ProjectedTarget(x)]
<1>1. ASSUME NEW x PROVE Structure(Projection(x)) = Form(x)
  <2> DEFINE p == ProjectedPools(x)
  <2>1. /\ DOMAIN p = PoolsInUse(x) \cup {RuntimePool(x.active)}
        /\ \A id \in DOMAIN p :
             [members |-> p[id].members, kind |-> p[id].selection.kind] = Pool(x, id)
    BY DEF ProjectedPools, With, Manual
  <2> HIDE DEF p
  <2>2. [id \in DOMAIN p |-> [members |-> p[id].members, kind |-> p[id].selection.kind]] = Pools_(x)
    BY <2>1
  <2> HIDE DEF Pools_, Pool
  <2> DEFINE q == Projection(x)
             nodes == OwnNodes(x) \cup UNION {MembersInUse(x, id) : id \in PoolsInUse(x)}
  <2>3. q = [sub |-> x.active, gen |-> x.gen, nodes |-> nodes, pools |-> p,
             routes |-> ProjectedRoutes(x), target |-> ProjectedTarget(x)]
    BY DEF Projection, p
  <2>4. Structure(q) = [q EXCEPT !.pools = Pools_(x)]
    <3> HIDE DEF q
    <3> QED BY <2>2, <2>3 DEF Structure
  <2> HIDE DEF q, nodes
  <2>5. Structure(q) = [sub |-> x.active, gen |-> x.gen, nodes |-> nodes, pools |-> Pools_(x),
                        routes |-> ProjectedRoutes(x), target |-> ProjectedTarget(x)]
    BY <2>3, <2>4
  <2> QED BY <2>5 DEF q, nodes
<1>2. Pools_(t) = Pools_(s) OBVIOUS
<1>3. UNION {MembersInUse(t, id) : id \in PoolsInUse(t)}
      = UNION {MembersInUse(s, id) : id \in PoolsInUse(s)}
  OBVIOUS
<1>4. Form(t) = Form(s)
  <2> HIDE DEF Pools_
  <2> QED BY <1>2, <1>3
<1> QED BY <1>1, <1>4

\* s may be followed by t: what the core was given of s is still up to date, or the
\* generation tells that it is not.
Follows(s, t) ==
  /\ s.gen <= t.gen
  /\ t.gen = s.gen =>
       /\ t.active = s.active
       /\ ~DrawsOnOthers(t) => /\ ~DrawsOnOthers(s)
                               /\ Structure(Projection(t)) = Structure(Projection(s))

LEMMA MadeFollows ==
  ASSUME NEW p, NEW s, NEW t, p.gen \in Nat, s.gen \in Nat, t.gen \in Nat,
         Made(p, s), Follows(s, t)
  PROVE  Made(p, t)
BY DEF Made, Follows

LEMMA MadeOfItself == ASSUME NEW s, s.gen \in Nat PROVE Made(Projection(s), s)
BY DEF Made, Projection

\* Pools in use, with their sources, of states with the same pools and providers.
LEMMA SamePools ==
  ASSUME NEW s, NEW t, t.active = s.active, t.providers = s.providers,
         DOMAIN t.pools = DOMAIN s.pools,
         \A k \in DOMAIN s.pools :
           /\ t.pools[k].kind = s.pools[k].kind /\ t.pools[k].sources = s.pools[k].sources
           /\ t.pools[k].enabled = s.pools[k].enabled
  PROVE  /\ OwnProviders(t) = OwnProviders(s) /\ PoolsInUse(t) = PoolsInUse(s)
         /\ \A id \in DOMAIN s.pools :
              SourcesInUse(t, t.pools[id]) = SourcesInUse(s, s.pools[id])
         /\ DrawsOnOthers(t) <=> DrawsOnOthers(s)
<1>1. OwnProviders(t) = OwnProviders(s) BY DEF OwnProviders, ProvidersOf
<1>2. \A id \in DOMAIN s.pools : SourcesInUse(t, t.pools[id]) = SourcesInUse(s, s.pools[id])
  BY <1>1 DEF SourcesInUse
<1>3. PoolsInUse(t) = PoolsInUse(s) BY <1>2 DEF PoolsInUse
<1>4. PoolsInUse(s) \subseteq DOMAIN s.pools BY DEF PoolsInUse
<1> QED BY <1>1, <1>2, <1>3, <1>4 DEF DrawsOnOthers

LEMMA SelectionFollows ==
  ASSUME NEW s, Shaped(s), NEW id, NEW node, NEW t \in SelectionSet(s, id, node)
  PROVE  Follows(s, t)
<1>0. /\ SameBut(s, t, {"pools"}) /\ DOMAIN t.pools = DOMAIN s.pools /\ EditOf(s, t)
      /\ \A k \in DOMAIN s.pools :
           /\ t.pools[k].kind = s.pools[k].kind /\ t.pools[k].sources = s.pools[k].sources
           /\ t.pools[k].enabled = s.pools[k].enabled
           /\ t.pools[k].selection.kind = s.pools[k].selection.kind
  BY SelectionSetFacts
<1>1. /\ t.gen = s.gen /\ t.active = s.active /\ t.providers = s.providers /\ t.nodes = s.nodes
      /\ t.routes = s.routes /\ t.target = s.target
  BY <1>0, SameFields
<1>2. /\ OwnProviders(t) = OwnProviders(s) /\ PoolsInUse(t) = PoolsInUse(s)
      /\ \A k \in DOMAIN s.pools : SourcesInUse(t, t.pools[k]) = SourcesInUse(s, s.pools[k])
      /\ DrawsOnOthers(t) <=> DrawsOnOthers(s)
  BY <1>0, <1>1, SamePools
<1>3. OwnNodes(t) = OwnNodes(s) BY <1>1, <1>2 DEF OwnNodes
<1>4. PoolsInUse(s) \subseteq DOMAIN s.pools BY DEF PoolsInUse
<1>5. \A k \in PoolsInUse(s) : MembersInUse(t, k) = MembersInUse(s, k)
  BY <1>1, <1>2, <1>4 DEF MembersInUse, MembersFrom
<1>6. ProjectedRoutes(t) = ProjectedRoutes(s) /\ ProjectedTarget(t) = ProjectedTarget(s)
  BY <1>1 DEF ProjectedRoutes, ProjectedTarget
<1>7. Structure(Projection(t)) = Structure(Projection(s))
  BY <1>0, <1>1, <1>2, <1>3, <1>4, <1>5, <1>6, StructureOf
<1>8. s.gen \in Nat BY DEF Shaped, WellFormed
<1> QED BY <1>1, <1>2, <1>7, <1>8 DEF Follows

\* Nodes of other providers do not count, unless a pool draws on them.
LEMMA OwnMembers ==
  ASSUME NEW s, NEW t, OwnProviders(t) = OwnProviders(s),
         \A p \in OwnProviders(s) : \A n : n.provider = p => (n \in t.nodes <=> n \in s.nodes)
  PROVE  /\ OwnNodes(t) = OwnNodes(s)
         /\ \A sources : DOMAIN sources \subseteq OwnProviders(s)
                         => MembersFrom(t, sources) = MembersFrom(s, sources)
<1>1. {m \in t.nodes : m.provider \in OwnProviders(t)} = {m \in s.nodes : m.provider \in OwnProviders(s)}
  OBVIOUS
<1>2. ASSUME NEW sources, DOMAIN sources \subseteq OwnProviders(s)
      PROVE  MembersFrom(t, sources) = MembersFrom(s, sources)
  <2>1. {m \in t.nodes : m.provider \in DOMAIN sources /\ Matches(sources[m.provider], m)}
        = {m \in s.nodes : m.provider \in DOMAIN sources /\ Matches(sources[m.provider], m)}
    BY <1>2
  <2> QED BY <2>1 DEF MembersFrom
<1> QED BY <1>1, <1>2 DEF OwnNodes

\* The sources of a pool in use are of the selected subscription.
LEMMA OwnSources ==
  ASSUME NEW s, ~DrawsOnOthers(s), NEW id \in PoolsInUse(s)
  PROVE  DOMAIN SourcesInUse(s, s.pools[id]) \subseteq OwnProviders(s)
BY DEF DrawsOnOthers, SourcesInUse, Without

LEMMA UpdateFollows ==
  ASSUME NEW s, Shaped(s), NEW x, x # s.active, NEW drafts, NEW t \in ReplaceProvider(s, x, drafts)
  PROVE  Follows(s, t)
<1>0. /\ SameBut(s, t, {"nodes"})
      /\ \A n \in t.nodes : n.provider # x => n \in s.nodes
      /\ \A n \in s.nodes : n.provider # x => n \in t.nodes
  BY ReplacedFacts DEF Shaped
<1>1. /\ t.gen = s.gen /\ t.active = s.active /\ t.providers = s.providers /\ t.pools = s.pools
      /\ t.routes = s.routes /\ t.target = s.target
  BY <1>0, SameFields
<1>2. /\ OwnProviders(t) = OwnProviders(s) /\ PoolsInUse(t) = PoolsInUse(s)
      /\ \A k \in DOMAIN s.pools : SourcesInUse(t, t.pools[k]) = SourcesInUse(s, s.pools[k])
      /\ DrawsOnOthers(t) <=> DrawsOnOthers(s)
  BY <1>1, SamePools
<1>3. x \notin OwnProviders(s) BY DEF OwnProviders, ProvidersOf, Shaped, WellFormed
<1>4. /\ OwnNodes(t) = OwnNodes(s)
      /\ \A sources : DOMAIN sources \subseteq OwnProviders(s)
                      => MembersFrom(t, sources) = MembersFrom(s, sources)
  BY <1>0, <1>2, <1>3, OwnMembers
<1>5. PoolsInUse(s) \subseteq DOMAIN s.pools BY DEF PoolsInUse
<1>6. ASSUME ~DrawsOnOthers(s), NEW k \in PoolsInUse(s) PROVE MembersInUse(t, k) = MembersInUse(s, k)
  BY <1>2, <1>4, <1>5, <1>6, OwnSources DEF MembersInUse
<1>7. ProjectedRoutes(t) = ProjectedRoutes(s) /\ ProjectedTarget(t) = ProjectedTarget(s)
  BY <1>1 DEF ProjectedRoutes, ProjectedTarget
<1>8. ASSUME ~DrawsOnOthers(s) PROVE Structure(Projection(t)) = Structure(Projection(s))
  BY <1>1, <1>2, <1>4, <1>6, <1>7, <1>8, StructureOf
<1>9. s.gen \in Nat BY DEF Shaped, WellFormed
<1> QED BY <1>1, <1>2, <1>8, <1>9 DEF Follows

LEMMA DeleteFollows ==
  ASSUME NEW s, Shaped(s), NEW x, NEW t \in Deleted(s, x)
  PROVE  Follows(s, t)
<1> DEFINE ps == ProvidersOf(s, x)
<1>0. /\ t.routes = s.routes /\ t.target = s.target
      /\ t.active = (IF s.active = x THEN None ELSE s.active)
      /\ IF s.active = x THEN t.gen = s.gen + 1 ELSE t.gen = s.gen
      /\ t.pools = Without(s.pools, OwnedPools(s, ps))
      /\ t.providers = Without(s.providers, ps)
      /\ t.nodes = {n \in s.nodes : n.provider \notin ps}
  <2>1. Loses(s, t, x) BY DeletedFacts DEF Shaped
  <2> QED BY <2>1 DEF Loses
<1>1. s.gen \in Nat BY DEF Shaped, WellFormed
<1>2. CASE s.active = x BY <1>0, <1>1, <1>2 DEF Follows
<1>3. CASE s.active # x
  <2>1. t.active = s.active /\ t.gen = s.gen BY <1>0, <1>3
  <2>2. ps \cap OwnProviders(s) = {} BY <1>3 DEF ProvidersOf, OwnProviders
  <2>3. OwnProviders(t) = OwnProviders(s)
    BY <1>0, <2>1, <2>2 DEF OwnProviders, ProvidersOf, Without
  <2> HIDE DEF ps
  <2>4. /\ DOMAIN t.pools = DOMAIN s.pools \ OwnedPools(s, ps)
        /\ \A k \in DOMAIN t.pools : t.pools[k] = s.pools[k]
    BY <1>0 DEF Without
  <2>5. \A k \in DOMAIN t.pools : SourcesInUse(t, t.pools[k]) = SourcesInUse(s, s.pools[k])
    BY <2>3, <2>4 DEF SourcesInUse
  <2>6. PoolsInUse(s) \cap OwnedPools(s, ps) = {}
    BY <2>2 DEF PoolsInUse, OwnedPools, SourcesInUse, Without
  <2>7. PoolsInUse(t) = PoolsInUse(s) BY <2>4, <2>5, <2>6 DEF PoolsInUse
  <2>8. PoolsInUse(t) \subseteq DOMAIN t.pools BY DEF PoolsInUse
  <2>9. DrawsOnOthers(t) <=> DrawsOnOthers(s) BY <2>3, <2>4, <2>7, <2>8 DEF DrawsOnOthers
  <2>10. /\ OwnNodes(t) = OwnNodes(s)
         /\ \A sources : DOMAIN sources \subseteq OwnProviders(s)
                         => MembersFrom(t, sources) = MembersFrom(s, sources)
    BY <1>0, <2>2, <2>3, OwnMembers
  <2>11. ASSUME ~DrawsOnOthers(s), NEW k \in PoolsInUse(s)
         PROVE  MembersInUse(t, k) = MembersInUse(s, k)
    BY <2>5, <2>7, <2>8, <2>10, <2>11, OwnSources DEF MembersInUse
  <2>12. ProjectedRoutes(t) = ProjectedRoutes(s) /\ ProjectedTarget(t) = ProjectedTarget(s)
    BY <1>0, <2>1 DEF ProjectedRoutes, ProjectedTarget
  <2>13. ASSUME ~DrawsOnOthers(s) PROVE Structure(Projection(t)) = Structure(Projection(s))
    BY <2>1, <2>4, <2>7, <2>8, <2>10, <2>11, <2>12, <2>13, StructureOf
  <2> QED BY <2>1, <2>9, <2>13, <1>1 DEF Follows
<1> QED BY <1>2, <1>3

\* The same in every field, as an activation of what is selected already.
LEMMA SameFollows ==
  ASSUME NEW s, NEW t, s.gen \in Nat, \A f \in Fields : t[f] = s[f]
  PROVE  Follows(s, t)
<1>1. /\ t.gen = s.gen /\ t.active = s.active /\ t.providers = s.providers /\ t.pools = s.pools
      /\ t.routes = s.routes /\ t.target = s.target /\ t.nodes = s.nodes
  BY DEF Fields
<1>2. /\ OwnProviders(t) = OwnProviders(s) /\ PoolsInUse(t) = PoolsInUse(s)
      /\ \A k \in DOMAIN s.pools : SourcesInUse(t, t.pools[k]) = SourcesInUse(s, s.pools[k])
      /\ DrawsOnOthers(t) <=> DrawsOnOthers(s)
  BY <1>1, SamePools
<1>3. PoolsInUse(s) \subseteq DOMAIN s.pools BY DEF PoolsInUse
<1>4. OwnNodes(t) = OwnNodes(s) /\ \A k \in PoolsInUse(s) : MembersInUse(t, k) = MembersInUse(s, k)
  BY <1>1, <1>2, <1>3 DEF OwnNodes, MembersInUse, MembersFrom
<1>5. ProjectedRoutes(t) = ProjectedRoutes(s) /\ ProjectedTarget(t) = ProjectedTarget(s)
  BY <1>1 DEF ProjectedRoutes, ProjectedTarget
<1>6. Structure(Projection(t)) = Structure(Projection(s))
  BY <1>1, <1>2, <1>4, <1>5, StructureOf
<1> QED BY <1>1, <1>2, <1>6 DEF Follows

-----------------------------------------------------------------------------
(* What state.json becomes *)

PageEdit ==
  \/ CreateCustomPool \/ UpdateCustomPool \/ DeleteCustomPool \/ SetDefaultTarget
  \/ CreateRoute \/ UpdateRoute \/ DeleteRoute \/ ReorderRoutes

LEMMA PagePools == \A pool \in Pools : PoolFormed(pool)
<1>1. \A sources, selection, enabled :
        DOMAIN selection = {"kind", "node"} => PoolFormed(CustomPool(sources, selection, enabled))
  BY DEF PoolFormed, CustomPool
<1>2. DOMAIN Manual(None) = {"kind", "node"} /\ DOMAIN UrlTest = {"kind", "node"}
  BY DEF Manual, UrlTest
<1> QED BY <1>1, <1>2 DEF Pools

LEMMA PageRoutes ==
  /\ \A r \in RouteIds, e \in BOOLEAN, t \in {Direct} \cup {ToPool(id) : id \in PoolIds} :
       Route(r, e, t) \in RouteRecords
  /\ Routes \subseteq RouteRecords
<1>1. \A r \in RouteIds, e \in BOOLEAN, t \in {Direct} \cup {ToPool(id) : id \in PoolIds} :
       Route(r, e, t) \in RouteRecords
  BY DEF Route, RouteRecords
<1>2. ASSUME NEW r \in RouteIds, NEW id \in PoolIds
      PROVE  Route(r, TRUE, ToPool(id)) \in RouteRecords
  BY <1>1
<1>3. ASSUME NEW r \in RouteIds PROVE Route(r, FALSE, Direct) \in RouteRecords BY <1>1
<1>4. ASSUME NEW x \in Routes PROVE x \in RouteRecords
  <2>1. (\E r \in RouteIds, id \in PoolIds : x = Route(r, TRUE, ToPool(id)))
        \/ \E r \in RouteIds : x = Route(r, FALSE, Direct)
    BY DEF Routes, Route
  <2> QED BY <2>1, <1>2, <1>3
<1> QED BY <1>1, <1>4

LEMMA PageEdits ==
  ASSUME Shaped(st), PageEdit
  PROVE  \E nexts : Mutate(nexts, FALSE, None) /\ \A n \in nexts : EditOf(st, n)
<1> USE DEF Edit
<1>1. CASE CreateCustomPool BY <1>1, PagePools, PoolCreatedFacts DEF CreateCustomPool
<1>2. CASE UpdateCustomPool BY <1>2, PagePools, PoolUpdatedFacts DEF UpdateCustomPool
<1>3. CASE DeleteCustomPool BY <1>3, PoolDeletedFacts DEF DeleteCustomPool
<1>4. CASE SetDefaultTarget BY <1>4, TargetSetFacts DEF SetDefaultTarget
<1>5. CASE CreateRoute
  <2>1. PICK r \in Routes, at \in 0..MaxRoutes : Mutate(RouteCreated(st, r, at), FALSE, None)
    BY <1>5 DEF CreateRoute
  <2>2. r \in RouteRecords /\ at \in Nat BY PageRoutes, BoundsAssumption
  <2> QED BY <2>1, <2>2, RouteCreatedFacts
<1>6. CASE UpdateRoute BY <1>6, PageRoutes, RouteUpdatedFacts DEF UpdateRoute
<1>7. CASE DeleteRoute BY <1>7, RouteDeletedFacts DEF DeleteRoute
<1>8. CASE ReorderRoutes BY <1>8, RoutesReorderedFacts DEF ReorderRoutes
<1> QED BY <1>1, <1>2, <1>3, <1>4, <1>5, <1>6, <1>7, <1>8 DEF PageEdit

LEMMA BumpedSound ==
  ASSUME NEW n, Shaped(n), NEW t \in Bumped(n)
  PROVE  Shaped(t) /\ n.gen < t.gen /\ SameBut(n, t, {"gen"})
<1>1. WellFormed(n) /\ n.gen \in Nat BY DEF Shaped, WellFormed
<1>2. WellFormed(t) /\ SameBut(n, t, {"gen"}) /\ t.gen = n.gen + 1 BY <1>1, BumpedFacts
<1>3. t.routes = n.routes /\ t.active = n.active BY <1>2, SameFields
<1> QED BY <1>1, <1>2, <1>3 DEF Shaped

LEMMA RaisesFollow ==
  ASSUME NEW s, NEW t, s.gen \in Nat, t.gen \in Nat, s.gen < t.gen
  PROVE  Follows(s, t)
BY DEF Follows

\* A mutation that is saved was validated; all but a selection raise the generation.
LEMMA MutateSt ==
  ASSUME Sound(st), NEW nexts, NEW manual \in BOOLEAN, NEW after, Mutate(nexts, manual, after),
         \A n \in nexts : EditOf(st, n) /\ (manual => Follows(st, n))
  PROVE  Sound(st') /\ Follows(st, st')
<1>0. st.gen \in Nat BY DEF Sound, Shaped, WellFormed
<1>1. CASE UNCHANGED st
  <2>1. Follows(st, st') BY <1>0, <1>1, SameFollows
  <2>2. Sound(st') BY <1>1
  <2> QED BY <2>1, <2>2
<1>2. CASE \E n \in nexts : \E s \in Raised(manual, n) : Valid(s) /\ WriteEdit(s)
  <2>1. PICK n \in nexts : \E s \in Raised(manual, n) : Valid(s) /\ WriteEdit(s) BY <1>2
  <2>2. PICK s \in Raised(manual, n) : Valid(s) /\ WriteEdit(s) BY <2>1
  <2>3. st' = s BY <2>2 DEF WriteEdit
  <2>4. EditOf(st, n) /\ (manual => Follows(st, n)) OBVIOUS
  <2>5. CASE manual
    <3>1. s = n BY <2>5 DEF Raised, BumpedIf
    <3> QED BY <2>2, <2>3, <2>4, <2>5, <3>1 DEF Sound, EditOf
  <2>6. CASE ~manual
    <3>1. s \in Bumped(n) BY <2>6 DEF Raised, BumpedIf
    <3>2. Shaped(s) /\ n.gen < s.gen BY <2>4, <3>1, BumpedSound DEF EditOf
    <3>3. s.gen \in Nat /\ n.gen = st.gen BY <2>4, <3>2 DEF Shaped, WellFormed, EditOf
    <3> QED BY <1>0, <2>2, <2>3, <3>2, <3>3, RaisesFollow DEF Sound
  <2> QED BY <2>5, <2>6
<1> QED BY <1>1, <1>2 DEF Mutate

LEMMA UpdateSt ==
  ASSUME Sound(st), NEW s \in Subs, NEW drafts, UpdateSubscription(s, drafts)
  PROVE  Sound(st') /\ Follows(st, st') /\ st'.pools = st.pools
<1>1. PICK n \in ReplaceProvider(st, s, drafts) :
        \E new \in BumpedIf(st.active = s, n) : Valid(new) /\ st' = new
  BY DEF UpdateSubscription, Write
<1>2. Shaped(st) /\ st.gen \in Nat /\ WellFormed(st) BY DEF Sound, Shaped, WellFormed
<1>3. WellFormed(n) /\ SameBut(st, n, {"nodes"}) BY <1>2, ReplacedFacts
<1>4. n.routes = st.routes /\ n.active = st.active /\ n.gen = st.gen /\ n.pools = st.pools
  BY <1>3, SameFields
<1>5. Shaped(n) BY <1>2, <1>3, <1>4 DEF Shaped
<1>6. CASE st.active = s
  <2>1. st' \in Bumped(n) /\ Valid(st') BY <1>1, <1>6 DEF BumpedIf
  <2>2. Shaped(st') /\ n.gen < st'.gen /\ SameBut(n, st', {"gen"}) BY <1>5, <2>1, BumpedSound
  <2>3. st'.gen \in Nat BY <2>2 DEF Shaped, WellFormed
  <2>4. st'.pools = n.pools BY <2>2, SameFields
  <2> QED BY <1>2, <1>4, <2>1, <2>2, <2>3, <2>4, RaisesFollow DEF Sound
<1>7. CASE st.active # s
  <2>1. st' = n /\ Valid(st') BY <1>1, <1>7 DEF BumpedIf
  <2> QED BY <1>2, <1>4, <1>5, <1>7, <2>1, UpdateFollows DEF Sound
<1> QED BY <1>6, <1>7

LEMMA DeleteSt ==
  ASSUME Sound(st), NEW s \in Subs, DeleteSubscription(s)
  PROVE  /\ Sound(st') /\ Follows(st, st')
         /\ \A id \in DOMAIN st'.pools : id \in DOMAIN st.pools /\ st'.pools[id] = st.pools[id]
<1>1. st' \in Deleted(st, s) /\ Valid(st') BY DEF DeleteSubscription, Write
<1>2. Shaped(st) /\ WellFormed(st) BY DEF Sound, Shaped
<1>3. /\ WellFormed(st') /\ st'.routes = st.routes
      /\ st'.active = (IF st.active = s THEN None ELSE st.active)
      /\ st'.pools = Without(st.pools, OwnedPools(st, ProvidersOf(st, s)))
  <2>1. Loses(st, st', s) BY <1>1, <1>2, DeletedFacts
  <2> QED BY <2>1 DEF Loses
<1>4. Follows(st, st') BY <1>1, <1>2, DeleteFollows
<1> QED BY <1>1, <1>2, <1>3, <1>4 DEF Sound, Shaped, Without

LEMMA PersistSt ==
  ASSUME IInv, WorkerPersists
  PROVE  /\ Sound(st') /\ Follows(st, st') /\ st'.pools = st.pools
         /\ act' = None \/ (act' = [act EXCEPT !.phase = "persisted"] /\ st' = act.new)
<1>0. Sound(st) /\ st.gen \in Nat BY DEF IInv, Sound, Shaped, WellFormed
<1>1. CASE UNCHANGED st /\ act' = None
  <2>1. Follows(st, st') /\ Sound(st') BY <1>0, <1>1, SameFollows
  <2> QED BY <1>1, <2>1
<1>2. CASE st = act.old /\ st' = act.new /\ act' = [act EXCEPT !.phase = "persisted"]
  <2>1. /\ Sound(act.new) /\ act.new.pools = st.pools
        /\ (\A f \in Fields : act.new[f] = st[f]) \/ st.gen < act.new.gen
    BY <1>2 DEF IInv, ActKept, WorkerPersists
  <2>2. act.new.gen \in Nat BY <2>1 DEF Sound, Shaped, WellFormed
  <2>3. Follows(st, act.new) BY <1>0, <2>1, <2>2, SameFollows, RaisesFollow
  <2> QED BY <1>2, <2>1, <2>3
<1> QED BY <1>1, <1>2 DEF WorkerPersists, Write, Fails, Ends

LEMMA SelectionSt ==
  ASSUME Sound(st), SetManualSelection
  PROVE  \E id \in {ImplicitPool(st.active)} \cup PoolIds : \E n :
           /\ Mutate(SelectionSet(st, id, n), TRUE,
                     [NewCall EXCEPT !.phase = "saved", !.pool = id, !.node = n])
           /\ \A t \in SelectionSet(st, id, n) : EditOf(st, t) /\ Follows(st, t)
<1>1. Shaped(st) BY DEF Sound
<1> QED BY <1>1, SelectionSetFacts, SelectionFollows DEF SetManualSelection

LEMMA StStep ==
  ASSUME IInv, [Next]_vars
  PROVE  Sound(st') /\ Follows(st, st')
<1>0. Sound(st) /\ Shaped(st) /\ st.gen \in Nat BY DEF IInv, Sound, Shaped, WellFormed
<1>1. CASE PageEdit
  <2>1. PICK nexts : Mutate(nexts, FALSE, None) /\ \A n \in nexts : EditOf(st, n)
    BY <1>0, <1>1, PageEdits
  <2> QED BY <1>0, <2>1, MutateSt
<1>2. CASE SetManualSelection BY <1>0, <1>2, SelectionSt, MutateSt
<1>3. CASE WorkerPersists BY <1>3, PersistSt
<1>4. ASSUME NEW s \in Subs, NEW drafts \in Batches, UpdateSubscription(s, drafts)
      PROVE  Sound(st') /\ Follows(st, st')
  BY <1>0, <1>4, UpdateSt
<1>5. ASSUME NEW s \in Subs, DeleteSubscription(s) PROVE Sound(st') /\ Follows(st, st')
  BY <1>0, <1>5, DeleteSt
<1>6. CASE UNCHANGED st
  <2>1. Follows(st, st') BY <1>0, <1>6, SameFollows
  <2> QED BY <1>0, <1>6, <2>1
<1> QED BY <1>1, <1>2, <1>3, <1>4, <1>5, <1>6
        DEF Next, Environment, PageEdit, vars, Query, ApplyConfiguration, ReconcileSkipped,
            Reconcile, ReconcileTimeout, ReconcileLate, Settle, Return, Preflight, Answer,
            WorkerCommits, StartCore, StopCore, CoreLost, Activate

\* While the page waits for its call, nobody selects another node.
LEMMA SelectionsStay ==
  ASSUME IInv, [Next]_vars, call # None
  PROVE  \A id \in DOMAIN st'.pools :
           id \in DOMAIN st.pools /\ st'.pools[id].selection = st.pools[id].selection
<1>0. Sound(st) /\ Shaped(st) BY DEF IInv, Sound
<1>1. ~PageEdit
  <2>1. ASSUME PageEdit PROVE FALSE BY <1>0, <2>1, PageEdits DEF Mutate
  <2> QED BY <2>1
<1>2. ~SetManualSelection BY DEF SetManualSelection, Mutate
<1>3. CASE WorkerPersists BY <1>3, PersistSt
<1>4. ASSUME NEW s \in Subs, NEW drafts \in Batches, UpdateSubscription(s, drafts)
      PROVE  st'.pools = st.pools
  BY <1>0, <1>4, UpdateSt
<1>5. ASSUME NEW s \in Subs, DeleteSubscription(s)
      PROVE  \A id \in DOMAIN st'.pools : id \in DOMAIN st.pools /\ st'.pools[id] = st.pools[id]
  BY <1>0, <1>5, DeleteSt
<1>6. CASE UNCHANGED st BY <1>6
<1> QED BY <1>1, <1>2, <1>3, <1>4, <1>5, <1>6
        DEF Next, Environment, PageEdit, vars, Query, ApplyConfiguration, ReconcileSkipped,
            Reconcile, ReconcileTimeout, ReconcileLate, Settle, Return, Preflight, Answer,
            WorkerCommits, StartCore, StopCore, CoreLost, Activate

-----------------------------------------------------------------------------
(* The revision *)

\* A snapshot of a state the comparison knows, or of one that gets a later revision.
LEMMA ToldInv ==
  ASSUME RevisionsKept, RevisionNamesState, NEW c, NEW s, Told(c, s), c.mat = CasMaterial(s),
         c = cas \/ c.rev \in (cas.rev + 1)..MaxRevision
  PROVE  RevisionsKept' /\ RevisionNamesState'
<1>1. Shown(s) = c.mat BY DEF Shown, CasMaterial
<1>2. cas' = c /\ named' = named \cup {[rev |-> c.rev, shown |-> c.mat]} BY <1>1 DEF Told
<1>3. cas.rev \in Nat /\ MaxRevision \in Nat /\ cas.rev \in 1..MaxRevision
  BY BoundsAssumption DEF RevisionsKept
<1>4. c.rev \in 1..MaxRevision /\ cas.rev <= c.rev BY <1>3
<1>5. \A n \in named : /\ n.rev \in 1..c.rev
                       /\ n.rev = c.rev => n.shown = c.mat
  BY <1>3, <1>4 DEF RevisionsKept
<1> QED BY <1>2, <1>3, <1>4, <1>5 DEF RevisionsKept, RevisionNamesState

LEMMA ObservedFacts ==
  ASSUME RevisionsKept, NEW s, NEW c \in Observed(s)
  PROVE  /\ c.mat = CasMaterial(s)
         /\ c = cas \/ c.rev \in (cas.rev + 1)..MaxRevision
         /\ c.rev \in 1..MaxRevision /\ cas.rev <= c.rev
BY BoundsAssumption DEF Observed, RevisionsKept

LEMMA MutateRev ==
  ASSUME RevisionsKept, RevisionNamesState, NEW nexts, NEW manual, NEW after,
         Mutate(nexts, manual, after)
  PROVE  RevisionsKept' /\ RevisionNamesState'
<1>1. ASSUME NEW c \in Observed(st), NEW n, CasMaterial(n) = c.mat, Told(c, n)
      PROVE  RevisionsKept' /\ RevisionNamesState'
  BY <1>1, ObservedFacts, ToldInv
<1>2. ASSUME NEW c \in Observed(st), NEW s, c.rev < MaxRevision,
             Told([rev |-> c.rev + 1, mat |-> CasMaterial(s)], s)
      PROVE  RevisionsKept' /\ RevisionNamesState'
  <2> DEFINE d == [rev |-> c.rev + 1, mat |-> CasMaterial(s)]
  <2>1. c.rev \in 1..MaxRevision /\ cas.rev <= c.rev BY ObservedFacts
  <2>2. cas.rev \in Nat /\ MaxRevision \in Nat BY BoundsAssumption DEF RevisionsKept
  <2>3. d.mat = CasMaterial(s) /\ d.rev \in (cas.rev + 1)..MaxRevision BY <1>2, <2>1, <2>2
  <2>4. Told(d, s) BY <1>2
  <2> HIDE DEF d
  <2> QED BY <2>3, <2>4, ToldInv
<1> QED BY <1>1, <1>2 DEF Mutate

LEMMA RevStep ==
  ASSUME IInv, [Next]_vars
  PROVE  RevisionsKept' /\ RevisionNamesState'
<1>0. RevisionsKept /\ RevisionNamesState /\ Shaped(st) BY DEF IInv, Sound
<1>1. CASE \E c \in Observed(st) : Told(c, st)
  <2>1. PICK c \in Observed(st) : Told(c, st) BY <1>1
  <2>2. c.mat = CasMaterial(st) /\ (c = cas \/ c.rev \in (cas.rev + 1)..MaxRevision)
    BY <1>0, ObservedFacts
  <2> QED BY <1>0, <2>1, <2>2, ToldInv
<1>2. CASE PageEdit BY <1>0, <1>2, PageEdits, MutateRev
<1>3. CASE SetManualSelection BY <1>0, <1>3, MutateRev DEF SetManualSelection
<1>4. CASE UNCHANGED revVars BY <1>0, <1>4 DEF revVars, RevisionsKept, RevisionNamesState
<1> QED BY <1>1, <1>2, <1>3, <1>4
        DEF Next, Environment, PageEdit, vars, Query, ApplyConfiguration, ReconcileSkipped,
            Reconcile, ReconcileTimeout, ReconcileLate, Settle, Return, Preflight, Answer,
            WorkerPersists, WorkerCommits, StartCore, StopCore, CoreLost, Activate,
            UpdateSubscription, DeleteSubscription

-----------------------------------------------------------------------------
(* The activation in hand *)

LEMMA ActStep ==
  ASSUME IInv, [Next]_vars
  PROVE  ActKept' /\ ops' \in 0..MaxOps
<1>0. /\ Sound(st) /\ Shaped(st) /\ WellFormed(st) /\ st.gen \in Nat /\ ActKept /\ ops \in 0..MaxOps
      /\ MaxOps \in Nat
  BY BoundsAssumption DEF IInv, TypeOK, Sound, Shaped, WellFormed
<1>1. Sound(st') /\ Follows(st, st') /\ st'.gen \in Nat BY StStep DEF Sound, Shaped, WellFormed
<1>2. CASE UNCHANGED <<act, ops>>
  <2>1. ASSUME act # None, act.phase = "persisted" PROVE Made(Projection(act.new), st')
    <3>1. Made(Projection(act.new), st) /\ act.new.gen \in Nat
      BY <1>0, <2>1 DEF ActKept, Sound, Shaped, WellFormed
    <3>2. Projection(act.new).gen \in Nat BY <3>1 DEF Projection
    <3> QED BY <1>0, <1>1, <3>1, <3>2, MadeFollows
  <2> QED BY <1>0, <1>2, <2>1 DEF ActKept
<1>3. CASE act' = None /\ UNCHANGED ops BY <1>0, <1>3 DEF ActKept
<1>4. CASE Preflight
  <2>1. ops' \in 0..MaxOps BY <1>0, <1>4 DEF Preflight, NextOp
  <2>2. CASE act' = [op |-> NextOp, phase |-> "queued", old |-> st, new |-> st]
    BY <1>0, <2>1, <2>2 DEF ActKept
  <2>3. CASE UNCHANGED act /\ UNCHANGED st BY <1>0, <2>1, <2>3 DEF ActKept
  <2> QED BY <1>4, <2>2, <2>3 DEF Preflight, PreflightFails
<1>5. ASSUME NEW s \in Subs, NEW force \in BOOLEAN, Activate(s, force)
      PROVE  ActKept' /\ ops' \in 0..MaxOps
  <2>1. ops' \in 0..MaxOps BY <1>0, <1>5 DEF Activate, NextOp
  <2>2. PICK new \in Selected(st, s) :
          Projects(new) /\ act' = [op |-> NextOp, phase |-> "queued", old |-> st, new |-> new]
    BY <1>5 DEF Activate
  <2>3. /\ WellFormed(new) /\ new.active = s /\ SameBut(st, new, {"active", "gen"})
        /\ SameBut(st, new, {}) \/ st.gen < new.gen
    BY <1>0, SelectedFacts
  <2>4. new.routes = st.routes /\ new.pools = st.pools BY <2>3, SameFields
  <2>5. Sound(new) BY <1>0, <2>2, <2>3, <2>4 DEF Sound, Shaped, Projects
  <2>6. (\A f \in Fields : new[f] = st[f]) \/ st.gen < new.gen BY <2>3 DEF SameBut
  <2> QED BY <2>1, <2>2, <2>4, <2>5, <2>6 DEF ActKept
<1>6. CASE WorkerPersists
  <2>1. CASE act' = [act EXCEPT !.phase = "persisted"] /\ st' = act.new
    <3>0. act # None BY <1>6 DEF WorkerPersists
    <3>1. /\ DOMAIN act' = {"op", "phase", "old", "new"} /\ act'.new = act.new
          /\ act'.old = act.old
      BY <1>0, <2>1, <3>0 DEF ActKept
    <3>2. Made(Projection(act.new), st') BY <1>1, <2>1, MadeOfItself
    <3>3. UNCHANGED ops BY <1>6 DEF WorkerPersists
    <3> QED BY <1>0, <3>0, <3>1, <3>2, <3>3 DEF ActKept
  <2>2. UNCHANGED ops BY <1>6 DEF WorkerPersists
  <2> QED BY <1>3, <1>6, <2>1, <2>2, PersistSt
<1>7. CASE PageEdit \/ SetManualSelection
  <2>1. UNCHANGED <<act, ops>>
    BY <1>0, <1>7, PageEdits DEF SetManualSelection, Mutate, runVars
  <2> QED BY <1>2, <2>1
<1> QED BY <1>2, <1>3, <1>4, <1>5, <1>6, <1>7
        DEF Next, Environment, PageEdit, vars, runVars, Query, ApplyConfiguration, ReconcileSkipped,
            Reconcile, ReconcileTimeout, ReconcileLate, RuntimeFree, Settle, Return, Answer,
            WorkerCommits, Fails, StartCore, StopCore, CoreLost, UpdateSubscription,
            DeleteSubscription

-----------------------------------------------------------------------------
(* The core and what is remembered of it *)

CoreTypes ==
  /\ run.life \in {"Stopped", "Ready", "RecoveryRequired"}
  /\ run.life = "Ready" <=> run.applied # None
  /\ DOMAIN readBack \subseteq DOMAIN core

LEMMA ProjectionFields ==
  ASSUME NEW s
  PROVE  /\ Projection(s).sub = s.active /\ Projection(s).gen = s.gen
         /\ Projection(s).pools = ProjectedPools(s)
BY DEF Projection

\* A core that becomes ready runs what it was given and nothing was read back from it.
LEMMA ReadyCore ==
  ASSUME NEW s, Sound(s), BecomesReady(Projection(s)), Made(Projection(s), st')
  PROVE  CoreKept' /\ CoreTypes'
<1>1. s.active \in Subs \cup {None} /\ s.gen \in 0..MaxGen
  BY MaxGenAssumption DEF Sound, Shaped, WellFormed, Valid
<1>2. /\ art' = Projection(s) /\ DOMAIN core' = DOMAIN art'.pools /\ DOMAIN readBack' = {}
      /\ run' = [life |-> "Ready", applied |-> [sub |-> s.active, gen |-> s.gen]]
  BY ProjectionFields DEF BecomesReady, Installed, Chosen, NoFn
<1>3. run'.applied # None /\ run'.life = "Ready" BY <1>1, <1>2, NamesAssumption
<1> QED BY <1>1, <1>2, <1>3, ProjectionFields DEF CoreKept, CoreTypes

LEMMA NoCore ==
  ASSUME NEW life \in {"Stopped", "RecoveryRequired"}, run' = Down(life),
         \/ DOMAIN readBack' = {}
         \/ CoreKept /\ CoreTypes /\ UNCHANGED <<art, core, readBack>>
  PROVE  CoreKept' /\ CoreTypes'
<1>1. run'.life = life /\ run'.applied = None BY DEF Down
<1> QED BY <1>1 DEF CoreKept, CoreTypes, Selects

LEMMA SameCore ==
  ASSUME IInv, [Next]_vars, UNCHANGED <<run, art, core, readBack>>
  PROVE  CoreKept' /\ CoreTypes'
<1>0. CoreKept /\ CoreTypes BY DEF IInv, TypeOK, CoreTypes
<1>1. Follows(st, st') /\ st.gen \in Nat /\ st'.gen \in Nat
  BY StStep DEF IInv, Sound, Shaped, WellFormed
<1>2. run.life = "Ready" => Made(art, st')
  <2>1. run.life = "Ready" => Made(art, st) /\ art.gen \in Nat BY <1>0, MaxGenAssumption DEF CoreKept
  <2> QED BY <1>1, <2>1, MadeFollows
<1> QED BY <1>0, <1>2 DEF CoreKept, CoreTypes, Selects

LEMMA FailsCore ==
  ASSUME IInv, [Next]_vars, NEW life \in {run.life, "Stopped", "RecoveryRequired"}, NEW error,
         Fails(life, error)
  PROVE  CoreKept' /\ CoreTypes'
<1>0. CoreKept /\ CoreTypes BY DEF IInv, TypeOK, CoreTypes
<1>1. CASE life = "Ready"
  <2>1. UNCHANGED <<run, art, core, readBack>> BY <1>1 DEF Fails, FailedIn
  <2> QED BY <2>1, SameCore
<1>2. CASE life # "Ready"
  <2>1. run' = Down(life) /\ life \in {"Stopped", "RecoveryRequired"}
    BY <1>0, <1>2 DEF Fails, FailedIn, CoreTypes
  <2>2. DOMAIN readBack' = {} \/ UNCHANGED <<art, core, readBack>> BY <1>2 DEF Fails, NoFn
  <2> QED BY <1>0, <2>1, <2>2, NoCore
<1> QED BY <1>1, <1>2

\* What was read back of a selector is what the core uses there.
LEMMA SeenCore ==
  ASSUME CoreKept, CoreTypes, run.life = "Ready", UNCHANGED <<st, run, art>>,
         NEW pool \in DOMAIN core, NEW now, NEW answer \in {now, None}, SwitchSeen(pool, now, answer)
  PROVE  CoreKept' /\ CoreTypes'
<1>0. DOMAIN core = DOMAIN art.pools BY DEF CoreKept
<1>1. /\ core' = IF Selects(pool) THEN [core EXCEPT ![pool] = now] ELSE core
      /\ readBack' = ReadBack(pool, answer)
  BY DEF SwitchSeen
<1>2. DOMAIN core' = DOMAIN core /\ DOMAIN readBack' \subseteq DOMAIN core
  BY <1>0, <1>1 DEF ReadBack, With, Without, CoreTypes
<1>3. ASSUME NEW id \in DOMAIN readBack', Selects(id) PROVE core'[id] = readBack'[id]
  <2>1. CASE id = pool
    <3>1. answer # None /\ readBack'[id] = answer BY <1>1, <1>3, <2>1 DEF ReadBack, With, Without
    <3>2. core'[id] = now BY <1>1, <1>3, <2>1
    <3> QED BY <3>1, <3>2
  <2>2. CASE id # pool
    <3>1. id \in DOMAIN readBack /\ readBack'[id] = readBack[id]
      BY <1>1, <1>3, <2>2 DEF ReadBack, With, Without
    <3>2. core'[id] = core[id] BY <1>1, <2>2, <3>1 DEF CoreTypes
    <3> QED BY <1>3, <3>1, <3>2 DEF CoreKept
  <2> QED BY <2>1, <2>2
<1> QED BY <1>0, <1>2, <1>3 DEF CoreKept, CoreTypes, Selects

\* A hot switch, in time for its caller or not.
LEMMA ReconcileCore ==
  ASSUME IInv, [Next]_vars, Reconcile \/ ReconcileLate
  PROVE  CoreKept' /\ CoreTypes'
<1>0. CoreKept /\ CoreTypes BY DEF IInv, TypeOK, CoreTypes
<1>1. UNCHANGED <<st, run, art>> BY DEF Reconcile, ReconcileLate
<1>2. CASE UNCHANGED <<core, readBack>> BY <1>1, <1>2, SameCore
<1>3. CASE Reconcile
  <2>1. run.life = "Ready" /\ call.pool \in DOMAIN core
    BY <1>0, <1>3 DEF Reconcile, InIndex, CoreKept
  <2>2. PICK now : \E answer \in {now, None} : SwitchSeen(call.pool, now, answer)
    BY <1>3 DEF Reconcile
  <2> QED BY <1>0, <1>1, <2>1, <2>2, SeenCore
<1>4. CASE ReconcileLate /\ ~ UNCHANGED <<core, readBack>>
  <2>1. run.life = "Ready" /\ late.pool \in DOMAIN core
    BY <1>0, <1>4 DEF ReconcileLate, InIndex, CoreKept
  <2>2. PICK now : \E answer \in {now, None} : SwitchSeen(late.pool, now, answer)
    BY <1>4 DEF ReconcileLate
  <2> QED BY <1>0, <1>1, <2>1, <2>2, SeenCore
<1> QED BY <1>2, <1>3, <1>4

LEMMA CoreStep ==
  ASSUME IInv, [Next]_vars
  PROVE  CoreKept' /\ CoreTypes'
<1>0. CoreKept /\ CoreTypes /\ Shaped(st) BY DEF IInv, TypeOK, CoreTypes, Sound
<1>1. Sound(st) /\ st.gen \in Nat BY DEF IInv, Sound, Shaped, WellFormed
<1>2. CASE Reconcile \/ ReconcileLate BY <1>2, ReconcileCore
<1>3. CASE WorkerPersists
  <2>1. CASE UNCHANGED <<run, art, core, readBack>> BY <2>1, SameCore
  <2>2. CASE \E life \in {run.life, "Stopped", "RecoveryRequired"} : \E error : Fails(life, error)
    BY <2>2, FailsCore
  <2> QED BY <1>3, <2>1, <2>2 DEF WorkerPersists, Ends
<1>4. CASE WorkerCommits
  <2>1. CASE BecomesReady(Projection(act.new))
    <3>1. Sound(act.new) /\ Made(Projection(act.new), st) /\ UNCHANGED st
      BY <1>4 DEF WorkerCommits, IInv, ActKept
    <3>2. Made(Projection(act.new), st') BY <3>1
    <3> QED BY <2>1, <3>1, <3>2, ReadyCore
  <2>2. CASE \E life \in {run.life, "Stopped", "RecoveryRequired"} : \E error : Fails(life, error)
    BY <2>2, FailsCore
  <2> QED BY <1>4, <2>1, <2>2 DEF WorkerCommits
<1>5. CASE StartCore
  <2>1. BecomesReady(Projection(st)) /\ UNCHANGED st BY <1>5 DEF StartCore
  <2>2. Made(Projection(st), st') BY <1>1, <2>1, MadeOfItself
  <2> QED BY <1>1, <2>1, <2>2, ReadyCore
<1>6. CASE StopCore
  <2>1. run' = Down("Stopped") /\ DOMAIN readBack' = {} BY <1>6 DEF StopCore, NoFn
  <2> QED BY <2>1, NoCore
<1>7. CASE CoreLost BY <1>0, <1>7, NoCore DEF CoreLost
<1>8. CASE PageEdit \/ SetManualSelection
  <2>1. UNCHANGED <<run, art, core, readBack>>
    BY <1>0, <1>8, PageEdits DEF SetManualSelection, Mutate, runVars
  <2> QED BY <2>1, SameCore
<1>9. CASE UNCHANGED <<run, art, core, readBack>> BY <1>9, SameCore
<1> QED BY <1>2, <1>3, <1>4, <1>5, <1>6, <1>7, <1>8, <1>9
        DEF Next, Environment, PageEdit, vars, runVars, Query, ApplyConfiguration, ReconcileSkipped,
            ReconcileTimeout, Settle, Return, Preflight, PreflightFails, Answer, Activate,
            UpdateSubscription, DeleteSubscription

-----------------------------------------------------------------------------
(* The call of the page *)

LEMMA CallRecords ==
  /\ \A id, n : LET c == [NewCall EXCEPT !.phase = "saved", !.pool = id, !.node = n]
                IN /\ DOMAIN c = DOMAIN NewCall
                   /\ c.phase = "saved" /\ c.pool = id /\ c.node = n
  /\ \A g : LET c == [NewCall EXCEPT !.phase = "apply", !.goal = g]
            IN DOMAIN c = DOMAIN NewCall /\ c.phase = "apply"
  /\ \A r, x : LET c == [NewCall EXCEPT !.phase = "done", !.result = r, !.shown = x]
               IN /\ DOMAIN c = DOMAIN NewCall
                  /\ c.phase = "done" /\ c.result = r /\ c.shown = x
  /\ DOMAIN NewCall = {"phase", "pool", "node", "result", "shown", "goal"}
BY DEF NewCall
LEMMA ReconciledFields ==
  ASSUME DOMAIN call = DOMAIN NewCall, NEW result, Reconciled(result)
  PROVE  /\ DOMAIN call' = DOMAIN NewCall /\ call'.phase = "settle" /\ call'.result = result
         /\ call'.pool = call.pool /\ call'.node = call.node
<1> DEFINE c == [call EXCEPT !.phase = "settle"]
<1>1. DOMAIN call = {"phase", "pool", "node", "result", "shown", "goal"} BY CallRecords
<1>2. call' = [c EXCEPT !.result = result] BY DEF Reconciled
<1>3. DOMAIN c = DOMAIN call /\ c.phase = "settle" /\ c.pool = call.pool /\ c.node = call.node
  BY <1>1
<1> HIDE DEF c
<1> QED BY <1>1, <1>2, <1>3

\* The saved state has the selection the request asked for, new or not.
LEMMA SelectionSaved ==
  ASSUME Sound(st), RevisionsKept, NEW id, NEW n, NEW after,
         Mutate(SelectionSet(st, id, n), TRUE, after)
  PROVE  st'.pools[id].selection = Manual(n) /\ call' = after /\ UNCHANGED runVars
<1>0. Shaped(st) BY DEF Sound
<1>1. ASSUME NEW c \in Observed(st), NEW t \in SelectionSet(st, id, n), CasMaterial(t) = c.mat,
             UNCHANGED st
      PROVE  st'.pools[id].selection = Manual(n)
  <2>1. CasMaterial(t) = CasMaterial(st) BY <1>1, ObservedFacts
  <2>2. t.pools = st.pools BY <2>1 DEF CasMaterial
  <2> QED BY <1>0, <1>1, <2>2, SelectionSetFacts
<1>2. ASSUME NEW t \in SelectionSet(st, id, n), NEW s \in Raised(TRUE, t), WriteEdit(s)
      PROVE  st'.pools[id].selection = Manual(n)
  <2>1. st' = t BY <1>2 DEF WriteEdit, Raised, BumpedIf
  <2> QED BY <1>0, <2>1, SelectionSetFacts
<1> QED BY <1>1, <1>2 DEF Mutate

LEMMA SelectionCall ==
  ASSUME IInv, SetManualSelection
  PROVE  CallKept'
<1>0. PICK id \in {ImplicitPool(st.active)} \cup PoolIds : \E n :
        Mutate(SelectionSet(st, id, n), TRUE,
               [NewCall EXCEPT !.phase = "saved", !.pool = id, !.node = n])
  BY SelectionSt DEF IInv
<1>1. PICK n : Mutate(SelectionSet(st, id, n), TRUE,
                      [NewCall EXCEPT !.phase = "saved", !.pool = id, !.node = n])
  BY <1>0
<1>2. /\ st'.pools[id].selection = Manual(n)
      /\ call' = [NewCall EXCEPT !.phase = "saved", !.pool = id, !.node = n]
  BY <1>1, SelectionSaved DEF IInv
<1>3. /\ DOMAIN call' = {"phase", "pool", "node", "result", "shown", "goal"}
      /\ call'.phase = "saved" /\ call'.pool = id /\ call'.node = n
  BY <1>2, CallRecords
<1>4. \A s \in Subs \cup {None} : id # RuntimePool(s)
  BY NamesAssumption DEF ImplicitPool, RuntimePool
<1> QED BY <1>2, <1>3, <1>4 DEF CallKept, Picks

LEMMA ReconcileCall ==
  ASSUME IInv, Reconcile \/ ReconcileSkipped \/ ReconcileTimeout
  PROVE  CallKept'
<1>0. /\ call # None /\ call.phase = "saved" /\ Picks(st) /\ DOMAIN call = DOMAIN NewCall
      /\ \A s \in Subs \cup {None} : call.pool # RuntimePool(s)
  BY CallRecords DEF IInv, CallKept, Reconcile, ReconcileSkipped, ReconcileTimeout
<1>1. ASSUME NEW result, Reconciled(result), UNCHANGED st,
             result = "applied" =>
               /\ act' = None /\ late' = None
               /\ run'.life = "Ready" /\ call.pool \in DOMAIN core' /\ Selects(call.pool)'
                  => core'[call.pool] = call.node
      PROVE  CallKept'
  <2>1. /\ DOMAIN call' = DOMAIN NewCall /\ call'.phase = "settle" /\ call'.result = result
        /\ call'.pool = call.pool /\ call'.node = call.node
    BY <1>0, <1>1, ReconciledFields
  <2> QED BY <1>0, <1>1, <2>1, CallRecords DEF CallKept, Picks, Selects
<1>2. CASE ReconcileSkipped
  <2>1. Reconciled("savedOnly") /\ UNCHANGED st BY <1>2 DEF ReconcileSkipped
  <2> QED BY <1>1, <2>1
<1>4. CASE ReconcileTimeout
  <2>1. Reconciled("unknown") /\ UNCHANGED st BY <1>4 DEF ReconcileTimeout
  <2> QED BY <1>1, <2>1
<1>3. CASE Reconcile
  <2>1. /\ UNCHANGED <<st, run, art>> /\ act' = None /\ late' = None /\ run.life = "Ready"
        /\ call.pool \in DOMAIN art.pools
    BY <1>3 DEF Reconcile, RuntimeFree, InIndex
  <2>2. DOMAIN core = DOMAIN art.pools BY <2>1 DEF IInv, CoreKept
  <2>3. PICK now, answer :
          /\ answer \in {now, None}
          /\ core' = IF Selects(call.pool) THEN [core EXCEPT ![call.pool] = now] ELSE core
          /\ Reconciled(IF answer = None THEN "unknown"
                        ELSE IF answer = call.node THEN "applied" ELSE "notApplied")
    BY <1>3 DEF Reconcile, SwitchSeen
  <2> DEFINE result == IF answer = None THEN "unknown"
                       ELSE IF answer = call.node THEN "applied" ELSE "notApplied"
  <2>4. result = "applied" => answer = call.node /\ now = call.node BY <2>3
  <2>5. Reconciled(result) BY <2>3
  <2> HIDE DEF result
  <2>6. Selects(call.pool) => core'[call.pool] = now BY <2>1, <2>2, <2>3
  <2>7. Selects(call.pool)' <=> Selects(call.pool)
    BY <2>1, <2>5, <1>0, ReconciledFields DEF Selects
  <2>8. Selects(call.pool)' => core'[call.pool] = now BY <2>6, <2>7
  <2> QED BY <1>1, <2>1, <2>4, <2>5, <2>8
<1> QED BY <1>2, <1>3, <1>4

\* A switch is left behind only by its own caller.
LEMMA LateStep ==
  ASSUME IInv, [Next]_vars, UNCHANGED call
  PROVE  late' \in {late, None}
<1>0. Shaped(st) BY DEF IInv, Sound
<1>1. CASE PageEdit \/ SetManualSelection
  BY <1>0, <1>1, PageEdits DEF SetManualSelection, Mutate, runVars
<1>2. ~ReconcileTimeout
  <2>1. ASSUME ReconcileTimeout PROVE FALSE
    <3>1. /\ call # None /\ call.phase = "saved" /\ DOMAIN call = DOMAIN NewCall
          /\ Reconciled("unknown")
      BY <2>1, CallRecords DEF ReconcileTimeout, IInv, CallKept
    <3>2. call'.phase = "settle" BY <3>1, ReconciledFields
    <3> QED BY <3>1, <3>2
  <2> QED BY <2>1
<1>3. CASE late' \in {late, None} BY <1>3
<1> QED BY <1>1, <1>2, <1>3
        DEF Next, Environment, PageEdit, vars, runVars, Query, ApplyConfiguration,
            ReconcileSkipped, Reconcile, ReconcileLate, Settle, Return, Preflight, Answer,
            WorkerPersists, WorkerCommits, StartCore, StopCore, CoreLost, Activate,
            UpdateSubscription, DeleteSubscription
\* A core that becomes ready with a state has the selections of that state.
LEMMA ReadyPicks ==
  ASSUME NEW s, BecomesReady(Projection(s)), Picks(s), call.pool # RuntimePool(s.active),
         call.pool \in DOMAIN core'
  PROVE  core'[call.pool] = call.node
<1>1. core' = [id \in DOMAIN ProjectedPools(s) |-> ProjectedPools(s)[id].selection.node]
  BY ProjectionFields DEF BecomesReady, Installed, Chosen
<1>2. call.pool \in PoolsInUse(s) /\ core'[call.pool] = s.pools[call.pool].selection.node
  BY <1>1 DEF ProjectedPools, With
<1>3. s.pools[call.pool].selection = Manual(call.node) BY <1>2 DEF Picks, PoolsInUse
<1> QED BY <1>2, <1>3 DEF Manual

\* A call nobody answers is overtaken by the rest of the application.
LEMMA SameCall ==
  ASSUME IInv, [Next]_vars, UNCHANGED call,
         \/ act' = None
         \/ act # None /\ act'.new = act.new
         \/ act'.new.pools = st.pools,
         \/ UNCHANGED <<run, art, core>>
         \/ run'.life # "Ready"
         \/ BecomesReady(Projection(st))
         \/ act # None /\ BecomesReady(Projection(act.new))
  PROVE  CallKept'
<1>1. CASE call = None BY <1>1 DEF CallKept
<1>2. CASE call # None
  <2>0. CallKept /\ Sound(st) BY DEF IInv
  <2>1. ASSUME call.phase \in {"saved", "settle"}
        PROVE  Picks(st)' /\ \A s \in Subs \cup {None} : call.pool # RuntimePool(s)
    BY <1>2, <2>0, <2>1, SelectionsStay DEF CallKept, Picks
  <2>2. ASSUME call.phase = "settle", call.result = "applied"
        PROVE  late' = None /\ (act' # None => Picks(act.new)')
    <3>1. Picks(st) /\ late = None /\ (act # None => Picks(act.new))
      BY <1>2, <2>0, <2>2 DEF CallKept
    <3> QED BY <3>1, LateStep DEF Picks
  <2>3. ASSUME call.phase = "settle", call.result = "applied",
               run'.life = "Ready", call.pool \in DOMAIN core', Selects(call.pool)'
        PROVE  core'[call.pool] = call.node
    <3>1. /\ Picks(st) /\ (act # None => Picks(act.new))
          /\ \A s \in Subs \cup {None} : call.pool # RuntimePool(s)
      BY <1>2, <2>0, <2>3 DEF CallKept
    <3>2. CASE UNCHANGED <<run, art, core>> BY <1>2, <2>0, <2>3, <3>2 DEF CallKept, Selects
    <3>3. CASE BecomesReady(Projection(st))
      BY <2>0, <2>3, <3>1, <3>3, ReadyPicks DEF Sound, Shaped
    <3>4. CASE act # None /\ BecomesReady(Projection(act.new))
      <4>1. Sound(act.new) BY <3>4 DEF IInv, ActKept
      <4> QED BY <2>3, <3>1, <3>4, <4>1, ReadyPicks DEF Sound, Shaped
    <3> QED BY <2>3, <3>2, <3>3, <3>4
  <2>4. DOMAIN call' = {"phase", "pool", "node", "result", "shown", "goal"}
    BY <1>2, <2>0 DEF CallKept
  <2> QED BY <2>1, <2>2, <2>3, <2>4 DEF CallKept
<1> QED BY <1>1, <1>2

LEMMA OverCall ==
  ASSUME call' = None \/ (DOMAIN call' = DOMAIN NewCall /\ call'.phase \notin {"saved", "settle"})
  PROVE  CallKept'
BY CallRecords DEF CallKept

LEMMA FailsCall ==
  ASSUME IInv, NEW life \in {run.life, "Stopped", "RecoveryRequired"}, NEW error, Fails(life, error)
  PROVE  act' = None /\ (UNCHANGED <<run, art, core>> \/ run'.life # "Ready")
<1>1. CASE life = "Ready" BY <1>1 DEF Fails, FailedIn
<1>2. CASE life # "Ready" BY <1>2 DEF Fails, FailedIn, Down
<1> QED BY <1>1, <1>2

LEMMA CallStep ==
  ASSUME IInv, [Next]_vars
  PROVE  CallKept'
<1>0. Sound(st) /\ Shaped(st) /\ WellFormed(st) BY DEF IInv, Sound, Shaped
<1>1. CASE PageEdit
  <2>1. call' = None BY <1>0, <1>1, PageEdits DEF Mutate
  <2> QED BY <2>1, OverCall
<1>2. CASE SetManualSelection BY <1>2, SelectionCall
<1>3. CASE Reconcile \/ ReconcileSkipped \/ ReconcileTimeout BY <1>3, ReconcileCall
<1>4. CASE Settle
  <2>1. \E r, x : Finished(r, x) BY <1>4 DEF Settle
  <2>2. DOMAIN call' = DOMAIN NewCall /\ call'.phase = "done" BY <2>1, CallRecords DEF Finished
  <2> QED BY <2>2, OverCall
<1>5. CASE ApplyConfiguration
  <2>1. call' = [NewCall EXCEPT !.phase = "apply", !.goal = Desired(st)]
    BY <1>5 DEF ApplyConfiguration
  <2>2. DOMAIN call' = DOMAIN NewCall /\ call'.phase = "apply" BY <2>1, CallRecords
  <2> QED BY <2>2, OverCall
<1>6. CASE Preflight
  <2>1. CASE call' = None BY <2>1, OverCall
  <2>2. CASE call' = [call EXCEPT !.phase = "waiting"]
    <3>1. DOMAIN call = {"phase", "pool", "node", "result", "shown", "goal"}
      BY <1>6 DEF Preflight, IInv, CallKept
    <3>2. DOMAIN call' = DOMAIN NewCall /\ call'.phase = "waiting" BY <2>2, <3>1, CallRecords
    <3> QED BY <3>2, OverCall
  <2> QED BY <1>6, <2>1, <2>2 DEF Preflight, PreflightFails
<1>7. CASE Return \/ Answer BY <1>7, OverCall DEF Return, Answer
<1>8. CASE WorkerPersists
  <2>0. UNCHANGED call /\ act # None BY <1>8 DEF WorkerPersists
  <2>1. CASE act' = None
    <3>1. UNCHANGED <<run, art, core>> \/ run'.life # "Ready"
      <4>1. CASE \E life \in {run.life, "Stopped", "RecoveryRequired"} : \E error : Fails(life, error)
        BY <4>1, FailsCall
      <4>2. CASE UNCHANGED <<run, art, core>> BY <4>2
      <4> QED BY <1>8, <4>1, <4>2 DEF WorkerPersists, Ends
    <3> QED BY <2>0, <2>1, <3>1, SameCall
  <2>2. CASE act' = [act EXCEPT !.phase = "persisted"] /\ UNCHANGED <<run, art, core>>
    <3>1. act'.new = act.new BY <2>0, <2>2 DEF IInv, ActKept
    <3> QED BY <2>0, <2>2, <3>1, SameCall
  <2> QED BY <1>8, <2>1, <2>2 DEF WorkerPersists, Fails, Ends
<1>9. CASE WorkerCommits
  <2>0. UNCHANGED call /\ act # None BY <1>9 DEF WorkerCommits
  <2>1. CASE BecomesReady(Projection(act.new)) /\ act' = None BY <2>0, <2>1, SameCall
  <2>2. CASE \E life \in {run.life, "Stopped", "RecoveryRequired"} : \E error : Fails(life, error)
    BY <2>0, <2>2, FailsCall, SameCall
  <2> QED BY <1>9, <2>1, <2>2 DEF WorkerCommits
<1>10. ASSUME NEW s \in Subs, NEW force \in BOOLEAN, Activate(s, force) PROVE CallKept'
  <2>1. PICK new \in Selected(st, s) :
          act' = [op |-> NextOp, phase |-> "queued", old |-> st, new |-> new]
    BY <1>10 DEF Activate
  <2>2. SameBut(st, new, {"active", "gen"}) BY <1>0, SelectedFacts
  <2>3. act'.new.pools = st.pools BY <2>1, <2>2, SameFields
  <2>4. UNCHANGED <<call, run, art, core>> BY <1>10 DEF Activate
  <2> QED BY <2>3, <2>4, SameCall
<1>11. CASE StartCore
  <2>1. UNCHANGED call /\ act' = None /\ BecomesReady(Projection(st))
    BY <1>11 DEF StartCore, RuntimeFree
  <2> QED BY <2>1, SameCall
<1>12. CASE StopCore \/ CoreLost
  <2>1. UNCHANGED call /\ act' = None /\ run'.life # "Ready"
    BY <1>12 DEF StopCore, RuntimeFree, CoreLost, Down
  <2> QED BY <2>1, SameCall
<1>13. CASE UNCHANGED <<call, act, run, art, core>>
  <2>1. act' = None \/ (act # None /\ act'.new = act.new) BY <1>13
  <2> QED BY <1>13, <2>1, SameCall
<1>14. CASE ReconcileLate
  <2>1. UNCHANGED <<call, act, st>> /\ late # None BY <1>14 DEF ReconcileLate
  <2> QED BY <2>1 DEF CallKept, IInv, Picks
<1> QED BY <1>1, <1>2, <1>3, <1>4, <1>5, <1>6, <1>7, <1>8, <1>9, <1>10, <1>11, <1>12, <1>13, <1>14
        DEF Next, Environment, PageEdit, vars, runVars, Query, UpdateSubscription,
            DeleteSubscription

-----------------------------------------------------------------------------
(* The initial state *)

LEMMA ImportsSound == \A s \in Imports(Imports({Empty})) : Sound(s) /\ s.routes = <<>>
<1>1. ASSUME NEW ss, NEW t \in Imports(ss),
             \A z \in ss : WellFormed(z) /\ z.active = None /\ z.routes = <<>>
      PROVE  WellFormed(t) /\ Valid(t) /\ t.active = None /\ t.routes = <<>>
  <2> DEFINE drafts == {Draft(c) : c \in Conns}
  <2>1. Imports(ss) = UNION {Imported(s, x, Sub, drafts) : s \in ss, x \in Subs} BY DEF Imports
  <2> HIDE DEF drafts
  <2>2. PICK s \in ss, x \in Subs : t \in Imported(s, x, Sub, drafts) BY <2>1
  <2> QED BY <1>1, <2>2, ImportedFacts
<1>2. \A t \in Imports({Empty}) : WellFormed(t) /\ t.active = None /\ t.routes = <<>>
  BY <1>1, EmptyFacts
<1>3. \A t \in Imports(Imports({Empty})) :
        WellFormed(t) /\ Valid(t) /\ t.active = None /\ t.routes = <<>>
  BY <1>1, <1>2, EmptyFacts
<1>4. <<>> \in Seq(RouteRecords) /\ Ordered(<<>>) BY DEF Ordered
<1> QED BY <1>3, <1>4 DEF Sound, Shaped

LEMMA GrownSound ==
  ASSUME NEW ss, \A s \in ss : Shaped(s)
  PROVE  \A t \in Grown(ss) : Sound(t)
BY BumpedSound DEF Grown, Sound

LEMMA EarlierSound == \A s \in Earlier : Sound(s)
<1>1. ASSUME NEW t \in Selections PROVE Sound(t)
  <2>1. PICK s \in Imports(Imports({Empty})), x \in Subs : t \in Selected(s, x)
    <3> DEFINE both == Imports(Imports({Empty}))
    <3>1. t \in UNION {Selected(s, x) : s \in both, x \in Subs} BY DEF Selections
    <3> HIDE DEF both
    <3>2. \E s \in both, x \in Subs : t \in Selected(s, x) BY <3>1
    <3> QED BY <3>2 DEF both
  <2>2. Sound(s) /\ WellFormed(s) BY ImportsSound DEF Sound, Shaped
  <2>3. WellFormed(t) /\ t.active = x /\ SameBut(s, t, {"active", "gen"})
    BY <2>1, <2>2, SelectedFacts
  <2>4. t.routes = s.routes BY <2>3, SameFields
  <2>5. Valid(t) BY DEF Selections
  <2> QED BY <2>2, <2>3, <2>4, <2>5 DEF Sound, Shaped
<1>2. \A x : PoolFormed(OnePool(x)) BY DEF PoolFormed, OnePool, CustomPool, Manual
<1>3. \A t \in Pooled : Sound(t)
  <2> DEFINE ss == UNION {PoolCreated(s, p, OnePool(x)) : s \in Selections, p \in PoolIds, x \in Subs}
  <2>1. \A n \in ss : Shaped(n) BY <1>1, <1>2, PoolCreatedFacts DEF Sound, EditOf
  <2>2. Pooled = Grown(ss) BY DEF Pooled
  <2> HIDE DEF ss
  <2> QED BY <2>1, <2>2, GrownSound
<1>4. ASSUME NEW ss, \A s \in ss : Sound(s), NEW r \in RouteIds,
             NEW t \in {Direct} \cup {ToPool(id) : id \in PoolIds}
      PROVE  \A s \in Routed(ss, r, t) : Sound(s)
  <2> DEFINE route == Route(r, TRUE, t)
             ns == UNION {RouteCreated(s, route, 0) : s \in ss}
  <2>1. route \in RouteRecords BY PageRoutes
  <2> HIDE DEF route
  <2>2. \A n \in ns : Shaped(n) BY <1>4, <2>1, RouteCreatedFacts DEF Sound, EditOf
  <2>3. Routed(ss, r, t) = Grown(ns) BY DEF Routed, route
  <2> HIDE DEF ns
  <2> QED BY <2>2, <2>3, GrownSound
<1>5. First \in RouteIds /\ Second \in RouteIds
  <2>1. First \in RouteIds BY NamesAssumption DEF First
  <2>2. \E r \in RouteIds : r # First BY <2>1, NamesAssumption
  <2> QED BY <2>1, <2>2 DEF Second
<1>6. ASSUME NEW p \in PoolIds
      PROVE  \A s \in Routed(Routed({z \in Pooled : OwnPool(z)}, First, Direct), Second, ToPool(p)) :
               Sound(s)
  <2>1. \A s \in {z \in Pooled : OwnPool(z)} : Sound(s) BY <1>3
  <2>2. \A s \in Routed({z \in Pooled : OwnPool(z)}, First, Direct) : Sound(s)
    BY <1>4, <1>5, <2>1
  <2> QED BY <1>4, <1>5, <2>2
<1> QED BY <1>1, <1>3, <1>6 DEF Earlier

LEMMA InitIInv == Init => IInv
<1> SUFFICES ASSUME Init PROVE IInv OBVIOUS
<1>1. Sound(st) BY EarlierSound DEF Init
<1>2. RevisionsKept /\ RevisionNamesState
  <2>1. cas.rev = 1 /\ cas.mat = CasMaterial(st) /\ named = {[rev |-> 1, shown |-> Shown(st)]}
    BY DEF Init
  <2>2. Shown(st) = CasMaterial(st) BY DEF Shown, CasMaterial
  <2> QED BY <2>1, <2>2, BoundsAssumption DEF RevisionsKept, RevisionNamesState
<1>3. /\ run.life = "Stopped" /\ run.applied = None /\ DOMAIN readBack = {} /\ act = None
      /\ call = None /\ ops = 0
  BY DEF Init, Down, NoFn
<1>4. TypeOK BY <1>1, <1>2, <1>3, BoundsAssumption DEF TypeOK, Sound, RevisionsKept
<1> QED BY <1>1, <1>2, <1>3, <1>4 DEF IInv, CoreKept, ActKept, CallKept

LEMMA StepIInv == IInv /\ [Next]_vars => IInv'
<1> SUFFICES ASSUME IInv, [Next]_vars PROVE IInv' OBVIOUS
<1>1. Sound(st') BY StStep
<1>2. RevisionsKept' /\ RevisionNamesState' BY RevStep
<1>3. CoreKept' /\ CoreTypes' BY CoreStep
<1>4. ActKept' /\ ops' \in 0..MaxOps BY ActStep
<1>5. CallKept' BY CallStep
<1>6. TypeOK' BY <1>1, <1>2, <1>3, <1>4, BoundsAssumption DEF TypeOK, CoreTypes, Sound, RevisionsKept
<1> QED BY <1>1, <1>2, <1>3, <1>4, <1>5, <1>6 DEF IInv

-----------------------------------------------------------------------------
(* The theorems *)

(* The invariant of the routing service holds in every behaviour.          *)
THEOREM Invariance == Spec => []IInv
<1> QED BY InitIInv, StepIInv, PTL DEF Spec

(* The revision a page sends names one state, whatever subscriptions do in *)
(* between: an edit is only saved onto what the page shows (observe).      *)
THEOREM RevisionNamesStateHolds == Spec => []RevisionNamesState
<1>1. IInv => RevisionNamesState BY DEF IInv
<1> QED BY <1>1, Invariance, PTL

(* Routes are stored in the order they apply in, what is stored is valid,  *)
(* and a selector that is shown in sync is (normalize_priorities,          *)
(* AppState::validate, selectors).                                         *)
THEOREM ConsistentHolds == Spec => []Consistent
<1>1. ASSUME IInv PROVE InSyncIsTrue
  <2> SUFFICES ASSUME NEW id \in DOMAIN st.pools, SelectorState(st, id) = "inSync", Selects(id)
               PROVE  core[id] = st.pools[id].selection.node
    BY DEF InSyncIsTrue
  <2>1. id \in DOMAIN readBack /\ readBack[id] = st.pools[id].selection.node BY DEF SelectorState
  <2> QED BY <1>1, <2>1 DEF IInv, CoreKept
<1>2. IInv => Consistent
  BY <1>1 DEF IInv, Consistent, Sound, Shaped, RoutesApplyInOrder
<1> QED BY <1>2, Invariance, PTL

(* "applied" is said of the configuration the core runs, unless a custom   *)
(* pool draws on a subscription that is not selected                       *)
(* (canonical_runtime_apply_state).                                        *)
THEOREM AppliedIsWhatRunsHolds == Spec => []AppliedIsWhatRuns
<1>1. ASSUME ApplyState(st)[2] = "applied" PROVE run.life = "Ready" /\ run.applied = Desired(st)
  BY <1>1 DEF ApplyState
<1>2. ASSUME IInv PROVE AppliedIsWhatRuns
  <2> SUFFICES ASSUME ApplyState(st)[2] = "applied", ~DrawsOnOthers(st)
               PROVE  Structure(Projection(st)) = Structure(art)
    BY DEF AppliedIsWhatRuns
  <2>1. run.life = "Ready" /\ run.applied = Desired(st) BY <1>1
  <2>2. Made(art, st) /\ run.applied = [sub |-> art.sub, gen |-> art.gen]
    BY <1>2, <2>1 DEF IInv, CoreKept
  <2>3. art.sub = st.active /\ art.gen = st.gen BY <2>1, <2>2 DEF Desired
  <2> QED BY <2>2, <2>3 DEF Made
<1> QED BY <1>2, Invariance, PTL

(* A hot switch that is reported as applied is in the snapshot that comes  *)
(* with it, and in the core, also when either was replaced before the      *)
(* answer (reconcile_manual_selection, settle_manual_outcome).             *)
THEOREM SelectorAppliedIsTrueHolds == Spec => SelectorAppliedIsTrue
<1> DEFINE A == /\ call # None /\ call' # None
                /\ call.phase = "settle" /\ call'.phase = "done" /\ call'.result = "applied"
                => /\ call'.shown = Manual(call.node)
                   /\ run.life = "Ready" /\ call.pool \in DOMAIN core /\ Selects(call.pool)
                      => core[call.pool] = call.node
<1>1. ASSUME IInv, [Next]_vars PROVE [A]_vars
  <2> SUFFICES ASSUME call # None, call' # None, call.phase = "settle", call'.phase = "done",
                      call'.result = "applied"
               PROVE  /\ call'.shown = Manual(call.node)
                      /\ run.life = "Ready" /\ call.pool \in DOMAIN core /\ Selects(call.pool)
                         => core[call.pool] = call.node
    OBVIOUS
  <2>1. CASE Settle
    <3>1. CASE Finished(Outcome(st), IF call.pool \in DOMAIN st.pools
                                     THEN st.pools[call.pool].selection ELSE None)
      <4>1. call'.result = Outcome(st) /\ call'.shown = (IF call.pool \in DOMAIN st.pools
                                     THEN st.pools[call.pool].selection ELSE None)
        BY <3>1, CallRecords DEF Finished
      <4>2. StillDesired(st) /\ call.result = "applied" BY <4>1 DEF Outcome
      <4> QED BY <1>1, <4>1, <4>2 DEF StillDesired, IInv, CallKept
    <3>2. CASE Finished(call.result, Manual(call.node))
      <4>1. call'.result = call.result /\ call'.shown = Manual(call.node)
        BY <3>2, CallRecords DEF Finished
      <4> QED BY <1>1, <4>1 DEF IInv, CallKept
    <3> QED BY <2>1, <3>1, <3>2 DEF Settle
  <2>2. CASE ~Settle
    <3>1. ~PageEdit BY <1>1, PageEdits DEF Mutate, IInv, Sound
    <3>2. UNCHANGED call
      BY <1>1, <2>2, <3>1
         DEF Next, Environment, PageEdit, vars, runVars, Query, SetManualSelection, Mutate,
             ApplyConfiguration, ReconcileSkipped, Reconcile, ReconcileTimeout, ReconcileLate,
             Return, Preflight, Answer, WorkerPersists, WorkerCommits, StartCore, StopCore,
             CoreLost, Activate, UpdateSubscription, DeleteSubscription
    <3> QED BY <3>2
  <2> QED BY <2>1, <2>2
<1>2. [][A]_vars => SelectorAppliedIsTrue BY PTL DEF SelectorAppliedIsTrue
<1> QED BY <1>1, <1>2, Invariance, PTL DEF Spec
=============================================================================
