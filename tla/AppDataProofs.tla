--------------------------- MODULE AppDataProofs ---------------------------
(***************************************************************************)
(* What the writers of AppData make of a well-formed state: the lemmas the *)
(* proofs about its users cite, so that the operators stay opaque there.   *)
(***************************************************************************)
EXTENDS AppData, TLAPS

\* t is s but for some fields.
SameBut(s, t, fs) == DOMAIN t = Fields /\ \A f \in Fields \ fs : t[f] = s[f]

-----------------------------------------------------------------------------
(* One field *)

LEMMA SetTarget ==
  ASSUME NEW s, DOMAIN s = Fields, NEW v
  PROVE  SameBut(s, [s EXCEPT !.target = v], {"target"}) /\ [s EXCEPT !.target = v].target = v
BY DEF SameBut, Fields

LEMMA SetActive ==
  ASSUME NEW s, DOMAIN s = Fields, NEW v
  PROVE  SameBut(s, [s EXCEPT !.active = v], {"active"}) /\ [s EXCEPT !.active = v].active = v
BY DEF SameBut, Fields

LEMMA SetGen ==
  ASSUME NEW s, DOMAIN s = Fields, NEW v
  PROVE  SameBut(s, [s EXCEPT !.gen = v], {"gen"}) /\ [s EXCEPT !.gen = v].gen = v
BY DEF SameBut, Fields

LEMMA SetSubs ==
  ASSUME NEW s, DOMAIN s = Fields, NEW v
  PROVE  SameBut(s, [s EXCEPT !.subs = v], {"subs"}) /\ [s EXCEPT !.subs = v].subs = v
BY DEF SameBut, Fields

LEMMA SetProviders ==
  ASSUME NEW s, DOMAIN s = Fields, NEW v
  PROVE  /\ SameBut(s, [s EXCEPT !.providers = v], {"providers"})
         /\ [s EXCEPT !.providers = v].providers = v
BY DEF SameBut, Fields

LEMMA SetNodes ==
  ASSUME NEW s, DOMAIN s = Fields, NEW v
  PROVE  SameBut(s, [s EXCEPT !.nodes = v], {"nodes"}) /\ [s EXCEPT !.nodes = v].nodes = v
BY DEF SameBut, Fields

LEMMA SetPools ==
  ASSUME NEW s, DOMAIN s = Fields, NEW v
  PROVE  SameBut(s, [s EXCEPT !.pools = v], {"pools"}) /\ [s EXCEPT !.pools = v].pools = v
BY DEF SameBut, Fields

LEMMA SetRoutes ==
  ASSUME NEW s, DOMAIN s = Fields, NEW v
  PROVE  SameBut(s, [s EXCEPT !.routes = v], {"routes"}) /\ [s EXCEPT !.routes = v].routes = v
BY DEF SameBut, Fields

\* The same field by field.
LEMMA SameFields ==
  ASSUME NEW s, NEW t, NEW fs, SameBut(s, t, fs)
  PROVE  /\ DOMAIN t = Fields
         /\ "target" \notin fs => t.target = s.target
         /\ "active" \notin fs => t.active = s.active
         /\ "gen" \notin fs => t.gen = s.gen
         /\ "subs" \notin fs => t.subs = s.subs
         /\ "providers" \notin fs => t.providers = s.providers
         /\ "nodes" \notin fs => t.nodes = s.nodes
         /\ "pools" \notin fs => t.pools = s.pools
         /\ "routes" \notin fs => t.routes = s.routes
BY DEF SameBut, Fields

-----------------------------------------------------------------------------
(* The generation and the selection *)

LEMMA BumpedFacts ==
  ASSUME NEW s, WellFormed(s), NEW t \in Bumped(s)
  PROVE  /\ SameBut(s, t, {"gen"}) /\ t.gen = s.gen + 1
         /\ t.gen \in Nat /\ t.gen <= MaxGen /\ WellFormed(t)
<1>1. DOMAIN s = Fields /\ s.gen \in Nat BY DEF WellFormed
<1>2. t = [s EXCEPT !.gen = s.gen + 1] /\ s.gen < MaxGen BY DEF Bumped
<1>3. SameBut(s, t, {"gen"}) /\ t.gen = s.gen + 1 BY <1>1, <1>2, SetGen
<1>4. t.pools = s.pools /\ t.providers = s.providers /\ DOMAIN t = Fields BY <1>3, SameFields
<1> QED BY <1>1, <1>2, <1>3, <1>4, MaxGenAssumption DEF WellFormed

LEMMA SelectedFacts ==
  ASSUME NEW s, WellFormed(s), NEW x, NEW t \in Selected(s, x)
  PROVE  /\ WellFormed(t) /\ x \in DOMAIN s.subs /\ t.active = x
         /\ SameBut(s, t, {"active", "gen"})
         /\ SameBut(s, t, {}) \/ (s.gen < t.gen /\ t.gen <= MaxGen)
<1> DEFINE n == [s EXCEPT !.active = x]
<1>0. DOMAIN s = Fields /\ s.gen \in Nat BY DEF WellFormed
<1>1. x \in DOMAIN s.subs /\ t \in BumpedIf(s.active # x, n) BY DEF Selected
<1>2. SameBut(s, n, {"active"}) /\ n.active = x BY <1>0, SetActive
<1>3. /\ DOMAIN n = Fields /\ n.gen = s.gen /\ n.pools = s.pools /\ n.providers = s.providers
      /\ n.subs = s.subs /\ n.nodes = s.nodes /\ n.routes = s.routes /\ n.target = s.target
  BY <1>2, SameFields
<1>4. s.active = x => SameBut(s, n, {}) BY <1>2 DEF SameBut
<1> HIDE DEF n
<1>5. WellFormed(n) BY <1>0, <1>3 DEF WellFormed
<1>6. CASE s.active = x
  <2>1. t = n BY <1>1, <1>6 DEF BumpedIf
  <2> QED BY <2>1, <1>1, <1>2, <1>4, <1>5, <1>6 DEF SameBut
<1>7. CASE s.active # x
  <2>1. t \in Bumped(n) BY <1>1, <1>7 DEF BumpedIf
  <2>2. SameBut(n, t, {"gen"}) /\ t.gen = n.gen + 1 /\ t.gen <= MaxGen /\ WellFormed(t)
    BY <2>1, <1>5, BumpedFacts
  <2>3. SameBut(s, t, {"active", "gen"}) BY <2>2, <1>2 DEF SameBut
  <2>4. t.active = x BY <2>2, <1>2, SameFields
  <2> QED BY <2>2, <2>3, <2>4, <1>0, <1>1, <1>3
<1> QED BY <1>6, <1>7

-----------------------------------------------------------------------------
(* Import, replacement and removal *)

LEMMA ReplacedFacts ==
  ASSUME NEW s, WellFormed(s), NEW p, NEW drafts, NEW t \in ReplaceProvider(s, p, drafts)
  PROVE  /\ WellFormed(t) /\ Valid(t) /\ SameBut(s, t, {"nodes"}) /\ p \in DOMAIN s.providers
         /\ \A n \in t.nodes : n.provider # p => n \in s.nodes
         /\ \A n \in s.nodes : n.provider # p => n \in t.nodes
         /\ NodesOf(t, p) = Normalized(p, drafts)
<1> DEFINE nodes == (s.nodes \ NodesOf(s, p)) \cup Normalized(p, drafts)
<1>0. DOMAIN s = Fields BY DEF WellFormed
<1>1. t = [s EXCEPT !.nodes = nodes] /\ p \in DOMAIN s.providers /\ Valid(t)
  BY DEF ReplaceProvider, Replaced
<1>2. SameBut(s, t, {"nodes"}) /\ t.nodes = nodes BY <1>0, <1>1, SetNodes
<1>3. t.pools = s.pools /\ t.providers = s.providers /\ DOMAIN t = Fields /\ t.gen = s.gen
  BY <1>2, SameFields
<1>4. \A n \in Normalized(p, drafts) : n.provider = p BY DEF Normalized
<1> QED BY <1>1, <1>2, <1>3, <1>4 DEF WellFormed, NodesOf

LEMMA ImportedFacts ==
  ASSUME NEW s, WellFormed(s), NEW x, NEW sub, NEW drafts, NEW t \in Imported(s, x, sub, drafts)
  PROVE  /\ WellFormed(t) /\ Valid(t) /\ t.active = s.active /\ t.routes = s.routes
         /\ t.target = s.target /\ x \notin DOMAIN s.subs \cup DOMAIN s.providers
         /\ t.subs = With(s.subs, x, sub) /\ t.providers = With(s.providers, x, x)
         /\ NodesOf(t, x) = Normalized(x, drafts)
         /\ \A m \in t.nodes : m.provider # x => m \in s.nodes
         /\ \A m \in s.nodes : m.provider # x => m \in t.nodes
<1> DEFINE pool == [kind |-> "implicit", sources |-> With(NoFn, x, AnyNode),
                    selection |-> Manual(None), enabled |-> TRUE]
           a == [s EXCEPT !.subs = With(s.subs, x, sub)]
           b == [a EXCEPT !.providers = With(s.providers, x, x)]
           n == [b EXCEPT !.pools = With(s.pools, ImplicitPool(x), pool)]
<1>0. DOMAIN s = Fields BY DEF WellFormed
<1>1. t \in ReplaceProvider(n, x, drafts) /\ x \notin DOMAIN s.subs \cup DOMAIN s.providers
  <2>1. n = [s EXCEPT !.subs = With(@, x, sub), !.providers = With(@, x, x),
                      !.pools = With(@, ImplicitPool(x), pool)]
    BY <1>0 DEF Fields
  <2> HIDE DEF n
  <2> QED BY <2>1 DEF Imported
<1>2. SameBut(s, a, {"subs"}) /\ a.subs = With(s.subs, x, sub) BY <1>0, SetSubs
<1> HIDE DEF a
<1>3. SameBut(a, b, {"providers"}) /\ b.providers = With(s.providers, x, x)
  BY <1>2, SetProviders DEF SameBut
<1> HIDE DEF b
<1>4. SameBut(b, n, {"pools"}) /\ n.pools = With(s.pools, ImplicitPool(x), pool)
  BY <1>3, SetPools DEF SameBut
<1> HIDE DEF n
<1>5. /\ DOMAIN n = Fields /\ n.gen = s.gen /\ n.active = s.active /\ n.routes = s.routes
      /\ n.providers = With(s.providers, x, x) /\ n.subs = With(s.subs, x, sub)
      /\ n.target = s.target /\ n.nodes = s.nodes
  BY <1>2, <1>3, <1>4, SameFields
<1>6. PoolFormed(pool) BY DEF PoolFormed, Manual
<1> HIDE DEF pool
<1>7. WellFormed(n) BY <1>4, <1>5, <1>6 DEF WellFormed, With
<1>8. /\ WellFormed(t) /\ Valid(t) /\ SameBut(n, t, {"nodes"})
      /\ NodesOf(t, x) = Normalized(x, drafts)
      /\ \A m \in t.nodes : m.provider # x => m \in n.nodes
      /\ \A m \in n.nodes : m.provider # x => m \in t.nodes
  BY <1>1, <1>7, ReplacedFacts
<1> QED BY <1>1, <1>5, <1>8, SameFields

\* A subscription goes with its provider, its nodes and the pools of its own.
Loses(s, t, x) ==
  /\ WellFormed(t) /\ t.routes = s.routes /\ t.target = s.target
  /\ t.active = (IF s.active = x THEN None ELSE s.active)
  /\ IF s.active = x THEN t.gen = s.gen + 1 /\ t.gen <= MaxGen ELSE t.gen = s.gen
  /\ t.pools = Without(s.pools, OwnedPools(s, ProvidersOf(s, x)))
  /\ t.subs = Without(s.subs, {x})
  /\ t.providers = Without(s.providers, ProvidersOf(s, x))
  /\ t.nodes = {n \in s.nodes : n.provider \notin ProvidersOf(s, x)}
  /\ ~StillReferenced(s, ProvidersOf(s, x))

LEMMA DeletedFacts ==
  ASSUME NEW s, WellFormed(s), NEW x, NEW t \in Deleted(s, x)
  PROVE  Loses(s, t, x)
<1> DEFINE ps == ProvidersOf(s, x)
           owned == OwnedPools(s, ps)
           active == IF s.active = x THEN None ELSE s.active
           left == {n \in s.nodes : n.provider \notin ps}
           a == [s EXCEPT !.nodes = left]
           b == [a EXCEPT !.pools = Without(s.pools, owned)]
           c == [b EXCEPT !.providers = Without(s.providers, ps)]
           d == [c EXCEPT !.subs = Without(s.subs, {x})]
           e == [d EXCEPT !.active = active]
<1>0. DOMAIN s = Fields /\ s.gen \in Nat BY DEF WellFormed
<1>1. t \in BumpedIf(s.active = x, e) /\ ~StillReferenced(s, ps)
  <2>1. e = [s EXCEPT !.nodes = {n \in @ : n.provider \notin ps},
                      !.pools = Without(@, owned), !.providers = Without(@, ps),
                      !.subs = Without(@, {x}), !.active = IF @ = x THEN None ELSE @]
    BY <1>0 DEF Fields
  <2> HIDE DEF e
  <2> QED BY <2>1 DEF Deleted
<1> HIDE DEF ps, owned, active
<1>2. SameBut(s, a, {"nodes"}) /\ a.nodes = left BY <1>0, SetNodes
<1> HIDE DEF a, left
<1>3. SameBut(a, b, {"pools"}) /\ b.pools = Without(s.pools, owned) BY <1>2, SetPools DEF SameBut
<1> HIDE DEF b
<1>4. SameBut(b, c, {"providers"}) /\ c.providers = Without(s.providers, ps)
  BY <1>3, SetProviders DEF SameBut
<1> HIDE DEF c
<1>5. SameBut(c, d, {"subs"}) /\ d.subs = Without(s.subs, {x})
  BY <1>4, SetSubs DEF SameBut
<1> HIDE DEF d
<1>6. SameBut(d, e, {"active"}) /\ e.active = active BY <1>5, SetActive DEF SameBut
<1> HIDE DEF e
<1>7. /\ DOMAIN e = Fields /\ e.gen = s.gen /\ e.routes = s.routes /\ e.target = s.target
      /\ e.active = active /\ e.nodes = left /\ e.pools = Without(s.pools, owned)
      /\ e.providers = Without(s.providers, ps) /\ e.subs = Without(s.subs, {x})
  BY <1>2, <1>3, <1>4, <1>5, <1>6, SameFields
<1>8. WellFormed(e) BY <1>0, <1>7 DEF WellFormed, Without
<1>9. CASE s.active = x
  <2>1. t \in Bumped(e) BY <1>1, <1>9 DEF BumpedIf
  <2>2. SameBut(e, t, {"gen"}) /\ t.gen = e.gen + 1 /\ t.gen <= MaxGen /\ WellFormed(t)
    BY <2>1, <1>8, BumpedFacts
  <2> QED BY <2>2, <1>1, <1>7, <1>9, SameFields DEF ps, owned, active, left, Loses
<1>10. CASE s.active # x
  <2>1. t = e BY <1>1, <1>10 DEF BumpedIf
  <2> QED BY <2>1, <1>1, <1>7, <1>8, <1>10 DEF ps, owned, active, left, Loses
<1> QED BY <1>9, <1>10

LEMMA EmptyFacts == WellFormed(Empty) /\ Empty.active = None /\ Empty.routes = <<>>
<1>1. DOMAIN NoFn = {} BY DEF NoFn
<1> HIDE DEF NoFn
<1> QED BY <1>1 DEF Empty, WellFormed, Fields
=============================================================================
