----------------------- MODULE SubscriptionWritesProofs -----------------------
(***************************************************************************)
(* Theorems about SubscriptionWrites, for any number of subscriptions,     *)
(* URLs, connections and intervals, and for any bound on time and events.  *)
(*                                                                         *)
(* First what each commit makes of a sound state (AppDataProofs has what   *)
(* the shared writers do), then what each step of a client does to the     *)
(* write flag, the gate and the scheduler's promises.                      *)
(***************************************************************************)
EXTENDS SubscriptionWrites, AppDataProofs

-----------------------------------------------------------------------------
(* Records *)

LEMMA DoingFields ==
  ASSUME NEW phase, NEW request, NEW base, NEW answer, NEW at, NEW next
  PROVE  LET o == Doing(phase, request, base, answer, at, next)
         IN /\ o.phase = phase /\ o.request = request /\ o.base = base
            /\ o.answer = answer /\ o.at = at /\ o.next = next
BY DEF Doing

LEMMA AskingFields ==
  ASSUME NEW phase, NEW request
  PROVE  Asking(phase, request).phase = phase /\ Asking(phase, request).request = request
BY DoingFields DEF Asking

LEMMA IdleFields == Idle.phase = "idle"
BY AskingFields DEF Idle

\* One client moves and the other stays.
LEMMA OpStep ==
  ASSUME NEW c \in Clients, NEW o, op = [d \in Clients |-> op[d]], op' = [op EXCEPT ![c] = o]
  PROVE  /\ op'[c] = o
         /\ \A d \in Clients : d # c => op'[d] = op[d]
         /\ op' = [d \in Clients |-> op'[d]]
OBVIOUS

LEMMA RequestsComplete == \A request \in Requests : Complete(request)
<1> SUFFICES ASSUME NEW request \in Requests PROVE Complete(request) OBVIOUS
<1> DEFINE Imports == {Import(u, ProfilePolicy) : u \in Urls}
           Manuals == {ImportManual(t) : t \in Conns}
           Updates == {Update(s, t) : s \in Subs, t \in Conns \cup {None}}
           Moves == {Edit(s, u, None) : s \in Subs, u \in Urls}
           Policied == {Edit(s, None, p) : s \in Subs, p \in Policies}
           Both == {Edit(s, u, ProfilePolicy) : s \in Subs, u \in Urls}
           Deletes == {Delete(s) : s \in Subs}
           Saves == {SaveDocument(s, t, e) : s \in Subs, t, e \in Conns}
<1>0. Requests = Imports \cup Manuals \cup Updates \cup Moves \cup Policied \cup Both \cup Deletes \cup Saves
  BY DEF Requests
<1>1. ManualPolicy \in Policies BY DEF ManualPolicy, Policies
<1>2. ProfilePolicy \in Policies BY DEF ProfilePolicy, Policies
<1>3. CASE request \in Imports BY <1>2, <1>3 DEF Import, Request, Complete
<1>4. CASE request \in Manuals BY <1>1, <1>4 DEF ImportManual, Request, Complete
<1>5. CASE request \in Updates BY <1>1, <1>5 DEF Update, Request, Complete
<1>6. ASSUME NEW s \in Subs, NEW u \in Urls \cup {None}, NEW p \in Policies \cup {None},
             request = Edit(s, u, p)
      PROVE  Complete(request)
  BY <1>6 DEF Edit, Request, Complete
<1>7. CASE request \in Moves \cup Policied \cup Both BY <1>2, <1>6, <1>7
<1>8. CASE request \in Deletes BY <1>1, <1>8 DEF Delete, Request, Complete
<1>9. CASE request \in Saves BY <1>1, <1>9 DEF SaveDocument, Request, Complete
<1> HIDE DEF Imports, Manuals, Updates, Moves, Policied, Both, Deletes, Saves
<1> QED BY <1>0, <1>3, <1>4, <1>5, <1>7, <1>8, <1>9

-----------------------------------------------------------------------------
(* Subscriptions *)

LEMMA AdoptedPolicy ==
  ASSUME NEW policy \in Policies, NEW profile \in Intervals \cup {None}
  PROVE  AdoptProfileInterval(policy, profile) \in Policies
BY DEF AdoptProfileInterval, Policies

LEMMA BodyDocument ==
  ASSUME NEW body \in Bodies
  PROVE  /\ DocumentFor(body) = None \/ DocumentFor(body) \in [text : Conns, override : BOOLEAN]
         /\ DocumentFor(body) # None => ~DocumentFor(body).override /\ DocumentFor(body).text = body.conn
BY DEF DocumentFor, Bodies

LEMMA WithBodyFacts ==
  ASSUME NEW sub, SubType(sub), NEW answer, Usable(answer), NEW at \in 0..MaxClock,
         NEW nodes, ConnsOf(nodes) = {answer.body.conn}
  PROVE  LET v == WithBody(sub, answer, at)
         IN SubType(v) /\ Names(v, nodes) /\ (v.doc # None => ~v.doc.override)
<1> DEFINE v == WithBody(sub, answer, at)
<1>1. /\ v.remote = sub.remote /\ v.url = sub.url /\ v.doc = DocumentFor(answer.body)
      /\ v.policy = AdoptProfileInterval(sub.policy, answer.profile)
      /\ v.validators = (IF sub.remote THEN answer.validators ELSE None)
      /\ v.attempt = at /\ v.success = at
  BY DEF WithBody
<1> HIDE DEF v
<1>2. v.policy \in Policies BY <1>1, AdoptedPolicy DEF SubType, Usable
<1>3. v.validators \in {answer.body, None} /\ answer.body \in Bodies BY <1>1 DEF Usable
<1>4. SubType(v) BY <1>1, <1>2, <1>3, BodyDocument DEF SubType
<1>5. Names(v, nodes) BY <1>1, <1>3 DEF Names
<1> QED BY <1>1, <1>3, <1>4, <1>5, BodyDocument DEF v

LEMMA ConfirmedFacts ==
  ASSUME NEW sub, SubType(sub), NEW answer, NEW base, Confirms(base, answer),
         base.validators = sub.validators, NEW at \in 0..MaxClock, NEW nodes, Names(sub, nodes)
  PROVE  LET v == Confirmed(sub, answer, at)
         IN SubType(v) /\ Names(v, nodes) /\ v.doc = sub.doc
<1> DEFINE v == Confirmed(sub, answer, at)
<1>1. /\ v.remote = sub.remote /\ v.url = sub.url /\ v.doc = sub.doc
      /\ v.policy = AdoptProfileInterval(sub.policy, answer.profile)
      /\ v.validators = MergeMetadata(sub.validators, answer)
      /\ v.attempt = at /\ v.success = at
  BY DEF Confirmed
<1> HIDE DEF v
<1>2. v.policy \in Policies BY <1>1, AdoptedPolicy DEF SubType, Confirms
<1>3. v.validators \in {sub.validators, None} BY <1>1 DEF MergeMetadata, Confirms
<1>4. SubType(v) BY <1>1, <1>2, <1>3 DEF SubType
<1>5. Names(v, nodes) BY <1>1, <1>3 DEF Names
<1> QED BY <1>1, <1>4, <1>5 DEF v

LEMMA EditedFacts ==
  ASSUME NEW sub, SubType(sub), NEW request, Complete(request), NEW nodes
  PROVE  LET v == Edited(sub, request)
         IN /\ SubType(v) /\ v.doc = sub.doc
            /\ Names(sub, nodes) => Names(v, nodes)
BY DEF Edited, SubType, Complete, Names

LEMMA AttemptedFacts ==
  ASSUME NEW sub, SubType(sub), NEW at \in 0..MaxClock, NEW nodes, Names(sub, nodes)
  PROVE  LET v == AttemptedAt(sub, at)
         IN SubType(v) /\ Names(v, nodes) /\ v.doc = sub.doc
BY DEF AttemptedAt, SubType, Names

\* A text that stays keeps its validators, for it is the text they are of.
LEMMA DocumentFacts ==
  ASSUME NEW sub, SubType(sub), NEW text \in Conns, sub.doc # None,
         NEW old, Names(sub, old), NEW nodes, ConnsOf(nodes) = {text}
  PROVE  LET v == DocumentSub(sub, text)
         IN SubType(v) /\ Names(v, nodes)
<1> DEFINE v == DocumentSub(sub, text)
           doc == DocumentSaved(sub, text)
<1>1. /\ v.remote = sub.remote /\ v.url = sub.url /\ v.doc = doc /\ v.policy = sub.policy
      /\ v.validators = (IF text # sub.doc.text THEN None ELSE sub.validators)
      /\ v.attempt = sub.attempt /\ v.success = sub.success
  BY DEF DocumentSub, WithDocument
<1>2. /\ sub.doc \in [text : Conns, override : BOOLEAN] /\ sub.remote \in BOOLEAN
      /\ sub.validators \in Bodies \cup {None}
  BY DEF SubType
<1>3. doc \in [text : Conns, override : BOOLEAN] BY <1>2 DEF DocumentSaved
<1>4. v.validators # None => doc = sub.doc
  BY <1>1, <1>2 DEF DocumentSaved
<1> HIDE DEF v, doc
<1>5. SubType(v) BY <1>1, <1>2, <1>3 DEF SubType
<1>6. Names(v, nodes)
  <2> SUFFICES ASSUME v.validators # None
               PROVE  ConnsOf(nodes) = {v.validators.conn} /\ v.doc = DocumentFor(v.validators)
    BY DEF Names
  <2>1. v.validators = sub.validators /\ text = sub.doc.text BY <1>1
  <2>2. sub.doc = DocumentFor(sub.validators) /\ sub.validators \in Bodies BY <1>2, <2>1 DEF Names
  <2>3. sub.doc.text = sub.validators.conn BY <2>2, BodyDocument
  <2> QED BY <1>1, <1>4, <2>1, <2>2, <2>3
<1> QED BY <1>5, <1>6 DEF v

-----------------------------------------------------------------------------
(* States *)

\* What is kept, apart from validity, which every commit checks.
Whole(s) == WellFormed(s) /\ Typed(s) /\ Honest(s)

GenFollows(s, t) ==
  t.active = s.active /\ s.active # None /\ OwnNodes(t) # OwnNodes(s) => t.gen > s.gen

LEMMA OneProvider ==
  ASSUME NEW s, WellFormed(s), NEW x, NEW p \in ProvidersOf(s, x)
  PROVE  p = x /\ p \in DOMAIN s.providers
BY DEF WellFormed, ProvidersOf

LEMMA OwnSame ==
  ASSUME NEW s, NEW t, WellFormed(s), WellFormed(t), t.active = s.active,
         NodesOf(t, s.active) = NodesOf(s, s.active),
         s.active \in DOMAIN t.providers <=> s.active \in DOMAIN s.providers
  PROVE  OwnNodes(t) = OwnNodes(s)
<1>1. \A p : p \in OwnProviders(s) <=> p = s.active /\ s.active \in DOMAIN s.providers
  BY DEF OwnProviders, ProvidersOf, WellFormed
<1>2. \A p : p \in OwnProviders(t) <=> p = s.active /\ s.active \in DOMAIN s.providers
  BY DEF OwnProviders, ProvidersOf, WellFormed
<1>3. {m \in t.nodes : m.provider \in OwnProviders(t)} = {m \in s.nodes : m.provider \in OwnProviders(s)}
  <2>1. \A m : m \in t.nodes /\ m.provider = s.active <=> m \in s.nodes /\ m.provider = s.active
    BY DEF NodesOf
  <2> QED BY <1>1, <1>2, <2>1
<1> QED BY <1>3 DEF OwnNodes

LEMMA SameNodes ==
  ASSUME NEW s, NEW t, NEW x,
         \A n \in t.nodes : n.provider # x => n \in s.nodes,
         \A n \in s.nodes : n.provider # x => n \in t.nodes
  PROVE  \A y : y # x => NodesOf(t, y) = NodesOf(s, y)
BY DEF NodesOf

LEMMA DraftNodes ==
  ASSUME NEW x, NEW conn
  PROVE  ConnsOf(Normalized(x, Drafts(conn))) = {conn}
<1> DEFINE d == [conn |-> conn, label |-> CHOOSE l \in Labels : TRUE]
           n == [provider |-> x, conn |-> d.conn, label |-> d.label]
<1>1. Drafts(conn) = {d} BY DEF Drafts
<1>2. n.conn = conn OBVIOUS
<1>3. Normalized(x, {d}) = {n} BY DEF Normalized
<1> HIDE DEF n
<1>4. ConnsOf({n}) = {conn} BY <1>2 DEF ConnsOf
<1> QED BY <1>1, <1>3, <1>4

LEMMA WithNodesFacts ==
  ASSUME NEW s, Sound(s), NEW x, NEW conn, NEW changed \in BOOLEAN,
         NEW t \in WithNodes(s, x, conn, changed)
  PROVE  /\ WellFormed(t) /\ SameBut(s, t, {"nodes", "gen"}) /\ x \in DOMAIN s.subs
         /\ ConnsOf(NodesOf(t, x)) = {conn}
         /\ \A y : y # x => NodesOf(t, y) = NodesOf(s, y)
         /\ GenFollows(s, t)
<1>0. WellFormed(s) /\ Valid(s) /\ s.gen \in Nat BY DEF Sound, WellFormed
<1>1. PICK p \in ProvidersOf(s, x) : \E r \in ReplaceProvider(s, p, Drafts(conn)) :
        t \in BumpedIf(s.active = x /\ (changed \/ r.nodes # s.nodes), r)
  BY DEF WithNodes
<1>2. PICK r \in ReplaceProvider(s, p, Drafts(conn)) :
        t \in BumpedIf(s.active = x /\ (changed \/ r.nodes # s.nodes), r)
  BY <1>1
<1>3. p = x /\ x \in DOMAIN s.providers BY <1>0, OneProvider
<1>4. x \in DOMAIN s.subs BY <1>0, <1>3 DEF Valid, WellFormed
<1>5. /\ WellFormed(r) /\ SameBut(s, r, {"nodes"}) /\ NodesOf(r, x) = Normalized(x, Drafts(conn))
      /\ \A n \in r.nodes : n.provider # x => n \in s.nodes
      /\ \A n \in s.nodes : n.provider # x => n \in r.nodes
  BY <1>0, <1>2, <1>3, ReplacedFacts
<1>6. ConnsOf(NodesOf(r, x)) = {conn} /\ \A y : y # x => NodesOf(r, y) = NodesOf(s, y)
  BY <1>5, DraftNodes, SameNodes
<1>7. r.active = s.active /\ r.providers = s.providers /\ r.gen = s.gen BY <1>5, SameFields
<1>8. CASE s.active = x /\ (changed \/ r.nodes # s.nodes)
  <2>1. t \in Bumped(r) BY <1>2, <1>8 DEF BumpedIf
  <2>2. SameBut(r, t, {"gen"}) /\ t.gen = r.gen + 1 /\ WellFormed(t) BY <2>1, <1>5, BumpedFacts
  <2>3. t.nodes = r.nodes /\ SameBut(s, t, {"nodes", "gen"}) BY <2>2, <1>5, SameFields DEF SameBut
  <2>4. GenFollows(s, t) BY <2>2, <1>0, <1>7 DEF GenFollows
  <2> QED BY <1>4, <1>6, <2>2, <2>3, <2>4 DEF NodesOf
<1>9. CASE ~(s.active = x /\ (changed \/ r.nodes # s.nodes))
  <2>1. t = r BY <1>2, <1>9 DEF BumpedIf
  <2>2. SameBut(s, t, {"nodes", "gen"}) BY <2>1, <1>5 DEF SameBut
  <2>3. NodesOf(r, s.active) = NodesOf(s, s.active)
    <3>1. CASE s.active # x BY <3>1, <1>6
    <3>2. CASE s.active = x BY <3>2, <1>9 DEF NodesOf
    <3> QED BY <3>1, <3>2
  <2>4. OwnNodes(t) = OwnNodes(s) BY <2>1, <2>3, <1>0, <1>5, <1>7, OwnSame
  <2> QED BY <1>4, <1>5, <1>6, <2>1, <2>2, <2>4 DEF GenFollows
<1> QED BY <1>8, <1>9

LEMMA SetSubFacts ==
  ASSUME NEW s, WellFormed(s), NEW x \in DOMAIN s.subs, NEW v
  PROVE  LET t == SetSub(s, x, v)
         IN /\ WellFormed(t) /\ SameBut(s, t, {"subs"}) /\ DOMAIN t.subs = DOMAIN s.subs
            /\ t.subs[x] = v /\ \A y \in DOMAIN s.subs : y # x => t.subs[y] = s.subs[y]
<1> DEFINE t == SetSub(s, x, v)
<1>1. DOMAIN s = Fields BY DEF WellFormed
<1>2. SameBut(s, t, {"subs"}) /\ t.subs = With(s.subs, x, v) BY <1>1, SetSubs DEF SetSub
<1> HIDE DEF t
<1>3. DOMAIN t = Fields /\ t.gen = s.gen /\ t.pools = s.pools /\ t.providers = s.providers
  BY <1>2, SameFields
<1>4. WellFormed(t) BY <1>3 DEF WellFormed
<1> QED BY <1>2, <1>4 DEF With, t

\* A commit that replaces one subscription, and perhaps its nodes before.
LEMMA Changed ==
  ASSUME NEW s, Sound(s), NEW n, WellFormed(n), SameBut(s, n, {"nodes", "gen"}),
         GenFollows(s, n), NEW x \in DOMAIN s.subs,
         \A y : y # x => NodesOf(n, y) = NodesOf(s, y),
         NEW v, SubType(v), Names(v, NodesOf(n, x)), NEW request,
         v.doc # None /\ v.doc.override /\ v.doc # s.subs[x].doc
           => /\ request.kind = "document" /\ s.subs[x].doc # None
              /\ request.expected = s.subs[x].doc.text
  PROVE  Whole(SetSub(n, x, v)) /\ Justified(s, SetSub(n, x, v), request)
<1> DEFINE t == SetSub(n, x, v)
<1>0. /\ n.subs = s.subs /\ n.active = s.active /\ n.target = s.target /\ n.providers = s.providers
  BY SameFields
<1>1. /\ WellFormed(t) /\ SameBut(n, t, {"subs"}) /\ DOMAIN t.subs = DOMAIN s.subs
      /\ t.subs[x] = v /\ \A y \in DOMAIN s.subs : y # x => t.subs[y] = s.subs[y]
  BY <1>0, SetSubFacts
<1> HIDE DEF t
<1>2. /\ t.nodes = n.nodes /\ t.active = n.active /\ t.target = n.target /\ t.gen = n.gen
      /\ t.providers = n.providers
  BY <1>1, SameFields
<1>3. \A y : NodesOf(t, y) = NodesOf(n, y) BY <1>2 DEF NodesOf
<1>4. Typed(t) BY <1>1 DEF Typed, Sound
<1>5. Honest(t)
  <2> SUFFICES ASSUME NEW y \in DOMAIN t.subs PROVE Names(t.subs[y], NodesOf(t, y)) BY DEF Honest
  <2>1. CASE y = x BY <2>1, <1>1, <1>3
  <2>2. CASE y # x
    <3>1. t.subs[y] = s.subs[y] /\ y \in DOMAIN s.subs BY <2>2, <1>1
    <3>2. NodesOf(t, y) = NodesOf(s, y) BY <2>2, <1>3
    <3> QED BY <3>1, <3>2 DEF Sound, Honest
  <2> QED BY <2>1, <2>2
<1>6. OwnNodes(t) = OwnNodes(n) BY <1>2 DEF OwnNodes, OwnProviders, ProvidersOf
<1>7. Justified(s, t, request)
  <2>1. t.target = s.target BY <1>0, <1>2
  <2>2. t.active = s.active /\ s.active # None /\ OwnNodes(t) # OwnNodes(s) => t.gen > s.gen
    BY <1>0, <1>2, <1>6 DEF GenFollows
  <2>3. ASSUME NEW y \in DOMAIN s.subs \cap DOMAIN t.subs, Overrides(s, t, y)
        PROVE  /\ request.kind = "document" /\ s.subs[y].doc # None
               /\ request.expected = s.subs[y].doc.text
    <3>1. y = x BY <2>3, <1>1 DEF Overrides
    <3> QED BY <3>1, <2>3, <1>1 DEF Overrides
  <2> QED BY <2>1, <2>2, <2>3 DEF Justified
<1> QED BY <1>1, <1>4, <1>5, <1>7 DEF Whole, t

\* A commit that leaves the nodes alone.
LEMMA ChangedOnly ==
  ASSUME NEW s, Sound(s), NEW x \in DOMAIN s.subs, NEW v, SubType(v), Names(v, NodesOf(s, x)),
         v.doc = s.subs[x].doc, NEW request
  PROVE  Whole(SetSub(s, x, v)) /\ Justified(s, SetSub(s, x, v), request)
<1>1. WellFormed(s) /\ SameBut(s, s, {"nodes", "gen"}) /\ GenFollows(s, s)
  BY DEF Sound, WellFormed, SameBut, GenFollows
<1> QED BY <1>1, Changed

-----------------------------------------------------------------------------
(* Commits *)

LEMMA SubFacts ==
  ASSUME NEW s, Sound(s), NEW x \in DOMAIN s.subs
  PROVE  SubType(s.subs[x]) /\ Names(s.subs[x], NodesOf(s, x)) /\ x \in Subs
BY DEF Sound, Typed, Honest

\* A new body, for the subscription as it is or as an edit asks for it.
LEMMA BodyCommitted ==
  ASSUME NEW s, Sound(s), NEW x, NEW sub, x \in DOMAIN s.subs => SubType(sub),
         NEW answer, Usable(answer), NEW at \in 0..MaxClock, NEW request,
         NEW n \in WithNodes(s, x, answer.body.conn, FALSE)
  PROVE  LET t == SetSub(n, x, WithBody(sub, answer, at))
         IN Whole(t) /\ Justified(s, t, request)
<1> DEFINE v == WithBody(sub, answer, at)
<1>1. /\ WellFormed(n) /\ SameBut(s, n, {"nodes", "gen"}) /\ x \in DOMAIN s.subs
      /\ ConnsOf(NodesOf(n, x)) = {answer.body.conn}
      /\ \A y : y # x => NodesOf(n, y) = NodesOf(s, y)
      /\ GenFollows(s, n)
  BY WithNodesFacts
<1>2. SubType(v) /\ Names(v, NodesOf(n, x)) /\ (v.doc # None => ~v.doc.override)
  BY <1>1, WithBodyFacts
<1> HIDE DEF v
<1>3. Whole(SetSub(n, x, v)) /\ Justified(s, SetSub(n, x, v), request) BY <1>1, <1>2, Changed
<1> QED BY <1>3 DEF v

LEMMA UpdateCommitted ==
  ASSUME NEW s, Sound(s), NEW x \in DOMAIN s.subs, NEW answer, NEW base,
         base.validators = s.subs[x].validators, Usable(answer) \/ Confirms(base, answer),
         NEW at \in 0..MaxClock, NEW request, NEW t \in UpdateCandidates(s, x, answer, at)
  PROVE  Whole(t) /\ Justified(s, t, request)
<1>0. SubType(s.subs[x]) /\ Names(s.subs[x], NodesOf(s, x)) BY SubFacts
<1>1. CASE answer.kind = "modified"
  <2>0. Usable(answer) BY <1>1 DEF Confirms
  <2>1. PICK n \in WithNodes(s, x, answer.body.conn, FALSE) :
          t = SetSub(n, x, WithBody(s.subs[x], answer, at))
    BY <1>1 DEF UpdateCandidates
  <2> QED BY <1>0, <2>0, <2>1, BodyCommitted
<1>2. CASE answer.kind # "modified"
  <2>0. Confirms(base, answer) BY <1>2 DEF Usable
  <2> DEFINE v == Confirmed(s.subs[x], answer, at)
  <2>1. t = SetSub(s, x, v) BY <1>2 DEF UpdateCandidates
  <2>2. SubType(v) /\ Names(v, NodesOf(s, x)) /\ v.doc = s.subs[x].doc
    BY <1>0, <2>0, ConfirmedFacts
  <2> HIDE DEF v
  <2> QED BY <2>1, <2>2, ChangedOnly
<1> QED BY <1>1, <1>2

LEMMA EditCommitted ==
  ASSUME NEW s, Sound(s), NEW request, Complete(request), request.sub \in DOMAIN s.subs,
         NEW answer, answer = None \/ Usable(answer), NEW at \in 0..MaxClock,
         NEW t \in EditCandidates(s, request, answer, at)
  PROVE  Whole(t) /\ Justified(s, t, request)
<1> DEFINE x == request.sub
           edited == Edited(s.subs[x], request)
<1>0. SubType(s.subs[x]) /\ Names(s.subs[x], NodesOf(s, x)) BY SubFacts
<1>1. SubType(edited) /\ Names(edited, NodesOf(s, x)) /\ edited.doc = s.subs[x].doc
  BY <1>0, EditedFacts
<1>2. CASE answer = None
  <2>1. t = SetSub(s, x, edited) BY <1>2 DEF EditCandidates
  <2> HIDE DEF edited
  <2> QED BY <1>1, <2>1, ChangedOnly
<1>3. CASE answer # None
  <2>1. PICK n \in WithNodes(s, x, answer.body.conn, FALSE) :
          t = SetSub(n, x, WithBody(edited, answer, at))
    BY <1>3 DEF EditCandidates
  <2> HIDE DEF edited
  <2> QED BY <1>1, <1>3, <2>1, BodyCommitted
<1> QED BY <1>2, <1>3

LEMMA AttemptRecorded ==
  ASSUME NEW s, Sound(s), NEW x \in DOMAIN s.subs, NEW at \in 0..MaxClock, NEW request
  PROVE  LET t == SetSub(s, x, AttemptedAt(s.subs[x], at))
         IN Whole(t) /\ Justified(s, t, request)
<1> DEFINE v == AttemptedAt(s.subs[x], at)
<1>0. SubType(s.subs[x]) /\ Names(s.subs[x], NodesOf(s, x)) BY SubFacts
<1>1. SubType(v) /\ Names(v, NodesOf(s, x)) /\ v.doc = s.subs[x].doc BY <1>0, AttemptedFacts
<1> HIDE DEF v
<1>2. Whole(SetSub(s, x, v)) /\ Justified(s, SetSub(s, x, v), request) BY <1>1, ChangedOnly
<1> QED BY <1>2 DEF v

LEMMA DocumentCommitted ==
  ASSUME NEW s, Sound(s), NEW request, Complete(request), request.kind = "document",
         request.sub \in DOMAIN s.subs, s.subs[request.sub].doc # None,
         s.subs[request.sub].doc.text = request.expected,
         NEW t \in DocumentCandidates(s, request.sub, request.text)
  PROVE  Whole(t) /\ Justified(s, t, request)
<1> DEFINE x == request.sub
           v == DocumentSub(s.subs[x], request.text)
<1>0. SubType(s.subs[x]) /\ Names(s.subs[x], NodesOf(s, x)) /\ request.text \in Conns
  BY SubFacts DEF Complete
<1>1. PICK n \in WithNodes(s, x, request.text, request.text # s.subs[x].doc.text) : t = SetSub(n, x, v)
  BY DEF DocumentCandidates
<1> DEFINE changed == request.text # s.subs[x].doc.text
<1>5. changed \in BOOLEAN OBVIOUS
<1>6. n \in WithNodes(s, x, request.text, changed) BY <1>1
<1> HIDE DEF changed
<1>2. /\ WellFormed(n) /\ SameBut(s, n, {"nodes", "gen"})
      /\ ConnsOf(NodesOf(n, x)) = {request.text}
      /\ \A y : y # x => NodesOf(n, y) = NodesOf(s, y)
      /\ GenFollows(s, n)
  BY <1>5, <1>6, WithNodesFacts
<1>3. SubType(v) /\ Names(v, NodesOf(n, x)) BY <1>0, <1>2, DocumentFacts
<1> HIDE DEF v
<1> QED BY <1>1, <1>2, <1>3, Changed

LEMMA NewSubFacts ==
  ASSUME NEW url \in Urls \cup {None}, NEW policy \in Policies, NEW body \in Bodies,
         NEW validators \in {body, None}, NEW at \in 0..MaxClock,
         NEW nodes, ConnsOf(nodes) = {body.conn}
  PROVE  LET v == Sub(url, policy, body, validators, at)
         IN SubType(v) /\ Names(v, nodes)
<1> DEFINE v == Sub(url, policy, body, validators, at)
<1>1. /\ v.remote \in BOOLEAN /\ v.url = url /\ v.policy = policy /\ v.doc = DocumentFor(body)
      /\ v.validators \in {body, None} /\ v.attempt = at /\ v.success = at
  BY DEF Sub
<1> HIDE DEF v
<1>2. SubType(v) BY <1>1, BodyDocument DEF SubType
<1>3. Names(v, nodes) BY <1>1 DEF Names
<1> QED BY <1>2, <1>3 DEF v

\* A new subscription beside the others.
LEMMA Added ==
  ASSUME NEW s, WellFormed(s), s.active \in DOMAIN s.subs \cup {None}, Typed(s), Honest(s),
         NEW x \in Subs, NEW v, NEW conn,
         NEW t \in Imported(s, x, v, Drafts(conn)), SubType(v), NEW request,
         \A nodes : ConnsOf(nodes) = {conn} => Names(v, nodes)
  PROVE  Whole(t) /\ Justified(s, t, request)
<1>1. /\ WellFormed(t) /\ t.active = s.active /\ t.target = s.target
      /\ x \notin DOMAIN s.subs /\ x \notin DOMAIN s.providers
      /\ t.subs = With(s.subs, x, v) /\ t.providers = With(s.providers, x, x)
      /\ NodesOf(t, x) = Normalized(x, Drafts(conn))
      /\ \A m \in t.nodes : m.provider # x => m \in s.nodes
      /\ \A m \in s.nodes : m.provider # x => m \in t.nodes
  BY ImportedFacts
<1>2. ConnsOf(NodesOf(t, x)) = {conn} /\ \A y : y # x => NodesOf(t, y) = NodesOf(s, y)
  <2>1. ConnsOf(NodesOf(t, x)) = {conn} BY <1>1, DraftNodes
  <2>2. /\ \A m \in t.nodes : m.provider # x => m \in s.nodes
        /\ \A m \in s.nodes : m.provider # x => m \in t.nodes
    BY <1>1
  <2>3. \A y : y # x => NodesOf(t, y) = NodesOf(s, y)
    <3> SUFFICES ASSUME NEW y, y # x PROVE NodesOf(t, y) = NodesOf(s, y) OBVIOUS
    <3> QED BY <2>2 DEF NodesOf
  <2> QED BY <2>1, <2>3
<1>3. /\ DOMAIN t.subs = DOMAIN s.subs \cup {x} /\ t.subs[x] = v
      /\ \A y \in DOMAIN s.subs : t.subs[y] = s.subs[y]
      /\ DOMAIN t.providers = DOMAIN s.providers \cup {x}
  BY <1>1 DEF With
<1>4. Typed(t) BY <1>3 DEF Typed
<1>5. Honest(t)
  <2> SUFFICES ASSUME NEW y \in DOMAIN t.subs PROVE Names(t.subs[y], NodesOf(t, y)) BY DEF Honest
  <2>1. CASE y = x BY <2>1, <1>2, <1>3
  <2>2. CASE y # x
    <3>1. t.subs[y] = s.subs[y] /\ y \in DOMAIN s.subs BY <2>2, <1>3
    <3>2. NodesOf(t, y) = NodesOf(s, y) BY <2>2, <1>2
    <3> QED BY <3>1, <3>2 DEF Honest
  <2> QED BY <2>1, <2>2
<1>6. s.active # None => OwnNodes(t) = OwnNodes(s)
  <2> SUFFICES ASSUME s.active # None PROVE OwnNodes(t) = OwnNodes(s) OBVIOUS
  <2>1. s.active # x BY <1>1
  <2> QED BY <2>1, <1>1, <1>2, <1>3, OwnSame
<1>7. \A y \in DOMAIN s.subs \cap DOMAIN t.subs : ~Overrides(s, t, y) BY <1>3 DEF Overrides
<1> QED BY <1>1, <1>4, <1>5, <1>6, <1>7 DEF Whole, Justified

LEMMA ImportCommitted ==
  ASSUME NEW s, Sound(s), NEW request, Complete(request), request.kind \in {"import", "importManual"},
         NEW answer, Usable(answer), NEW at \in 0..MaxClock,
         NEW t \in ImportCandidates(s, request, answer, at)
  PROVE  Whole(t) /\ Justified(s, t, request)
<1> DEFINE policy == AdoptProfileInterval(request.policy, answer.profile)
           v == Sub(request.url, policy, answer.body, answer.validators, at)
<1>1. PICK x \in Subs : t \in Imported(s, x, v, Drafts(answer.body.conn)) BY DEF ImportCandidates
<1>2. /\ policy \in Policies /\ request.url \in Urls \cup {None} /\ answer.body \in Bodies
      /\ answer.validators \in {answer.body, None}
  BY AdoptedPolicy DEF Complete, Usable
<1> HIDE DEF policy
<1>3. \A nodes : ConnsOf(nodes) = {answer.body.conn} => SubType(v) /\ Names(v, nodes)
  BY <1>2, NewSubFacts
<1>4. SubType(v)
  <2>1. ConnsOf(Normalized(x, Drafts(answer.body.conn))) = {answer.body.conn} BY DraftNodes
  <2> HIDE DEF v
  <2> QED BY <2>1, <1>3
<1> HIDE DEF v
<1> QED BY <1>1, <1>3, <1>4, Added DEF Sound, Valid

LEMMA DeleteCommitted ==
  ASSUME NEW s, Sound(s), NEW x \in DOMAIN s.subs, NEW request, NEW t \in Deleted(s, x)
  PROVE  Whole(t) /\ Justified(s, t, request)
<1>0. WellFormed(s) /\ Typed(s) /\ Honest(s) BY DEF Sound
<1>1. /\ WellFormed(t) /\ t.target = s.target
      /\ s.active = x => t.active = None
      /\ t.subs = Without(s.subs, {x})
      /\ t.providers = Without(s.providers, ProvidersOf(s, x))
      /\ t.nodes = {n \in s.nodes : n.provider \notin ProvidersOf(s, x)}
  <2>1. Loses(s, t, x) BY <1>0, DeletedFacts
  <2> QED BY <2>1 DEF Loses
<1>2. \A p \in ProvidersOf(s, x) : p = x BY <1>0, OneProvider
<1>3. \A y : y # x => NodesOf(t, y) = NodesOf(s, y) BY <1>1, <1>2 DEF NodesOf
<1>4. /\ DOMAIN t.subs = DOMAIN s.subs \ {x} /\ \A y \in DOMAIN t.subs : t.subs[y] = s.subs[y]
      /\ DOMAIN t.providers = DOMAIN s.providers \ ProvidersOf(s, x)
  BY <1>1 DEF Without
<1>5. Typed(t) BY <1>0, <1>4 DEF Typed
<1>6. Honest(t) BY <1>0, <1>3, <1>4 DEF Honest
<1>7. t.active = s.active /\ s.active # None => OwnNodes(t) = OwnNodes(s)
  <2> SUFFICES ASSUME t.active = s.active, s.active # None PROVE OwnNodes(t) = OwnNodes(s) OBVIOUS
  <2>1. s.active # x BY <1>1
  <2>2. s.active \in DOMAIN t.providers <=> s.active \in DOMAIN s.providers BY <2>1, <1>2, <1>4
  <2> QED BY <2>1, <2>2, <1>0, <1>1, <1>3, OwnSame
<1>8. \A y \in DOMAIN s.subs \cap DOMAIN t.subs : ~Overrides(s, t, y) BY <1>4 DEF Overrides
<1> QED BY <1>1, <1>5, <1>6, <1>7, <1>8 DEF Whole, Justified

-----------------------------------------------------------------------------
(* The parts of the invariant that are about flags, and about the world *)

Control ==
  /\ op = [c \in Clients |-> op[c]]
  /\ closing \in BOOLEAN /\ writing \in BOOLEAN /\ quiet \in BOOLEAN
  /\ gate \in Clients \cup {None}
  /\ \A c \in Clients : op[c].phase \in Phases
  /\ writing <=> \E c \in Clients : op[c].phase \in Owning
  /\ \A c, d \in Clients : {op[c].phase, op[d].phase} \subseteq Owning => c = d
  /\ \A c \in Clients : gate = c <=> op[c].phase = "saving"
  /\ QuietAfterShutdown /\ (quiet => closing)

World ==
  /\ server \in [Urls -> Bodies]
  /\ clock \in 0..MaxClock
  /\ DOMAIN deadlines \subseteq Subs /\ \A s \in DOMAIN deadlines : deadlines[s] \in Nat
  /\ pass \in {"sleeping", "passing", "done"} /\ due \subseteq Subs

LEMMA Parts ==
  IInv <=> /\ Control /\ World /\ Sound(st)
           /\ \A c \in Clients : Kept(c, op[c], st)
           /\ PassKept /\ Spaced /\ OthersSurvive
BY DEF IInv, TypeOK, Control, World, Sound

LEMMA PartsNext ==
  ASSUME Control', World', Sound(st)', \A c \in Clients : Kept(c, op[c], st)',
         PassKept', Spaced', OthersSurvive'
  PROVE  IInv'
BY DEF IInv, TypeOK, Control, World, Sound

\* A client that owns the flag lets go of it or keeps it, and one that does not takes it
\* only when it is down.
LEMMA ControlStep ==
  ASSUME Control, NEW c \in Clients, NEW o, op' = [op EXCEPT ![c] = o], o.phase \in Phases,
         UNCHANGED <<closing, quiet>>, writing' \in BOOLEAN,
         writing' <=> (o.phase \in Owning \/ (writing /\ op[c].phase \notin Owning)),
         o.phase \in Owning => op[c].phase \in Owning \/ ~writing,
         o.phase = "saving" => gate \in {None, c} /\ gate' = c,
         o.phase # "saving" => gate' = IF op[c].phase = "saving" THEN None ELSE gate,
         quiet => o.phase \in {"idle", "admitted", "entered"}
  PROVE  Control'
<1>0. None \notin Clients BY NamesAssumption DEF Clients
<1>1. /\ op'[c] = o /\ \A d \in Clients : d # c => op'[d] = op[d]
      /\ op' = [d \in Clients |-> op'[d]]
  BY OpStep DEF Control
<1>2. "saving" \in Owning BY DEF Owning, Phases
<1>3. /\ closing' \in BOOLEAN /\ quiet' \in BOOLEAN /\ (quiet' => closing')
      /\ \A d \in Clients : op'[d].phase \in Phases
  BY <1>1 DEF Control
<1>4. gate' \in Clients \cup {None} BY DEF Control
<1>5. writing' <=> \E d \in Clients : op'[d].phase \in Owning
  <2>1. (\E d \in Clients : d # c /\ op[d].phase \in Owning) <=> writing /\ op[c].phase \notin Owning
    BY DEF Control
  <2> QED BY <1>1, <2>1
<1>6. \A a, b \in Clients : {op'[a].phase, op'[b].phase} \subseteq Owning => a = b
  <2>1. \A d \in Clients : d # c /\ op[d].phase \in Owning => o.phase \notin Owning
    BY DEF Control
  <2>2. \A a, b \in Clients : {op[a].phase, op[b].phase} \subseteq Owning => a = b BY DEF Control
  <2> QED BY <1>1, <2>1, <2>2
<1>7. \A d \in Clients : gate' = d <=> op'[d].phase = "saving"
  <2>1. \A d \in Clients : gate = d <=> op[d].phase = "saving" BY DEF Control
  <2>2. CASE o.phase = "saving"
    <3>1. \A d \in Clients : d # c => op[d].phase # "saving" BY <2>1, <2>2, <1>0
    <3> QED BY <3>1, <2>2, <1>1
  <2>3. CASE o.phase # "saving" BY <2>1, <2>3, <1>0, <1>1
  <2> QED BY <2>2, <2>3
<1>8. QuietAfterShutdown' BY <1>1 DEF Control, QuietAfterShutdown
<1> QED BY <1>1, <1>3, <1>4, <1>5, <1>6, <1>7, <1>8 DEF Control

\* The scheduler goes on with what it has taken up, or ends it.
Proceeds(o) ==
  o.phase # "idle" =>
    /\ op["scheduler"].phase # "idle" /\ o.request = op["scheduler"].request
    /\ o.phase \in {"admitted", "entered", "holding"}
       => op["scheduler"].phase \in {"admitted", "entered", "holding"}

LEMMA SchedulerStep ==
  ASSUME PassKept, Spaced, Proceeds(op'["scheduler"]), UNCHANGED <<clock, deadlines, pass, due, tried>>
  PROVE  PassKept' /\ Spaced'
<1>1. PassKept' BY DEF PassKept, Proceeds
<1>2. \A s : TakenUp(s)' => TakenUp(s) BY DEF TakenUp, Proceeds
<1>3. Spaced' BY <1>2 DEF Spaced
<1> QED BY <1>1, <1>3

\* What most steps of a client have in common.
LEMMA ClientStep ==
  ASSUME IInv, NEW c \in Clients, NEW o, op' = [op EXCEPT ![c] = o], o.phase \in Phases,
         UNCHANGED <<st, server, clock, deadlines, closing, pass, due, quiet, tried, written>>,
         writing' \in BOOLEAN,
         writing' <=> (o.phase \in Owning \/ (writing /\ op[c].phase \notin Owning)),
         o.phase \in Owning => op[c].phase \in Owning \/ ~writing,
         o.phase = "saving" => gate \in {None, c} /\ gate' = c,
         o.phase # "saving" => gate' = IF op[c].phase = "saving" THEN None ELSE gate,
         quiet => o.phase \in {"idle", "admitted", "entered"},
         Kept(c, o, st), c = "scheduler" => Proceeds(o)
  PROVE  IInv'
<1>0. /\ Control /\ World /\ Sound(st) /\ PassKept /\ Spaced /\ OthersSurvive
      /\ \A d \in Clients : Kept(d, op[d], st)
  BY Parts
<1>1. op'[c] = o /\ \A d \in Clients : d # c => op'[d] = op[d] BY <1>0, OpStep DEF Control
<1>2. Control' BY <1>0, ControlStep
<1>3. World' BY <1>0 DEF World
<1>4. Sound(st)' /\ OthersSurvive' BY <1>0 DEF OthersSurvive
<1>5. \A d \in Clients : Kept(d, op[d], st)' BY <1>0, <1>1
<1>6. Proceeds(op'["scheduler"])
  <2>1. CASE c = "scheduler" BY <2>1, <1>1
  <2>2. CASE c # "scheduler"
    <3>1. op'["scheduler"] = op["scheduler"] /\ PassKept BY <2>2, <1>0, <1>1 DEF Clients
    <3> QED BY <3>1 DEF Proceeds
  <2> QED BY <2>1, <2>2
<1>7. PassKept' /\ Spaced' BY <1>0, <1>6, SchedulerStep
<1> QED BY <1>2, <1>3, <1>4, <1>5, <1>7, PartsNext

LEMMA IdleKept == \A c, s : Kept(c, Idle, s)
BY IdleFields DEF Kept

-----------------------------------------------------------------------------
(* The steps of a client *)

\* What a client knows, by its phase.
LEMMA Knows ==
  ASSUME IInv, NEW c \in Clients
  PROVE  /\ op[c].phase # "idle" => Complete(op[c].request)
         /\ op[c].phase # "idle" /\ c = "scheduler" => op[c].request.kind = "update"
         /\ op[c].phase = "fetching" => Fetchable(op[c].request, op[c].base)
         /\ op[c].phase = "ready" => Committable(op[c])
         /\ op[c].phase = "failing" => op[c].request.kind \in {"update", "edit"} /\ op[c].at \in 0..MaxClock
         /\ op[c].phase = "saving" => Sound(op[c].next) /\ Justified(st, op[c].next, op[c].request)
         /\ op[c].phase \in Owning => writing = TRUE
         /\ quiet => op[c].phase \in {"idle", "admitted", "entered"}
BY DEF IInv, Kept, TypeOK, QuietAfterShutdown

LEMMA Releases ==
  ASSUME IInv, NEW c \in Clients, op[c].phase \in Owning, Released(c),
         gate' = IF op[c].phase = "saving" THEN None ELSE gate,
         UNCHANGED <<st, server, clock, deadlines, closing, pass, due, quiet, tried, written>>
  PROVE  IInv'
<1>1. Idle.phase = "idle" /\ "idle" \in Phases /\ "idle" \notin Owning
  BY IdleFields DEF Phases, Owning
<1>2. op' = [op EXCEPT ![c] = Idle] /\ writing' = FALSE BY DEF Released
<1>3. Kept(c, Idle, st) /\ Proceeds(Idle) BY <1>1, IdleKept DEF Proceeds
<1> QED BY <1>1, <1>2, <1>3, ClientStep

LEMMA GoesOn ==
  ASSUME IInv, NEW c \in Clients, op[c].phase \in Owning \ {"entered", "saving"}, NEW o,
         op' = [op EXCEPT ![c] = o], o.phase \in Owning \ {"entered", "holding", "saving"},
         o.request = op[c].request, Kept(c, o, st),
         UNCHANGED <<st, server, clock, deadlines, closing, writing, gate, pass, due, quiet, tried, written>>
  PROVE  IInv'
<1>1. writing = TRUE /\ ~quiet /\ o.phase \in Phases
  BY Knows DEF Owning, Phases
<1>2. c = "scheduler" => Proceeds(o) BY DEF Proceeds, Owning, Phases
<1> QED BY <1>1, <1>2, ClientStep DEF Owning, Phases

\* A commit saves only what is sound and justified.
LEMMA Commits ==
  ASSUME IInv, NEW c \in Clients, op[c].phase \in {"holding", "ready", "failing"}, gate = None,
         NEW candidates, Committing(c, candidates),
         \A n \in candidates : Whole(n) /\ Justified(st, n, op[c].request),
         UNCHANGED <<st, server, clock, deadlines, closing, pass, due, quiet, tried, written>>
  PROVE  IInv'
<1>0. /\ op[c].phase \in Owning \ {"saving"} /\ writing = TRUE /\ ~quiet
      /\ Complete(op[c].request) /\ (c = "scheduler" => op[c].request.kind = "update")
  BY Knows DEF Owning, Phases
<1>1. CASE Released(c) /\ UNCHANGED gate BY <1>0, <1>1, Releases
<1>2. CASE ~(Released(c) /\ UNCHANGED gate)
  <2>1. PICK next \in {n \in candidates : Valid(n)} :
          op' = [op EXCEPT ![c] = Doing("saving", op[c].request, op[c].base, op[c].answer, op[c].at, next)]
    BY <1>2 DEF Committing
  <2>2. gate' = c /\ writing' = writing BY <1>2 DEF Committing
  <2>3. Sound(next) /\ Justified(st, next, op[c].request) BY <2>1 DEF Sound, Whole
  <2> DEFINE o == Doing("saving", op[c].request, op[c].base, op[c].answer, op[c].at, next)
  <2>4. o.phase = "saving" /\ o.request = op[c].request /\ o.next = next BY DoingFields
  <2>5. op' = [op EXCEPT ![c] = o] BY <2>1
  <2> HIDE DEF o
  <2>6. Kept(c, o, st) BY <1>0, <2>3, <2>4 DEF Kept
  <2>7. c = "scheduler" => Proceeds(o) BY <2>4 DEF Proceeds
  <2> QED BY <1>0, <2>2, <2>4, <2>5, <2>6, <2>7, ClientStep DEF Owning, Phases
<1> QED BY <1>1, <1>2

LEMMA EnterStep == ASSUME IInv, NEW c \in Clients, Enter(c) PROVE IInv'
<1> DEFINE o == IF writing THEN Idle ELSE Asking("entered", op[c].request)
<1>0. op[c].phase = "admitted" /\ op' = [op EXCEPT ![c] = o] /\ writing' = TRUE BY DEF Enter
<1>1. Complete(op[c].request) /\ (c = "scheduler" => op[c].request.kind = "update") BY <1>0, Knows
<1>2. CASE writing
  <2>1. o = Idle BY <1>2
  <2>2. Kept(c, o, st) /\ o.phase = "idle" BY <2>1, IdleKept, IdleFields
  <2> HIDE DEF o
  <2>3. c = "scheduler" => Proceeds(o) BY <2>2 DEF Proceeds
  <2> QED BY <1>0, <1>2, <2>2, <2>3, ClientStep DEF Enter, Owning, Phases
<1>3. CASE ~writing
  <2>1. o.phase = "entered" /\ o.request = op[c].request BY <1>3, AskingFields
  <2> HIDE DEF o
  <2>2. Kept(c, o, st) BY <1>1, <2>1 DEF Kept
  <2>3. c = "scheduler" => Proceeds(o) BY <1>0, <2>1 DEF Proceeds
  <2> QED BY <1>0, <1>3, <2>1, <2>2, <2>3, ClientStep DEF Enter, Owning, Phases
<1> QED BY <1>2, <1>3

LEMMA RecheckStep == ASSUME IInv, NEW c \in Clients, Recheck(c) PROVE IInv'
<1> DEFINE o == IF closing THEN Idle ELSE Asking("holding", op[c].request)
<1>0. op[c].phase = "entered" /\ op' = [op EXCEPT ![c] = o] /\ writing' = ~closing BY DEF Recheck
<1>1. Complete(op[c].request) /\ (c = "scheduler" => op[c].request.kind = "update") BY <1>0, Knows
<1>2. closing \in BOOLEAN /\ (quiet => closing) BY DEF IInv, TypeOK
<1>3. CASE closing
  <2>1. o = Idle BY <1>3
  <2>2. Kept(c, o, st) /\ o.phase = "idle" BY <2>1, IdleKept, IdleFields
  <2> HIDE DEF o
  <2>3. c = "scheduler" => Proceeds(o) BY <2>2 DEF Proceeds
  <2> QED BY <1>0, <1>3, <2>2, <2>3, ClientStep DEF Recheck, Owning, Phases
<1>4. CASE ~closing
  <2>1. o.phase = "holding" /\ o.request = op[c].request BY <1>4, AskingFields
  <2> HIDE DEF o
  <2>2. Kept(c, o, st) BY <1>1, <2>1 DEF Kept
  <2>3. c = "scheduler" => Proceeds(o) BY <1>0, <2>1 DEF Proceeds
  <2> QED BY <1>0, <1>2, <1>4, <2>1, <2>2, <2>3, ClientStep DEF Recheck, Owning, Phases
<1> QED BY <1>3, <1>4

LEMMA GateBusyStep == ASSUME IInv, NEW c \in Clients, GateBusy(c) PROVE IInv'
BY Releases DEF GateBusy, Owning, Phases

LEMMA RefuseStep == ASSUME IInv, NEW c \in Clients, Refuse(c) PROVE IInv'
BY Releases DEF Refuse, Reading, Owning, Phases

LEMMA CancelledStep == ASSUME IInv, NEW c \in Clients, FetchCancelled(c) PROVE IInv'
BY Releases DEF FetchCancelled, Owning, Phases

LEMMA AbandonStep == ASSUME IInv, NEW c \in Clients, AbandonDocument(c) PROVE IInv'
BY Releases DEF AbandonDocument, Owning, Phases

LEMMA SaveFailsStep == ASSUME IInv, NEW c \in Clients, SaveFails(c) PROVE IInv'
BY Releases DEF SaveFails, Owning, Phases

LEMMA SnapshotFields ==
  ASSUME NEW s, NEW x
  PROVE  LET b == UpdateSnapshot(s, x)
         IN b.url = s.subs[x].url /\ b.validators = s.subs[x].validators /\ b.policy = s.subs[x].policy
BY DEF UpdateSnapshot

LEMMA StartFetchStep == ASSUME IInv, NEW c \in Clients, StartFetch(c) PROVE IInv'
<1> DEFINE r == op[c].request
           base == BaseOf(r)
           o == Doing("fetching", r, base, None, 0, None)
<1>0. op[c].phase = "holding" /\ Fetches(r) /\ op' = [op EXCEPT ![c] = o] BY DEF StartFetch, Reading
<1>1. Complete(r) /\ (c = "scheduler" => r.kind = "update") BY <1>0, Knows
<1>2. Sound(st) BY Parts
<1>3. Fetchable(r, base)
  <2>1. r.kind \in {"import", "update", "edit"} BY <1>0 DEF Fetches
  <2>2. ASSUME r.kind = "update" PROVE base.url \in Urls /\ base.policy \in Policies
    <3>1. r.sub \in DOMAIN st.subs /\ st.subs[r.sub].remote BY <1>0, <2>2 DEF Fetches, Known
    <3>2. base.url = st.subs[r.sub].url /\ base.policy = st.subs[r.sub].policy
      BY <2>2, SnapshotFields DEF BaseOf
    <3>3. st.subs[r.sub].url # None BY <3>1, <1>2 DEF Sound, Valid, SubscriptionValid
    <3> QED BY <3>1, <3>2, <3>3, <1>2, SubFacts DEF SubType
  <2>3. ASSUME r.kind = "edit"
        PROVE  r.url \in Urls /\ r.sub \in DOMAIN base.subs /\ base.subs[r.sub].policy \in Policies
    <3>1. base = st /\ r.sub \in DOMAIN st.subs /\ r.url # None BY <1>0, <2>3 DEF Fetches, Known, BaseOf
    <3> QED BY <3>1, <1>1, <1>2, SubFacts DEF SubType, Complete
  <2> HIDE DEF r, base
  <2> QED BY <2>1, <2>2, <2>3 DEF Fetchable
<1> HIDE DEF base
<1>4. o.phase = "fetching" /\ o.request = r /\ o.base = base BY DoingFields
<1> HIDE DEF o
<1>5. Kept(c, o, st) BY <1>1, <1>3, <1>4 DEF Kept
<1> QED BY <1>0, <1>4, <1>5, GoesOn DEF StartFetch, Owning, Phases

LEMMA StartLocalStep == ASSUME IInv, NEW c \in Clients, StartLocal(c) PROVE IInv'
<1> DEFINE r == op[c].request
           base == BaseOf(r)
           answer == OwnAnswer(r)
           o == Doing("ready", r, base, answer, clock, None)
<1>0. op[c].phase = "holding" /\ Local(r) /\ op' = [op EXCEPT ![c] = o] BY DEF StartLocal, Reading
<1>1. Complete(r) /\ (c = "scheduler" => r.kind = "update") BY <1>0, Knows
<1>2. clock \in 0..MaxClock BY DEF IInv, TypeOK
<1>3. r.text # None => Usable(answer)
  <2> SUFFICES ASSUME r.text # None PROVE Usable(answer) OBVIOUS
  <2> DEFINE body == [conn |-> r.text, format |-> "document"]
  <2>1. body \in Bodies BY <1>1 DEF Bodies, Formats, Complete
  <2>2. answer = Modified(body, None, None) BY DEF OwnAnswer
  <2> HIDE DEF body
  <2> QED BY <2>1, <2>2 DEF Modified, Usable
<1>4. r.text = None => answer = None BY DEF OwnAnswer
<1>5. r.kind \in {"importManual", "update", "edit"} /\ (r.kind = "update" => r.text # None)
  BY <1>0 DEF Local
<1>6. r.kind = "edit" => base = st /\ r.sub \in DOMAIN st.subs
  BY <1>0 DEF Local, Known, BaseOf
<1>7. r.kind \in {"importManual"} => r.text # None BY <1>1, NamesAssumption DEF Complete
<1> HIDE DEF base, answer
<1>8. /\ o.phase = "ready" /\ o.request = r /\ o.base = base /\ o.answer = answer /\ o.at = clock
  BY DoingFields
<1> HIDE DEF o
<1>9. Committable(o)
  BY <1>1, <1>2, <1>3, <1>4, <1>5, <1>6, <1>7, <1>8 DEF Committable, Complete
<1>10. Kept(c, o, st) BY <1>1, <1>8, <1>9 DEF Kept
<1> QED BY <1>0, <1>8, <1>10, GoesOn DEF StartLocal, Owning, Phases

LEMMA PrepareStep == ASSUME IInv, NEW c \in Clients, PrepareDocument(c) PROVE IInv'
<1> DEFINE r == op[c].request
           prepared == IF st.subs[r.sub].doc = None \/ Unread(r) THEN {}
                       ELSE {n \in DocumentCandidates(st, r.sub, r.text) : Valid(n)}
<1>0. op[c].phase = "holding" /\ r.kind = "document" /\ r.sub \in DOMAIN st.subs
  BY DEF PrepareDocument, Reading, Known
<1>1. Complete(r) /\ c # "scheduler" BY <1>0, Knows
<1>2. Sound(st) BY Parts
<1>3. CASE Released(c) BY <1>0, <1>3, Releases DEF PrepareDocument, Owning, Phases
<1>4. CASE ~Released(c)
  <2>1. PICK next \in prepared : op' = [op EXCEPT ![c] = Doing("ready", r, st, None, 0, next)]
    BY <1>4 DEF PrepareDocument
  <2>2. /\ next \in DocumentCandidates(st, r.sub, r.text) /\ Valid(next)
        /\ st.subs[r.sub].doc # None /\ st.subs[r.sub].doc.text = r.expected
    BY <2>1 DEF Unread
  <2>3. Sound(next) /\ Justified(st, next, r)
    BY <1>0, <1>1, <1>2, <2>2, DocumentCommitted DEF Sound, Whole
  <2> DEFINE o == Doing("ready", r, st, None, 0, next)
  <2>4. o.phase = "ready" /\ o.request = r /\ o.base = st /\ o.at = 0 /\ o.next = next
    BY DoingFields
  <2>5. op' = [op EXCEPT ![c] = o] BY <2>1
  <2> HIDE DEF o
  <2>6. Committable(o) BY <1>0, <2>3, <2>4, BoundsAssumption DEF Committable
  <2>7. Kept(c, o, st) BY <1>1, <2>4, <2>6 DEF Kept
  <2>8. UNCHANGED writing BY <1>4 DEF PrepareDocument
  <2> QED BY <1>0, <2>4, <2>5, <2>7, <2>8, GoesOn DEF PrepareDocument, Owning, Phases
<1> QED BY <1>3, <1>4

LEMMA CommitStep == ASSUME IInv, NEW c \in Clients, Commit(c) PROVE IInv'
<1> DEFINE r == op[c].request
           o == op[c]
<1>0. o.phase = "ready" /\ gate = None BY DEF Commit
<1>1. Complete(r) /\ Committable(o) /\ Sound(st) BY <1>0, Knows, Parts
<1>2. CASE ~Unchanged(r, o.base)
  BY <1>0, <1>2, Releases DEF Commit, Owning, Phases
<1>3. CASE Unchanged(r, o.base)
  <2>1. ASSUME NEW n \in Candidates(c) PROVE Whole(n) /\ Justified(st, n, r)
    <3>1. CASE r.kind = "update"
      <4>1. n \in UpdateCandidates(st, r.sub, o.answer, o.at) BY <2>1, <3>1 DEF Candidates
      <4>2. r.sub \in DOMAIN st.subs /\ UpdateSnapshot(st, r.sub) = o.base
        BY <1>3, <3>1 DEF Unchanged, Known
      <4>3. o.base.validators = st.subs[r.sub].validators BY <4>2, SnapshotFields
      <4>4. (Usable(o.answer) \/ Confirms(o.base, o.answer)) /\ o.at \in 0..MaxClock
        BY <1>1, <3>1 DEF Committable
      <4> QED BY <1>1, <4>1, <4>2, <4>3, <4>4, UpdateCommitted
    <3>2. CASE r.kind = "edit"
      <4>1. n \in EditCandidates(st, r, o.answer, o.at) BY <2>1, <3>2 DEF Candidates
      <4>2. st = o.base BY <1>3, <3>2 DEF Unchanged
      <4>3. /\ r.sub \in DOMAIN st.subs /\ o.at \in 0..MaxClock
            /\ o.answer = None \/ Usable(o.answer)
        BY <1>1, <3>2, <4>2 DEF Committable
      <4> QED BY <1>1, <4>1, <4>3, EditCommitted
    <3>3. CASE r.kind = "document"
      <4>1. n = o.next /\ st = o.base BY <2>1, <1>3, <3>3 DEF Candidates, Unchanged
      <4> QED BY <1>1, <3>3, <4>1 DEF Committable, Sound, Whole
    <3>4. CASE r.kind \in {"import", "importManual"}
      <4>1. n \in ImportCandidates(st, r, o.answer, o.at) BY <2>1, <3>4 DEF Candidates
      <4> QED BY <1>1, <3>4, <4>1, ImportCommitted DEF Committable
    <3> QED BY <1>1, <3>1, <3>2, <3>3, <3>4 DEF Committable
  <2>2. Committing(c, Candidates(c)) BY <1>3 DEF Commit
  <2> QED BY <1>0, <2>1, <2>2, Commits DEF Commit
<1> QED BY <1>2, <1>3

LEMMA FailedStep == ASSUME IInv, NEW c \in Clients, RecordFailedAttempt(c) PROVE IInv'
<1> DEFINE s == op[c].request.sub
           snapshot == IF op[c].request.kind = "edit" THEN UpdateSnapshot(op[c].base, s) ELSE op[c].base
           next == SetSub(st, s, AttemptedAt(st.subs[s], op[c].at))
<1>0. op[c].phase = "failing" /\ gate = None BY DEF RecordFailedAttempt
<1>1. op[c].at \in 0..MaxClock /\ Sound(st) BY <1>0, Knows, Parts
<1>2. CASE s \in DOMAIN st.subs /\ UpdateSnapshot(st, s) = snapshot
  <2>1. Committing(c, {next}) BY <1>2 DEF RecordFailedAttempt
  <2>2. Whole(next) /\ Justified(st, next, op[c].request) BY <1>1, <1>2, AttemptRecorded
  <2> HIDE DEF next
  <2> QED BY <1>0, <2>1, <2>2, Commits DEF RecordFailedAttempt
<1>3. CASE ~(s \in DOMAIN st.subs /\ UpdateSnapshot(st, s) = snapshot)
  <2>1. Released(c) /\ UNCHANGED gate BY <1>3 DEF RecordFailedAttempt
  <2> QED BY <1>0, <2>1, Releases DEF RecordFailedAttempt, Owning, Phases
<1> QED BY <1>2, <1>3

LEMMA DeleteStep == ASSUME IInv, NEW c \in Clients, DeleteSubscription(c) PROVE IInv'
<1> DEFINE s == op[c].request.sub
<1>0. op[c].phase = "holding" /\ gate = None /\ s \in DOMAIN st.subs
  BY DEF DeleteSubscription, Reading, Known
<1>1. PICK stopped \in BOOLEAN : Committing(c, IF st.active = s /\ ~stopped THEN {} ELSE Deleted(st, s))
  BY DEF DeleteSubscription
<1> DEFINE candidates == IF st.active = s /\ ~stopped THEN {} ELSE Deleted(st, s)
<1>2. \A n \in candidates : Whole(n) /\ Justified(st, n, op[c].request)
  BY <1>0, Parts, DeleteCommitted
<1>3. Committing(c, candidates) BY <1>1
<1> HIDE DEF candidates
<1> QED BY <1>0, <1>2, <1>3, Commits DEF DeleteSubscription

LEMMA AnswerFacts ==
  ASSUME NEW body \in Bodies, NEW sent, NEW answer \in Answers(body, sent)
  PROVE  /\ answer.profile \in Intervals \cup {None}
         /\ answer.kind \in {"failed", "modified", "notModified"}
         /\ answer.kind = "modified" => Usable(answer)
         /\ answer.kind = "notModified" => answer.validators \in {sent, None}
<1>1. CASE answer = Failed BY <1>1 DEF Failed
<1>2. CASE answer = Modified(body, None, None) BY <1>2 DEF Modified, Usable
<1>3. CASE \E p \in Intervals : answer = Modified(body, body, p) BY <1>3 DEF Modified, Usable
<1>4. CASE \E p \in Intervals \cup {None} : answer \in NotModifieds(body, sent, p)
  BY <1>4 DEF NotModifieds, NotModified
<1> QED BY <1>1, <1>2, <1>3, <1>4 DEF Answers

LEMMA AnsweredFacts ==
  ASSUME NEW r, Complete(r), NEW base, Fetchable(r, base), NEW body \in Bodies,
         NEW answer \in Answers(body, Conditional(r, base)), NEW at \in 0..MaxClock
  PROVE  LET then == Answered(r, base, answer)
             o == Doing(then.phase, r, base, answer, at, None)
         IN /\ then.policy \in Policies /\ then.phase \in {"ready", "failing", "idle"}
            /\ r.kind = "import" => then.policy.interval = None /\ then.phase # "failing"
            /\ r.kind # "import" => then.phase # "idle"
            /\ then.phase = "ready" => Committable(o)
<1> DEFINE then == Answered(r, base, answer)
           o == Doing(then.phase, r, base, answer, at, None)
<1>0. /\ answer.profile \in Intervals \cup {None}
      /\ answer.kind = "modified" => Usable(answer)
      /\ answer.kind = "notModified" => answer.validators \in {Conditional(r, base), None}
  BY AnswerFacts
<1>1. o.phase = then.phase /\ o.request = r /\ o.base = base /\ o.answer = answer /\ o.at = at
  BY DoingFields
<1>2. CASE r.kind = "update"
  <2>1. then = UpdateAnswered(r, base, answer) BY <1>2 DEF Answered
  <2>2. /\ then.policy = base.policy /\ then.phase \in {"ready", "failing"}
        /\ then.phase = "ready" => \/ Parses(answer)
                                   \/ answer.kind = "notModified" /\ ~NothingCached(base)
    BY <2>1 DEF UpdateAnswered
  <2>3. then.policy \in Policies BY <1>2, <2>2 DEF Fetchable
  <2> HIDE DEF then, o
  <2>4. ASSUME then.phase = "ready" PROVE Usable(answer) \/ Confirms(base, answer)
    <3>1. CASE Parses(answer) BY <3>1, <1>0 DEF Parses
    <3>2. CASE answer.kind = "notModified" /\ ~NothingCached(base)
      BY <3>2, <1>0, <1>2 DEF Confirms, Conditional
    <3> QED BY <3>1, <3>2, <2>2, <2>4
  <2>5. then.phase = "ready" => Committable(o) BY <1>1, <1>2, <2>4 DEF Committable
  <2> QED BY <1>2, <2>2, <2>3, <2>5 DEF then, o
<1>3. CASE r.kind = "edit"
  <2>1. then = EditAnswered(r, base, answer) BY <1>3 DEF Answered
  <2> DEFINE sub == base.subs[r.sub]
             edited == Edited(sub, r).policy
  <2>2. /\ then.policy = IF answer.kind = "modified" THEN AdoptProfileInterval(edited, answer.profile)
                         ELSE sub.policy
        /\ then.phase \in {"ready", "failing"} /\ (then.phase = "ready" => Parses(answer))
    BY <2>1 DEF EditAnswered
  <2>3. edited \in Policies BY <1>3 DEF Edited, Fetchable, Complete
  <2> HIDE DEF edited
  <2>4. then.policy \in Policies
    <3>1. sub.policy \in Policies BY <1>3 DEF Fetchable
    <3>2. AdoptProfileInterval(edited, answer.profile) \in Policies BY <1>0, <2>3, AdoptedPolicy
    <3> QED BY <2>2, <3>1, <3>2
  <2> HIDE DEF then, o
  <2>5. then.phase = "ready" => Committable(o)
    BY <1>0, <1>1, <1>3, <2>2 DEF Committable, Parses, Fetchable
  <2> QED BY <1>3, <2>2, <2>4, <2>5 DEF then, o
<1>4. CASE r.kind = "import"
  <2>1. then = ImportAnswered(r, base, answer) BY <1>4 DEF Answered
  <2>2. /\ then.policy = ManualPolicy /\ then.phase \in {"ready", "idle"}
        /\ then.phase = "ready" => Parses(answer)
    BY <2>1 DEF ImportAnswered
  <2>3. then.policy \in Policies /\ then.policy.interval = None BY <2>2 DEF ManualPolicy, Policies
  <2> HIDE DEF then, o
  <2>4. then.phase = "ready" => Committable(o)
    BY <1>0, <1>1, <1>4, <2>2 DEF Committable, Parses
  <2> QED BY <1>4, <2>2, <2>3, <2>4 DEF then, o
<1> QED BY <1>2, <1>3, <1>4 DEF Fetchable

\* What is remembered of an attempt keeps the scheduler from the next one.
LEMMA AttemptSpaced ==
  ASSUME NEW c \in Clients, NEW s, NEW policy \in Policies, clock \in Nat, Spaced, PassKept,
         \A x : TakenUp(x)' => TakenUp(x), clock' = clock,
         c = "scheduler" => s \notin due' /\ op'["scheduler"].phase \notin {"admitted", "entered", "holding"},
         deadlines' = Remembered(s, policy), tried' = Attempted(c, s, policy.interval)
  PROVE  Spaced'
<1> DEFINE i == policy.interval
<1>0. /\ i \in Intervals \cup {None} /\ None \notin Intervals /\ Intervals \subseteq Nat
  BY BoundsAssumption, NamesAssumption DEF Policies
<1>1. i = None => deadlines' = deadlines BY DEF Remembered
<1>2. i # None => /\ s \in DOMAIN deadlines' /\ deadlines'[s] = clock + i
  BY DEF Remembered, With
<1>3. \A x \in DOMAIN deadlines : x # s => x \in DOMAIN deadlines' /\ deadlines'[x] = deadlines[x]
  BY DEF Remembered, With
<1> SUFFICES ASSUME NEW x \in DOMAIN tried'
             PROVE  /\ tried'[x].at \in 0..clock' /\ tried'[x].interval \in Intervals \cup {None}
                    /\ tried'[x].interval # None =>
                         /\ x \in DOMAIN deadlines' /\ deadlines'[x] >= tried'[x].at + tried'[x].interval
                         /\ TakenUp(x)' => clock' >= tried'[x].at + tried'[x].interval
  BY DEF Spaced
<1>4. CASE x # s
  <2>1. x \in DOMAIN tried /\ tried'[x] = tried[x] BY <1>4 DEF Attempted, With
  <2> QED BY <2>1, <1>3, <1>4 DEF Spaced
<1>5. CASE x = s /\ c = "scheduler"
  <2>1. tried'[s] = [at |-> clock, interval |-> i] BY <1>5 DEF Attempted, With
  <2>2. tried'[s].at = clock /\ tried'[s].interval = i BY <2>1
  <2>3. ~TakenUp(s)' BY <1>5 DEF TakenUp
  <2>4. i # None => i \in Nat BY <1>0
  <2> HIDE DEF i
  <2> QED BY <2>2, <2>3, <2>4, <1>0, <1>2, <1>5
<1>6. CASE x = s /\ c # "scheduler"
  <2>1. s \in DOMAIN tried BY <1>6 DEF Attempted, With
  <2>2. /\ tried[s].at \in 0..clock /\ tried[s].interval \in Intervals \cup {None}
        /\ tried[s].interval # None =>
             /\ s \in DOMAIN deadlines /\ deadlines[s] >= tried[s].at + tried[s].interval
             /\ TakenUp(s) => clock >= tried[s].at + tried[s].interval
    BY <2>1 DEF Spaced
  <2>3. CASE None \notin {i, tried[s].interval} /\ i < tried[s].interval
    <3>1. tried'[s] = [at |-> tried[s].at, interval |-> i] BY <1>6, <2>1, <2>3 DEF Attempted, With
    <3>2. tried'[s].at = tried[s].at /\ tried'[s].interval = i BY <3>1
    <3> HIDE DEF i
    <3>3. i \in Nat /\ tried[s].interval \in Nat BY <2>2, <2>3, <1>0
    <3>4. tried[s].at \in Nat BY <2>2
    <3> QED BY <3>2, <3>3, <3>4, <2>2, <2>3, <1>0, <1>2, <1>6
  <2>4. CASE ~(None \notin {i, tried[s].interval} /\ i < tried[s].interval)
    <3>1. tried' = tried BY <1>6, <2>4 DEF Attempted
    <3>2. CASE i = None BY <3>1, <3>2, <1>1, <1>6, <2>2
    <3>3. CASE tried[s].interval = None BY <3>1, <3>3, <1>6, <2>2
    <3>4. CASE i # None /\ tried[s].interval # None
      <4>1. i \in Nat /\ tried[s].interval \in Nat /\ tried[s].at \in Nat /\ tried[s].interval <= i
        BY <3>4, <2>2, <2>4, <1>0
      <4> HIDE DEF i
      <4> QED BY <4>1, <3>1, <3>4, <2>2, <1>2, <1>6
    <3> QED BY <3>2, <3>3, <3>4
  <2> QED BY <2>3, <2>4
<1> QED BY <1>4, <1>5, <1>6

LEMMA FetchEndsStep == ASSUME IInv, NEW c \in Clients, FetchEnds(c) PROVE IInv'
<1> DEFINE r == op[c].request
           base == op[c].base
           url == UrlOf(r, base)
<1>0. op[c].phase = "fetching" /\ gate' = gate BY DEF FetchEnds
<1>1. /\ Complete(r) /\ (c = "scheduler" => r.kind = "update") /\ Fetchable(r, base)
      /\ writing = TRUE /\ ~quiet
  BY <1>0, Knows DEF Owning, Phases
<1>2. /\ Control /\ World /\ Sound(st) /\ PassKept /\ Spaced /\ OthersSurvive
      /\ \A d \in Clients : Kept(d, op[d], st)
  BY Parts
<1>3. url \in Urls BY <1>1 DEF UrlOf, Fetchable, Complete
<1>4. server[url] \in Bodies /\ clock \in 0..MaxClock BY <1>2, <1>3 DEF World
<1>5. PICK answer \in Answers(server[url], Conditional(r, base)) :
        LET then == Answered(r, base, answer)
        IN /\ op' = [op EXCEPT ![c] = IF then.phase = "idle" THEN Idle
                                      ELSE Doing(then.phase, r, base, answer, clock, None)]
           /\ writing' = (then.phase # "idle")
           /\ deadlines' = IF r.kind = "import" THEN deadlines ELSE Remembered(r.sub, then.policy)
           /\ tried' = Attempted(c, r.sub, then.policy.interval)
  BY DEF FetchEnds
<1> DEFINE then == Answered(r, base, answer)
           body == server[url]
           full == Doing(then.phase, r, base, answer, clock, None)
           o == IF then.phase = "idle" THEN Idle ELSE full
<1>6. /\ then.policy \in Policies /\ then.phase \in {"ready", "failing", "idle"}
      /\ r.kind = "import" => then.policy.interval = None /\ then.phase # "failing"
      /\ r.kind # "import" => then.phase # "idle"
      /\ then.phase = "ready" => Committable(full)
  BY <1>1, <1>4, <1>5, AnsweredFacts
<1>7. /\ op' = [op EXCEPT ![c] = o] /\ writing' = (then.phase # "idle")
      /\ deadlines' = IF r.kind = "import" THEN deadlines ELSE Remembered(r.sub, then.policy)
      /\ tried' = Attempted(c, r.sub, then.policy.interval)
  BY <1>5
<1>8. full.phase = then.phase /\ full.request = r /\ full.at = clock BY DoingFields
<1> HIDE DEF then, full
<1>9. /\ o.phase = then.phase /\ (then.phase # "idle" => o.request = r) /\ Kept(c, o, st)
  <2>1. CASE then.phase = "idle"
    <3>1. o = Idle BY <2>1
    <3> QED BY <3>1, <2>1, IdleFields, IdleKept
  <2>2. CASE then.phase # "idle"
    <3>1. o = full BY <2>2
    <3>2. then.phase = "failing" => r.kind \in {"update", "edit"} BY <1>1, <1>6 DEF Fetchable
    <3>3. Kept(c, full, st) BY <1>1, <1>4, <1>6, <1>8, <2>2, <3>2 DEF Kept
    <3> QED BY <3>1, <3>3, <1>8, <2>2
  <2> QED BY <2>1, <2>2
<1> HIDE DEF o
<1>10. op'[c] = o /\ \A d \in Clients : d # c => op'[d] = op[d] BY <1>2, <1>7, OpStep DEF Control
<1>11. Control'
  <2>1. UNCHANGED <<closing, quiet, gate>> BY DEF FetchEnds
  <2> QED BY <1>0, <1>1, <1>2, <1>6, <1>7, <1>9, <2>1, ControlStep DEF Owning, Phases
<1>12. World'
  <2>1. UNCHANGED <<server, clock, pass, due>> BY DEF FetchEnds
  <2>2. r.kind # "import" => r.sub \in Subs BY <1>1 DEF Complete, Fetchable
  <2>3. then.policy.interval # None => clock + then.policy.interval \in Nat
    <3>1. clock \in Nat BY <1>4, BoundsAssumption
    <3>2. then.policy.interval \in Intervals \cup {None} BY <1>6 DEF Policies
    <3>3. then.policy.interval # None => then.policy.interval \in Nat BY <3>2, BoundsAssumption
    <3> QED BY <3>1, <3>3
  <2>4. DOMAIN deadlines' \subseteq Subs /\ \A x \in DOMAIN deadlines' : deadlines'[x] \in Nat
    BY <1>2, <1>7, <2>2, <2>3 DEF World, Remembered, With
  <2> QED BY <1>2, <2>1, <2>4 DEF World
<1>13. Sound(st)' /\ OthersSurvive' BY <1>2 DEF FetchEnds, OthersSurvive
<1>14. \A d \in Clients : Kept(d, op[d], st)'
  <2>1. st' = st BY DEF FetchEnds
  <2> QED BY <2>1, <1>2, <1>9, <1>10
<1>15. Proceeds(op'["scheduler"])
  <2>1. CASE c = "scheduler" BY <2>1, <1>0, <1>6, <1>9, <1>10 DEF Proceeds
  <2>2. CASE c # "scheduler"
    <3>1. op'["scheduler"] = op["scheduler"] BY <2>2, <1>10 DEF Clients
    <3> QED BY <3>1 DEF Proceeds
  <2> QED BY <2>1, <2>2
<1>16. PassKept' /\ \A x : TakenUp(x)' => TakenUp(x)
  <2>1. UNCHANGED <<pass, due>> BY DEF FetchEnds
  <2> QED BY <1>2, <1>15, <2>1 DEF PassKept, TakenUp, Proceeds
<1>17. Spaced'
  <2>0. clock' = clock /\ due' = due /\ clock \in Nat BY <1>4, BoundsAssumption DEF FetchEnds
  <2>1. CASE r.kind = "import"
    <3>1. c # "scheduler" /\ then.policy.interval = None BY <2>1, <1>1, <1>6
    <3>2. tried' = tried /\ deadlines' = deadlines BY <3>1, <2>1, <1>7 DEF Attempted
    <3> QED BY <3>2, <2>0, <1>2, <1>16 DEF Spaced
  <2>2. CASE r.kind # "import"
    <3>1. c = "scheduler" => r.sub \notin due' /\ op'["scheduler"].phase \notin {"admitted", "entered", "holding"}
      BY <1>0, <1>2, <1>6, <1>9, <1>10, <2>0 DEF PassKept
    <3>2. deadlines' = Remembered(r.sub, then.policy) /\ tried' = Attempted(c, r.sub, then.policy.interval)
      BY <2>2, <1>7
    <3> HIDE DEF r
    <3> QED BY <3>1, <3>2, <2>0, <1>2, <1>6, <1>16, AttemptSpaced
  <2> QED BY <2>1, <2>2
<1> QED BY <1>11, <1>12, <1>13, <1>14, <1>16, <1>17, PartsNext

LEMMA SaveStep == ASSUME IInv, NEW c \in Clients, Save(c) PROVE IInv'
<1>0. /\ op[c].phase = "saving" /\ st' = op[c].next /\ op' = [op EXCEPT ![c] = Idle]
      /\ writing' = FALSE /\ gate' = None
      /\ UNCHANGED <<server, clock, deadlines, closing, pass, due, quiet, tried, written>>
  BY DEF Save, Released
<1>1. /\ Control /\ World /\ PassKept /\ Spaced /\ OthersSurvive
      /\ \A d \in Clients : Kept(d, op[d], st)
  BY Parts
<1>2. Sound(op[c].next) /\ Justified(st, op[c].next, op[c].request) BY <1>0, Knows
<1>3. op'[c] = Idle /\ \A d \in Clients : d # c => op'[d] = op[d] BY <1>0, <1>1, OpStep DEF Control
<1>4. Idle.phase = "idle" BY IdleFields
<1>5. Control' BY <1>0, <1>1, <1>4, ControlStep DEF Owning, Phases
<1>6. World' BY <1>0, <1>1 DEF World
<1>7. Sound(st)' /\ OthersSurvive' BY <1>0, <1>1, <1>2 DEF OthersSurvive, Justified
<1>8. \A d \in Clients : Kept(d, op[d], st)'
  <2> SUFFICES ASSUME NEW d \in Clients PROVE Kept(d, op'[d], st') OBVIOUS
  <2>1. CASE d = c BY <2>1, <1>3, IdleKept
  <2>2. CASE d # c
    <3>1. op[d].phase # "saving" BY <2>2, <1>0, <1>1 DEF Control
    <3> QED BY <3>1, <2>2, <1>1, <1>3 DEF Kept
  <2> QED BY <2>1, <2>2
<1>9. Proceeds(op'["scheduler"])
  <2>1. CASE c = "scheduler" BY <2>1, <1>3, <1>4 DEF Proceeds
  <2>2. CASE c # "scheduler"
    <3>1. op'["scheduler"] = op["scheduler"] BY <2>2, <1>3 DEF Clients
    <3> QED BY <3>1 DEF Proceeds
  <2> QED BY <2>1, <2>2
<1>10. PassKept' /\ Spaced' BY <1>0, <1>1, <1>9, SchedulerStep
<1> QED BY <1>5, <1>6, <1>7, <1>8, <1>10, PartsNext

-----------------------------------------------------------------------------
(* The steps of the others *)

LEMMA AskStep == ASSUME IInv, NEW request \in Requests, Ask(request) PROVE IInv'
<1> DEFINE o == Asking("admitted", request)
<1>0. op["page"].phase = "idle" /\ op' = [op EXCEPT !["page"] = o] BY DEF Ask, Begin
<1>1. o.phase = "admitted" /\ o.request = request BY AskingFields
<1>2. Complete(request) /\ "page" \in Clients /\ writing \in BOOLEAN
  BY RequestsComplete DEF Clients, IInv, TypeOK
<1> HIDE DEF o
<1>3. Kept("page", o, st) BY <1>1, <1>2 DEF Kept
<1> QED BY <1>0, <1>1, <1>2, <1>3, ClientStep DEF Ask, Owning, Phases

LEMMA NextDueStep == ASSUME IInv, NextDue PROVE IInv'
<1>1. PICK s \in due : Begin("scheduler", Update(s, None)) /\ due' = due \ {s} BY DEF NextDue
<1> DEFINE r == Update(s, None)
           o == Asking("admitted", r)
<1>0. /\ op["scheduler"].phase = "idle" /\ op' = [op EXCEPT !["scheduler"] = o] /\ pass = "passing"
      /\ UNCHANGED <<st, server, clock, deadlines, closing, writing, gate, pass, quiet, tried, written>>
  BY <1>1 DEF Begin, NextDue
<1>2. /\ Control /\ World /\ Sound(st) /\ PassKept /\ Spaced /\ OthersSurvive
      /\ \A d \in Clients : Kept(d, op[d], st)
  BY Parts
<1>3. "scheduler" \in Clients /\ s \in Subs BY <1>2 DEF Clients, World
<1>4. r.kind = "update" /\ r.sub = s BY DEF Update, Request
<1>5. Complete(r)
  <2>1. ManualPolicy \in Policies BY DEF ManualPolicy, Policies
  <2> QED BY <1>3, <2>1 DEF Update, Request, Complete
<1> HIDE DEF r
<1>6. o.phase = "admitted" /\ o.request = r BY AskingFields
<1> HIDE DEF o
<1>7. op'["scheduler"] = o /\ \A d \in Clients : d # "scheduler" => op'[d] = op[d]
  BY <1>0, <1>2, <1>3, OpStep DEF Control
<1>8. Control'
  <2>1. writing \in BOOLEAN BY <1>2 DEF Control
  <2> QED BY <1>0, <1>2, <1>3, <1>6, <2>1, ControlStep DEF Owning, Phases
<1>9. World' BY <1>0, <1>1, <1>2 DEF World
<1>10. Sound(st)' /\ OthersSurvive' BY <1>0, <1>2 DEF OthersSurvive
<1>11. Kept("scheduler", o, st) BY <1>4, <1>5, <1>6 DEF Kept
<1>12. \A d \in Clients : Kept(d, op[d], st)' BY <1>0, <1>2, <1>7, <1>11
<1>13. PassKept' BY <1>0, <1>1, <1>4, <1>6, <1>7 DEF PassKept
<1>14. \A x : TakenUp(x)' => TakenUp(x) BY <1>1, <1>4, <1>6, <1>7 DEF TakenUp
<1>15. Spaced' BY <1>0, <1>2, <1>14 DEF Spaced
<1> QED BY <1>8, <1>9, <1>10, <1>12, <1>13, <1>15, PartsNext

\* What is due is past every deadline that is remembered.
LEMMA StartPassStep == ASSUME IInv, StartPass PROVE IInv'
<1>1. /\ Control /\ World /\ Sound(st) /\ PassKept /\ Spaced /\ OthersSurvive
      /\ \A d \in Clients : Kept(d, op[d], st)
  BY Parts
<1>2. /\ pass = "sleeping" /\ pass' = "passing" /\ due' = DueIds
      /\ UNCHANGED <<st, server, clock, deadlines, closing, writing, gate, op, quiet, tried, written>>
  BY DEF StartPass
<1>3. op["scheduler"].phase = "idle" BY <1>1, <1>2 DEF PassKept
<1>4. DueIds \subseteq Subs BY <1>1 DEF DueIds, Sound, Typed
<1>5. Control' BY <1>1, <1>2 DEF Control, QuietAfterShutdown
<1>6. World' BY <1>1, <1>2, <1>4 DEF World
<1>7. Sound(st)' /\ OthersSurvive' /\ \A d \in Clients : Kept(d, op[d], st)'
  BY <1>1, <1>2 DEF OthersSurvive
<1>8. PassKept' BY <1>2, <1>3 DEF PassKept
<1>9. Spaced'
  <2> SUFFICES ASSUME NEW s \in DOMAIN tried
               PROVE  /\ tried[s].at \in 0..clock /\ tried[s].interval \in Intervals \cup {None}
                      /\ tried[s].interval # None =>
                           /\ s \in DOMAIN deadlines /\ deadlines[s] >= tried[s].at + tried[s].interval
                           /\ TakenUp(s)' => clock >= tried[s].at + tried[s].interval
    BY <1>2 DEF Spaced
  <2>1. /\ tried[s].at \in 0..clock /\ tried[s].interval \in Intervals \cup {None}
        /\ tried[s].interval # None =>
             s \in DOMAIN deadlines /\ deadlines[s] >= tried[s].at + tried[s].interval
    BY <1>1 DEF Spaced
  <2>2. TakenUp(s)' /\ s \in DOMAIN deadlines => clock >= deadlines[s]
    BY <1>2, <1>3 DEF TakenUp, DueIds, Due
  <2>3. ASSUME tried[s].interval # None, TakenUp(s)' PROVE clock >= tried[s].at + tried[s].interval
    <3>1. clock \in Nat /\ deadlines[s] \in Nat /\ tried[s].at \in Nat /\ tried[s].interval \in Nat
      <4>1. clock \in Nat BY <1>1, BoundsAssumption DEF World
      <4>2. deadlines[s] \in Nat BY <1>1, <2>1, <2>3 DEF World
      <4>3. tried[s].interval \in Nat BY <2>1, <2>3, BoundsAssumption
      <4> QED BY <2>1, <4>1, <4>2, <4>3
    <3> QED BY <3>1, <2>1, <2>2, <2>3
  <2> QED BY <2>1, <2>3
<1> QED BY <1>5, <1>6, <1>7, <1>8, <1>9, PartsNext

LEMMA EndPassStep == ASSUME IInv, EndPass PROVE IInv'
<1>1. /\ Control /\ World /\ Sound(st) /\ PassKept /\ Spaced /\ OthersSurvive
      /\ \A d \in Clients : Kept(d, op[d], st)
  BY Parts
<1>2. /\ due = {} /\ op["scheduler"].phase = "idle" /\ pass' = "sleeping"
      /\ UNCHANGED <<st, server, clock, deadlines, closing, writing, gate, op, due, quiet, tried, written>>
  BY DEF EndPass
<1>3. Control' BY <1>1, <1>2 DEF Control, QuietAfterShutdown
<1>4. World' BY <1>1, <1>2 DEF World
<1>5. Sound(st)' /\ OthersSurvive' /\ \A d \in Clients : Kept(d, op[d], st)'
  BY <1>1, <1>2 DEF OthersSurvive
<1>6. PassKept' BY <1>2 DEF PassKept
<1>7. Spaced' BY <1>1, <1>2 DEF Spaced, TakenUp
<1> QED BY <1>3, <1>4, <1>5, <1>6, <1>7, PartsNext

LEMMA StopStep == ASSUME IInv, Stop PROVE IInv'
<1>1. /\ Control /\ World /\ Sound(st) /\ PassKept /\ Spaced /\ OthersSurvive
      /\ \A d \in Clients : Kept(d, op[d], st)
  BY Parts
<1>2. /\ op["scheduler"].phase \in {"idle", "fetching"} /\ op' = [op EXCEPT !["scheduler"] = Idle]
      /\ pass' = "done" /\ due' = {} /\ writing' = (writing /\ op["scheduler"].phase = "idle")
      /\ UNCHANGED <<st, server, clock, deadlines, closing, gate, quiet, tried, written>>
  BY DEF Stop
<1>3. "scheduler" \in Clients /\ Idle.phase = "idle" /\ writing \in BOOLEAN
  BY <1>1, IdleFields DEF Clients, Control
<1>4. op'["scheduler"] = Idle /\ \A d \in Clients : d # "scheduler" => op'[d] = op[d]
  BY <1>1, <1>2, <1>3, OpStep DEF Control
<1>5. Control' BY <1>1, <1>2, <1>3, ControlStep DEF Owning, Phases
<1>6. World' BY <1>1, <1>2 DEF World
<1>7. Sound(st)' /\ OthersSurvive' BY <1>1, <1>2 DEF OthersSurvive
<1>8. \A d \in Clients : Kept(d, op[d], st)' BY <1>1, <1>2, <1>4, IdleKept
<1>9. PassKept' /\ \A x : ~TakenUp(x)' BY <1>2, <1>3, <1>4 DEF PassKept, TakenUp
<1>10. Spaced' BY <1>1, <1>2, <1>9 DEF Spaced
<1> QED BY <1>5, <1>6, <1>7, <1>8, <1>9, <1>10, PartsNext

\* RequestStop, ShutDown and Serve change one flag or what a server holds.
LEMMA FlagStep ==
  ASSUME IInv, Control', server' \in [Urls -> Bodies],
         UNCHANGED <<st, clock, deadlines, op, pass, due, tried, written>>
  PROVE  IInv'
<1>1. /\ World /\ Sound(st) /\ PassKept /\ Spaced /\ OthersSurvive
      /\ \A d \in Clients : Kept(d, op[d], st)
  BY Parts
<1>2. World' BY <1>1 DEF World
<1>3. Sound(st)' /\ OthersSurvive' /\ \A d \in Clients : Kept(d, op[d], st)'
  BY <1>1 DEF OthersSurvive
<1>4. PassKept' /\ Spaced' BY <1>1 DEF PassKept, Spaced, TakenUp
<1> QED BY <1>2, <1>3, <1>4, PartsNext

LEMMA RequestStopStep == ASSUME IInv, RequestStop PROVE IInv'
<1>1. Control /\ World BY Parts
<1>2. Control' BY <1>1 DEF RequestStop, Control, QuietAfterShutdown
<1> QED BY <1>1, <1>2, FlagStep DEF RequestStop, World

LEMMA ShutDownStep == ASSUME IInv, ShutDown PROVE IInv'
<1>1. Control /\ World BY Parts
<1>2. /\ closing /\ ~writing /\ quiet' = TRUE
      /\ UNCHANGED <<closing, writing, gate, op>>
  BY DEF ShutDown, Quiescent
<1>3. \A c \in Clients : op[c].phase \in {"idle", "admitted", "entered"}
  BY <1>1, <1>2 DEF Control, Owning, Phases
<1>4. QuietAfterShutdown' BY <1>2, <1>3 DEF QuietAfterShutdown
<1>5. Control' BY <1>1, <1>2, <1>4 DEF Control
<1> QED BY <1>1, <1>5, FlagStep DEF ShutDown, World

LEMMA ServeStep == ASSUME IInv, Serve PROVE IInv'
<1>1. Control /\ World BY Parts
<1>2. Control' BY <1>1 DEF Serve, Control, QuietAfterShutdown
<1>3. server' \in [Urls -> Bodies] BY <1>1 DEF Serve, World
<1> QED BY <1>2, <1>3, FlagStep DEF Serve

LEMMA TickStep == ASSUME IInv, Tick PROVE IInv'
<1>1. /\ Control /\ World /\ Sound(st) /\ PassKept /\ Spaced /\ OthersSurvive
      /\ \A d \in Clients : Kept(d, op[d], st)
  BY Parts
<1>2. /\ clock < MaxClock /\ clock' = clock + 1 /\ clock \in Nat /\ MaxClock \in Nat
      /\ UNCHANGED <<st, server, deadlines, closing, writing, gate, op, pass, due, quiet, tried, written>>
  BY <1>1, BoundsAssumption DEF Tick, World
<1>3. Control' BY <1>1, <1>2 DEF Control, QuietAfterShutdown
<1>4. World' BY <1>1, <1>2 DEF World
<1>5. Sound(st)' /\ OthersSurvive' /\ \A d \in Clients : Kept(d, op[d], st)'
  BY <1>1, <1>2 DEF OthersSurvive
<1>6. PassKept' /\ \A x : TakenUp(x)' => TakenUp(x) BY <1>1, <1>2 DEF PassKept, TakenUp
<1>7. Spaced'
  <2> SUFFICES ASSUME NEW s \in DOMAIN tried
               PROVE  /\ tried[s].at \in 0..clock' /\ tried[s].interval \in Intervals \cup {None}
                      /\ tried[s].interval # None =>
                           /\ s \in DOMAIN deadlines /\ deadlines[s] >= tried[s].at + tried[s].interval
                           /\ TakenUp(s) => clock' >= tried[s].at + tried[s].interval
    BY <1>2, <1>6 DEF Spaced
  <2>1. tried[s].interval # None => tried[s].interval \in Nat BY <1>1, BoundsAssumption DEF Spaced
  <2> QED BY <2>1, <1>1, <1>2 DEF Spaced
<1> QED BY <1>3, <1>4, <1>5, <1>6, <1>7, PartsNext

LEMMA RestartStep == ASSUME IInv, Restart PROVE IInv'
<1>1. World /\ Sound(st) /\ OthersSurvive BY Parts
<1>2. /\ deadlines' = NoFn /\ closing' = FALSE /\ writing' = FALSE /\ gate' = None
      /\ op' = [c \in Clients |-> Idle] /\ pass' = "sleeping" /\ due' = {} /\ quiet' = FALSE
      /\ tried' = NoFn /\ UNCHANGED <<st, server, clock, written>>
  BY DEF Restart
<1>3. Idle.phase = "idle" /\ None \notin Clients BY IdleFields, NamesAssumption DEF Clients
<1>4. \A c \in Clients : op'[c] = Idle BY <1>2
<1>5. op' = [c \in Clients |-> op'[c]] BY <1>2
<1>6. Control' BY <1>2, <1>3, <1>4, <1>5 DEF Control, QuietAfterShutdown, Owning, Phases
<1>7. DOMAIN NoFn = {} BY DEF NoFn
<1>8. World' BY <1>1, <1>2, <1>7 DEF World
<1>9. Sound(st)' /\ OthersSurvive' BY <1>1, <1>2 DEF OthersSurvive
<1>10. \A d \in Clients : Kept(d, op[d], st)' BY <1>4, IdleKept
<1>11. PassKept' BY <1>2, <1>3, <1>4 DEF PassKept, Clients
<1>12. Spaced' BY <1>2, <1>7 DEF Spaced
<1> QED BY <1>6, <1>8, <1>9, <1>10, <1>11, <1>12, PartsNext

\* Another selection or another target is valid if it is there.
LEMMA ValidBut ==
  ASSUME NEW s, Valid(s), NEW t, SameBut(s, t, {"target", "active"}),
         TargetValid(t.target, DOMAIN t.pools), t.active \in DOMAIN t.subs \cup {None}
  PROVE  Valid(t)
<1>1. /\ t.gen = s.gen /\ t.subs = s.subs /\ t.providers = s.providers /\ t.nodes = s.nodes
      /\ t.pools = s.pools /\ t.routes = s.routes
  BY SameFields
<1>2. \A sources : MembersFrom(t, sources) = MembersFrom(s, sources) BY <1>1 DEF MembersFrom
<1>3. \A pool : PoolValid(s, pool) => PoolValid(t, pool) BY <1>1, <1>2 DEF PoolValid, Members
<1>4. RoutesValid(t) BY <1>1 DEF Valid, RoutesValid
<1> QED BY <1>1, <1>3, <1>4 DEF Valid

LEMMA SoundBut ==
  ASSUME NEW s, Sound(s), NEW t, SameBut(s, t, {"target", "active"}),
         TargetValid(t.target, DOMAIN t.pools), t.active \in DOMAIN t.subs \cup {None}
  PROVE  Sound(t)
<1>1. /\ DOMAIN t = Fields /\ t.gen = s.gen /\ t.subs = s.subs /\ t.providers = s.providers
      /\ t.nodes = s.nodes /\ t.pools = s.pools
  BY SameFields
<1>2. Valid(t) BY ValidBut DEF Sound
<1>3. WellFormed(t) BY <1>1 DEF Sound, WellFormed
<1>4. Typed(t) BY <1>1 DEF Sound, Typed
<1>5. Honest(t) BY <1>1 DEF Sound, Honest, NodesOf
<1> QED BY <1>2, <1>3, <1>4, <1>5 DEF Sound

LEMMA OtherWritesStep == ASSUME IInv, OtherWrites PROVE IInv'
<1>1. /\ Control /\ World /\ Sound(st) /\ PassKept /\ Spaced
      /\ \A d \in Clients : Kept(d, op[d], st)
  BY Parts
<1>2. PICK t \in {Follow, Direct} : st' = [st EXCEPT !.target = t] /\ written' = t BY DEF OtherWrites
<1>3. /\ gate = None
      /\ UNCHANGED <<server, clock, deadlines, closing, writing, gate, op, pass, due, quiet, tried>>
  BY DEF OtherWrites
<1>4. DOMAIN st = Fields /\ st.active \in DOMAIN st.subs \cup {None} BY <1>1 DEF Sound, WellFormed, Valid
<1>5. SameBut(st, st', {"target"}) /\ st'.target = t BY <1>2, <1>4, SetTarget
<1>6. Sound(st')
  <2>1. SameBut(st, st', {"target", "active"}) BY <1>5 DEF SameBut
  <2>2. st'.active = st.active /\ st'.subs = st.subs BY <1>5, SameFields
  <2>3. TargetValid(st'.target, DOMAIN st'.pools) BY <1>5 DEF TargetValid
  <2> QED BY <1>1, <1>4, <2>1, <2>2, <2>3, SoundBut
<1>7. Control' BY <1>1, <1>3 DEF Control, QuietAfterShutdown
<1>8. World' BY <1>1, <1>3 DEF World
<1>9. \A d \in Clients : Kept(d, op[d], st)'
  <2> SUFFICES ASSUME NEW d \in Clients PROVE Kept(d, op[d], st') BY <1>3
  <2>1. op[d].phase # "saving" BY <1>1, <1>3, NamesAssumption DEF Control, Clients
  <2> QED BY <2>1, <1>1 DEF Kept
<1>10. PassKept' /\ Spaced' BY <1>1, <1>3 DEF PassKept, Spaced, TakenUp
<1>11. OthersSurvive' BY <1>2, <1>5 DEF OthersSurvive
<1> QED BY <1>6, <1>7, <1>8, <1>9, <1>10, <1>11, PartsNext

-----------------------------------------------------------------------------
(* The invariant *)

LEMMA EmptyWhole ==
  /\ WellFormed(Empty) /\ Empty.active = None /\ Empty.target = Follow
  /\ Typed(Empty) /\ Honest(Empty)
<1>1. DOMAIN NoFn = {} BY DEF NoFn
<1> HIDE DEF NoFn
<1>2. Empty.subs = NoFn /\ Empty.target = Follow BY DEF Empty
<1> QED BY <1>1, <1>2, EmptyFacts DEF Typed, Honest

\* The subscription of the start is a sound state.
LEMMA FirstSound ==
  ASSUME NEW url \in Urls \cup {None}, NEW policy \in Policies, NEW body \in Bodies,
         NEW i \in Imported(Empty, First, Sub(url, policy, body, body, 0), Drafts(body.conn)),
         NEW t, t = [i EXCEPT !.active = First]
  PROVE  Sound(t) /\ t.target = Follow
<1> DEFINE v == Sub(url, policy, body, body, 0)
<1>0. First \in Subs /\ 0 \in 0..MaxClock BY BoundsAssumption
<1>1. \A nodes : ConnsOf(nodes) = {body.conn} => SubType(v) /\ Names(v, nodes)
  BY <1>0, NewSubFacts
<1>2. SubType(v)
  <2>1. ConnsOf(Normalized(First, Drafts(body.conn))) = {body.conn} BY DraftNodes
  <2> HIDE DEF v
  <2> QED BY <2>1, <1>1
<1>3. i \in Imported(Empty, First, v, Drafts(body.conn)) OBVIOUS
<1> HIDE DEF v
<1>4. Whole(i) /\ Justified(Empty, i, None)
  <2>1. \A nodes : ConnsOf(nodes) = {body.conn} => Names(v, nodes) BY <1>1
  <2>2. /\ WellFormed(Empty) /\ Typed(Empty) /\ Honest(Empty)
        /\ Empty.active \in DOMAIN Empty.subs \cup {None}
    BY EmptyWhole
  <2> HIDE DEF Empty
  <2> QED BY <1>0, <1>2, <1>3, <2>1, <2>2, Added
<1>5. Valid(i) /\ i.subs = With(Empty.subs, First, v) /\ i.target = Follow
  BY <1>3, EmptyWhole, ImportedFacts
<1>6. DOMAIN i = Fields /\ First \in DOMAIN i.subs BY <1>4, <1>5 DEF Whole, WellFormed, With
<1>7. SameBut(i, t, {"active"}) /\ t.active = First BY <1>6, SetActive
<1>8. t.subs = i.subs /\ t.target = i.target /\ t.pools = i.pools BY <1>7, SameFields
<1>9. SameBut(i, t, {"target", "active"}) BY <1>7 DEF SameBut
<1>10. Sound(i) /\ TargetValid(t.target, DOMAIN t.pools)
  BY <1>4, <1>5, <1>8 DEF Sound, Whole, TargetValid
<1> QED BY <1>5, <1>6, <1>7, <1>8, <1>9, <1>10, SoundBut

LEMMA InitHolds == Init => IInv
<1> SUFFICES ASSUME Init PROVE IInv OBVIOUS
<1> DEFINE remote == {CHOOSE u \in Urls : TRUE} \X {p \in Policies : p.auto /\ p.interval # None}
           Start(body, source) ==
             /\ st \in {[i EXCEPT !.active = First] :
                          i \in Imported(Empty, First, Sub(source[1], source[2], body, body, 0), Drafts(body.conn))}
             /\ server = [u \in Urls |-> body]
<1>1. PICK body \in Bodies : \E source \in remote \cup {<<None, ManualPolicy>>} : Start(body, source)
  BY DEF Init
<1>2. PICK source \in remote \cup {<<None, ManualPolicy>>} : Start(body, source) BY <1>1
<1>3. source[1] \in Urls \cup {None} /\ source[2] \in Policies
  <2>1. (CHOOSE u \in Urls : TRUE) \in Urls BY BoundsAssumption
  <2>2. ManualPolicy \in Policies BY DEF ManualPolicy, Policies
  <2> DEFINE url == CHOOSE u \in Urls : TRUE
  <2> HIDE DEF url
  <2>3. CASE source \in {url} \X {p \in Policies : p.auto /\ p.interval # None}
    BY <2>1, <2>3 DEF url
  <2>4. CASE source = <<None, ManualPolicy>> BY <2>2, <2>4
  <2> QED BY <1>2, <2>3, <2>4 DEF url
<1>4. PICK i \in Imported(Empty, First, Sub(source[1], source[2], body, body, 0), Drafts(body.conn)) :
        st = [i EXCEPT !.active = First]
  BY <1>2
<1>5. Sound(st) /\ st.target = Follow BY <1>3, <1>4, FirstSound
<1>6. /\ server \in [Urls -> Bodies] BY <1>2
<1> HIDE DEF remote, Start
<1>7. /\ clock = 0 /\ deadlines = NoFn /\ closing = FALSE /\ writing = FALSE /\ gate = None
      /\ op = [c \in Clients |-> Idle] /\ pass = "sleeping" /\ due = {} /\ quiet = FALSE
      /\ tried = NoFn /\ written = Follow
  BY DEF Init
<1>8. Idle.phase = "idle" /\ None \notin Clients BY IdleFields, NamesAssumption DEF Clients
<1>9. (\A c \in Clients : op[c] = Idle) /\ op = [c \in Clients |-> op[c]] BY <1>7
<1>10. Control BY <1>7, <1>8, <1>9 DEF Control, QuietAfterShutdown, Owning, Phases
<1>11. DOMAIN NoFn = {} BY DEF NoFn
<1>12. World BY <1>6, <1>7, <1>11, BoundsAssumption DEF World
<1>13. \A c \in Clients : Kept(c, op[c], st) BY <1>9, IdleKept
<1>14. PassKept BY <1>7, <1>8, <1>9 DEF PassKept, Clients
<1>15. Spaced BY <1>7, <1>11 DEF Spaced
<1>16. OthersSurvive BY <1>5, <1>7 DEF OthersSurvive
<1> QED BY <1>5, <1>10, <1>12, <1>13, <1>14, <1>15, <1>16, Parts

LEMMA StutterStep == ASSUME IInv, UNCHANGED vars PROVE IInv'
<1>1. /\ Control /\ World /\ Sound(st) /\ PassKept /\ Spaced /\ OthersSurvive
      /\ \A d \in Clients : Kept(d, op[d], st)
  BY Parts
<1>2. UNCHANGED <<st, server, clock, deadlines, closing, writing, gate, op, pass, due, quiet, tried, written>>
  BY DEF vars
<1>3. Control' BY <1>1, <1>2 DEF Control, QuietAfterShutdown
<1>4. server' \in [Urls -> Bodies] BY <1>1, <1>2 DEF World
<1> QED BY <1>2, <1>3, <1>4, FlagStep

LEMMA NextKeeps == ASSUME IInv, [Next]_vars PROVE IInv'
<1>1. ASSUME NEW c \in Clients, Step(c) PROVE IInv'
  BY <1>1, EnterStep, RecheckStep, GateBusyStep, StartFetchStep, StartLocalStep, RefuseStep,
     FetchEndsStep, CancelledStep, PrepareStep, AbandonStep, DeleteStep, CommitStep, FailedStep,
     SaveStep, SaveFailsStep
  DEF Step
<1>2. ASSUME NEW request \in Requests, Ask(request) PROVE IInv' BY <1>2, AskStep
<1>3. CASE StartPass \/ NextDue \/ EndPass \/ Stop
  BY <1>3, StartPassStep, NextDueStep, EndPassStep, StopStep
<1>4. CASE RequestStop \/ ShutDown \/ Restart BY <1>4, RequestStopStep, ShutDownStep, RestartStep
<1>5. CASE OtherWrites \/ Serve \/ Tick BY <1>5, OtherWritesStep, ServeStep, TickStep
<1>6. CASE UNCHANGED vars BY <1>6, StutterStep
<1> QED BY <1>1, <1>2, <1>3, <1>4, <1>5, <1>6 DEF Next

\* Every state the manager, the scheduler and the other writers reach satisfies the
\* invariant: what is saved is sound and justified by what it was compared with, and
\* what the scheduler has taken up is over its interval.
THEOREM Invariance == Spec => []IInv
BY InitHolds, NextKeeps, PTL DEF Spec

\* The write flag is up exactly while one client owns it, the gate is held exactly over
\* a save, what is stored is valid, and after a shutdown nobody owns either.
THEOREM ConsistentHolds == Spec => []Consistent
<1>1. IInv => Consistent BY DEF IInv, Consistent
<1> QED BY <1>1, Invariance, PTL

\* The stored validators are those of the stored content, whatever was fetched, edited
\* or overridden in between: a 304 never keeps content the server did not mean.
THEOREM ValidatorsNameContentHolds == Spec => []ValidatorsNameContent
<1>1. IInv => ValidatorsNameContent BY DEF IInv, ValidatorsNameContent, Sound
<1> QED BY <1>1, Invariance, PTL

\* No commit of the manager undoes what another writer of state.json saved.
THEOREM OthersSurviveHolds == Spec => []OthersSurvive
<1>1. IInv => OthersSurvive BY DEF IInv
<1> QED BY <1>1, Invariance, PTL

-----------------------------------------------------------------------------
(* What a step may never do *)

\* Only a commit of a client and the other writers change what is stored.
LEMMA WhoSaves ==
  ASSUME [Next]_vars
  PROVE  \/ UNCHANGED st
         \/ \E c \in Clients : Save(c)
         \/ OtherWrites
<1>1. ASSUME NEW c \in Clients, Step(c) PROVE UNCHANGED st \/ Save(c)
  <2>1. CASE Enter(c) \/ Recheck(c) \/ GateBusy(c) BY <2>1 DEF Enter, Recheck, GateBusy
  <2>2. CASE StartFetch(c) \/ StartLocal(c) \/ Refuse(c) BY <2>2 DEF StartFetch, StartLocal, Refuse
  <2>3. CASE FetchEnds(c) \/ FetchCancelled(c) BY <2>3 DEF FetchEnds, FetchCancelled
  <2>4. CASE PrepareDocument(c) \/ AbandonDocument(c) \/ DeleteSubscription(c)
    BY <2>4 DEF PrepareDocument, AbandonDocument, DeleteSubscription
  <2>5. CASE Commit(c) \/ RecordFailedAttempt(c) \/ SaveFails(c)
    BY <2>5 DEF Commit, RecordFailedAttempt, SaveFails
  <2> QED BY <1>1, <2>1, <2>2, <2>3, <2>4, <2>5 DEF Step
<1>2. ASSUME NEW request \in Requests, Ask(request) PROVE UNCHANGED st BY <1>2 DEF Ask
<1>3. CASE StartPass \/ NextDue \/ EndPass \/ Stop BY <1>3 DEF StartPass, NextDue, EndPass, Stop
<1>4. CASE RequestStop \/ ShutDown \/ Restart BY <1>4 DEF RequestStop, ShutDown, Restart
<1>5. CASE Serve \/ Tick BY <1>5 DEF Serve, Tick
<1>6. CASE UNCHANGED vars BY <1>6 DEF vars
<1> QED BY <1>1, <1>2, <1>3, <1>4, <1>5, <1>6 DEF Next

\* What CommitsAreJustified says of one step.
JustifiedStep ==
  /\ (st'.active = st.active /\ st.active # None /\ OwnNodes(st)' # OwnNodes(st)) => st'.gen > st.gen
  /\ \A s \in DOMAIN st.subs \cap DOMAIN st'.subs :
       (st'.subs[s].doc # None /\ st'.subs[s].doc.override /\ st'.subs[s].doc # st.subs[s].doc)
         => st.subs[s].doc # None /\ op["page"].request.expected = st.subs[s].doc.text

LEMMA StepIsJustified == ASSUME IInv, [Next]_vars PROVE JustifiedStep
<1>1. CASE UNCHANGED st BY <1>1 DEF JustifiedStep
<1>2. ASSUME NEW c \in Clients, Save(c) PROVE JustifiedStep
  <2>1. op[c].phase = "saving" /\ st' = op[c].next BY <1>2 DEF Save
  <2>2. /\ Justified(st, op[c].next, op[c].request)
        /\ op[c].request.kind = "document" => c = "page"
    BY <2>1, Knows DEF Clients
  <2> QED BY <2>1, <2>2 DEF JustifiedStep, Justified, Overrides
<1>3. CASE OtherWrites
  <2>1. PICK t \in {Follow, Direct} : st' = [st EXCEPT !.target = t] BY <1>3 DEF OtherWrites
  <2>2. DOMAIN st = Fields BY DEF IInv, Sound, WellFormed
  <2>3. SameBut(st, st', {"target"}) BY <2>1, <2>2, SetTarget
  <2>4. /\ st'.subs = st.subs /\ st'.nodes = st.nodes /\ st'.providers = st.providers
        /\ st'.active = st.active
    BY <2>3, SameFields
  <2>5. OwnNodes(st') = OwnNodes(st) BY <2>4 DEF OwnNodes, OwnProviders, ProvidersOf
  <2> QED BY <2>4, <2>5 DEF JustifiedStep
<1> QED BY <1>1, <1>2, <1>3, WhoSaves

\* No commit changes the nodes of the selected subscription under an old generation, and
\* none overrides a document the page has not read.
THEOREM CommitsAreJustifiedHolds == Spec => CommitsAreJustified
<1>1. IInv /\ [Next]_vars =>
        [(st'.active = st.active /\ st.active # None /\ OwnNodes(st)' # OwnNodes(st)) => st'.gen > st.gen]_vars
  BY StepIsJustified DEF JustifiedStep
<1>2. IInv /\ [Next]_vars =>
        [\A s \in DOMAIN st.subs \cap DOMAIN st'.subs :
           (st'.subs[s].doc # None /\ st'.subs[s].doc.override /\ st'.subs[s].doc # st.subs[s].doc)
             => st.subs[s].doc # None /\ op["page"].request.expected = st.subs[s].doc.text]_vars
  BY StepIsJustified DEF JustifiedStep
<1>3. Spec => GenerationFollowsNodes BY <1>1, Invariance, PTL DEF Spec, GenerationFollowsNodes
<1>4. Spec => DocumentsAreRead BY <1>2, Invariance, PTL DEF Spec, DocumentsAreRead
<1> QED BY <1>3, <1>4 DEF CommitsAreJustified

\* The scheduler begins a fetch.
Begins == op["scheduler"].phase # "fetching" /\ op'["scheduler"].phase = "fetching"

LEMMA NoFetch ==
  ASSUME IInv, NEW c \in Clients, NEW o, op' = [op EXCEPT ![c] = o],
         c = "scheduler" => o.phase # "fetching"
  PROVE  ~Begins
<1>1. op'[c] = o /\ \A d \in Clients : d # c => op'[d] = op[d] BY OpStep DEF IInv
<1> QED BY <1>1 DEF Begins, Clients

LEMMA NoFetchReleased == ASSUME IInv, NEW c \in Clients, Released(c) PROVE ~Begins
BY IdleFields, NoFetch DEF Released

LEMMA NoFetchCommitting ==
  ASSUME IInv, NEW c \in Clients, NEW candidates, Committing(c, candidates)
  PROVE  ~Begins
<1>1. CASE Released(c) BY <1>1, NoFetchReleased
<1>2. CASE ~Released(c)
  <2>1. PICK next : op' = [op EXCEPT ![c] = Doing("saving", op[c].request, op[c].base, op[c].answer, op[c].at, next)]
    BY <1>2 DEF Committing
  <2> DEFINE o == Doing("saving", op[c].request, op[c].base, op[c].answer, op[c].at, next)
  <2>2. o.phase = "saving" BY DoingFields
  <2>3. op' = [op EXCEPT ![c] = o] BY <2>1
  <2> HIDE DEF o
  <2> QED BY <2>2, <2>3, NoFetch
<1> QED BY <1>1, <1>2

\* It does so only with what it has taken up.
LEMMA BeginsTakenUp ==
  ASSUME IInv, [Next]_vars, Begins
  PROVE  TakenUp(op'["scheduler"].request.sub)
<1>1. ASSUME NEW c \in Clients, Step(c) PROVE TakenUp(op'["scheduler"].request.sub)
  <2>1. CASE Enter(c)
    <3> DEFINE o == IF writing THEN Idle ELSE Asking("entered", op[c].request)
    <3>1. op' = [op EXCEPT ![c] = o] BY <2>1 DEF Enter
    <3>2. o.phase # "fetching" BY IdleFields, AskingFields
    <3> HIDE DEF o
    <3> QED BY <3>1, <3>2, NoFetch
  <2>2. CASE Recheck(c)
    <3> DEFINE o == IF closing THEN Idle ELSE Asking("holding", op[c].request)
    <3>1. op' = [op EXCEPT ![c] = o] BY <2>2 DEF Recheck
    <3>2. o.phase # "fetching" BY IdleFields, AskingFields
    <3> HIDE DEF o
    <3> QED BY <3>1, <3>2, NoFetch
  <2>3. CASE GateBusy(c) \/ Refuse(c) \/ FetchCancelled(c) \/ AbandonDocument(c) \/ SaveFails(c) \/ Save(c)
    BY <2>3, NoFetchReleased DEF GateBusy, Refuse, FetchCancelled, AbandonDocument, SaveFails, Save
  <2>4. CASE StartFetch(c)
    <3> DEFINE o == Doing("fetching", op[c].request, BaseOf(op[c].request), None, 0, None)
    <3>1. op[c].phase = "holding" /\ op' = [op EXCEPT ![c] = o] BY <2>4 DEF StartFetch, Reading
    <3>2. o.request = op[c].request BY DoingFields
    <3> HIDE DEF o
    <3>3. c = "scheduler" BY <3>1, NoFetch
    <3>4. op'["scheduler"] = o BY <3>1, <3>3, OpStep DEF IInv, Clients
    <3> QED BY <3>1, <3>2, <3>3, <3>4 DEF TakenUp
  <2>5. CASE StartLocal(c)
    <3>1. PICK base, answer : op' = [op EXCEPT ![c] = Doing("ready", op[c].request, base, answer, clock, None)]
      BY <2>5 DEF StartLocal
    <3> DEFINE o == Doing("ready", op[c].request, base, answer, clock, None)
    <3>2. o.phase = "ready" BY DoingFields
    <3>3. op' = [op EXCEPT ![c] = o] BY <3>1
    <3> HIDE DEF o
    <3> QED BY <3>2, <3>3, NoFetch
  <2>6. CASE FetchEnds(c)
    <3>1. c # "scheduler" BY <2>6 DEF FetchEnds, Begins
    <3>2. \E o : op' = [op EXCEPT ![c] = o] BY <2>6 DEF FetchEnds
    <3> QED BY <3>1, <3>2, NoFetch
  <2>7. CASE PrepareDocument(c)
    <3>1. CASE Released(c) BY <3>1, NoFetchReleased
    <3>2. CASE ~Released(c)
      <4>1. PICK next : op' = [op EXCEPT ![c] = Doing("ready", op[c].request, st, None, 0, next)]
        BY <2>7, <3>2 DEF PrepareDocument
      <4> DEFINE o == Doing("ready", op[c].request, st, None, 0, next)
      <4>2. o.phase = "ready" BY DoingFields
      <4>3. op' = [op EXCEPT ![c] = o] BY <4>1
      <4> HIDE DEF o
      <4> QED BY <4>2, <4>3, NoFetch
    <3> QED BY <3>1, <3>2
  <2>8. CASE DeleteSubscription(c)
    <3>1. \E candidates : Committing(c, candidates) BY <2>8 DEF DeleteSubscription
    <3> QED BY <3>1, NoFetchCommitting
  <2>9. CASE Commit(c)
    BY <2>9, NoFetchCommitting, NoFetchReleased DEF Commit
  <2>10. CASE RecordFailedAttempt(c)
    <3>1. Released(c) \/ \E candidates : Committing(c, candidates) BY <2>10 DEF RecordFailedAttempt
    <3> QED BY <3>1, NoFetchCommitting, NoFetchReleased
  <2> QED BY <1>1, <2>1, <2>2, <2>3, <2>4, <2>5, <2>6, <2>7, <2>8, <2>9, <2>10 DEF Step
<1>2. ASSUME NEW request \in Requests, Ask(request) PROVE FALSE
  <2>1. op' = [op EXCEPT !["page"] = Asking("admitted", request)] BY <1>2 DEF Ask, Begin
  <2> QED BY <2>1, NoFetch DEF Clients
<1>3. CASE NextDue
  <2>1. PICK s : op' = [op EXCEPT !["scheduler"] = Asking("admitted", Update(s, None))]
    BY <1>3 DEF NextDue, Begin
  <2> DEFINE o == Asking("admitted", Update(s, None))
  <2>2. o.phase = "admitted" BY AskingFields
  <2>3. op' = [op EXCEPT !["scheduler"] = o] BY <2>1
  <2> HIDE DEF o
  <2> QED BY <2>2, <2>3, NoFetch DEF Clients
<1>4. CASE Stop
  <2>1. op' = [op EXCEPT !["scheduler"] = Idle] BY <1>4 DEF Stop
  <2> QED BY <2>1, IdleFields, NoFetch DEF Clients
<1>5. CASE Restart
  <2>1. op' = [c \in Clients |-> Idle] BY <1>5 DEF Restart
  <2>2. op'["scheduler"] = Idle BY <2>1 DEF Clients
  <2> QED BY <2>2, IdleFields DEF Begins
<1>6. CASE UNCHANGED op BY <1>6 DEF Begins
<1>7. CASE StartPass \/ EndPass \/ RequestStop \/ ShutDown BY <1>7, <1>6 DEF StartPass, EndPass, RequestStop, ShutDown
<1>8. CASE OtherWrites \/ Serve \/ Tick \/ UNCHANGED vars BY <1>8, <1>6 DEF OtherWrites, Serve, Tick, vars
<1> QED BY <1>1, <1>2, <1>3, <1>4, <1>5, <1>7, <1>8 DEF Next

\* The scheduler never fetches a subscription again before the shortest interval an
\* attempt had since its last one is over.
THEOREM AttemptsAreSpacedHolds == Spec => AttemptsAreSpaced
<1>1. ASSUME IInv, [Next]_vars
      PROVE  [\A s \in DOMAIN tried :
                /\ op["scheduler"].phase # "fetching" /\ op'["scheduler"].phase = "fetching"
                /\ op'["scheduler"].request.sub = s /\ tried[s].interval # None
                => clock >= tried[s].at + tried[s].interval]_vars
  <2> SUFFICES ASSUME NEW s \in DOMAIN tried, Begins, op'["scheduler"].request.sub = s,
                      tried[s].interval # None
               PROVE  clock >= tried[s].at + tried[s].interval
    BY DEF Begins
  <2>1. TakenUp(s) BY <1>1, BeginsTakenUp
  <2> QED BY <1>1, <2>1 DEF IInv, Spaced
<1> QED BY <1>1, Invariance, PTL DEF Spec, AttemptsAreSpaced
=============================================================================
