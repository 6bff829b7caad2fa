----------------------------- MODULE Migration -----------------------------
(***************************************************************************)
(* What decode() makes of the text of state.json (storage/store.rs,        *)
(* storage/migration.rs): the chain of migrations from an older schema,    *)
(* the shape the current one must have, and its validation.  StateStore    *)
(* knows a file by the class that decode gives it.                         *)
(*                                                                         *)
(* A JSON object is a record; its optional values, and the results of a    *)
(* step that may fail, are sets with one element or with none.             *)
(***************************************************************************)
EXTENDS Naturals, TLC
LOCAL INSTANCE SequencesExt

CURRENT_SCHEMA_VERSION == 6

Nothing == [x \in {} |-> x]

\* One subscription, its provider and the node of it, a pool that selects the node
\* and a route to the pool, as version 2 writes them.
Credentials(kind, given) ==
  [kind |-> kind] @@ [f \in {"username", "password", "cipher", "uuid", "flow"} |->
                        IF f \in DOMAIN given THEN {given[f]} ELSE {}]
V2(protocol, credentials, provider, filter) ==
  [schema_version |-> 2, subscriptions |-> [s |-> [name |-> "s"]], providers |-> [p |-> "s"],
   nodes |-> [n |-> [provider |-> provider, protocol |-> protocol, credentials |-> credentials]],
   pools |-> [q |-> [source |-> "p", protocols |-> filter, selected |-> {"n"}]],
   routes |-> [r |-> "q"]]

-----------------------------------------------------------------------------
(* Nodes: credentials become the options of the protocol *)

v3_protocol(protocol) ==
  CASE protocol = "socks5" -> {"socks"}
    [] protocol = "https" -> {"http"}
    [] protocol \in {"shadowsocks", "vmess", "vless", "trojan", "hysteria2", "tuic", "http", "any_tls"} ->
         {protocol}
    [] OTHER -> {}

\* optional_string: a blank one is an error.
Readable(c) == \A f \in DOMAIN c \ {"kind"} : c[f] # {""}

\* Mutant: https is read as http.
http_options_NoTls(protocol, c) ==
  [kind |-> "http", username |-> c.username, password |-> c.password, tls |-> FALSE]

http_options(protocol, c) ==
  [kind |-> "http", username |-> c.username, password |-> c.password, tls |-> protocol = "https"]

v3_options(protocol, c) ==
  IF ~Readable(c) THEN {} ELSE
  CASE protocol = "shadowsocks" /\ c.kind = "password" ->
         {[kind |-> "shadowsocks", method |-> m, password |-> w] : m \in c.cipher, w \in c.password}
    [] protocol = "vmess" /\ c.kind = "uuid" ->
         {[kind |-> "vmess", uuid |-> u, alter_id |-> {}, security |-> {}] : u \in c.uuid}
    [] protocol = "vless" /\ c.kind = "uuid" ->
         {[kind |-> "vless", uuid |-> u, flow |-> c.flow] : u \in c.uuid}
    [] protocol \in {"trojan", "any_tls"} /\ c.kind = "password" ->
         {[kind |-> protocol, password |-> w] : w \in c.password}
    [] protocol = "hysteria2" /\ c.kind = "password" ->
         {[kind |-> protocol, password |-> w, obfs |-> {}] : w \in c.password}
    [] protocol = "socks5" /\ c.kind \in {"none", "password"} ->
         {[kind |-> "socks", version |-> 5, username |-> c.username, password |-> c.password]}
    [] protocol \in {"http", "https"} /\ c.kind \in {"none", "password"} ->
         {http_options(protocol, c)}
    [] OTHER -> {}

migrate_v2_node(n) ==
  {[provider |-> n.provider, protocol |-> q, options |-> o] :
     q \in v3_protocol(n.protocol), o \in v3_options(n.protocol, n.credentials)}

-----------------------------------------------------------------------------
(* Documents *)

migrate_v1_to_v2(d) == {[schema_version |-> 2, pools |-> Nothing, routes |-> Nothing] @@ d}

\* All nodes, or the document is not migrated.
migrate_v2_to_v3(d) ==
  IF "nodes" \notin DOMAIN d \/ \E n \in DOMAIN d.nodes : migrate_v2_node(d.nodes[n]) = {} THEN {}
  ELSE {[schema_version |-> 3, default_target |-> "unconfigured",
         nodes |-> [n \in DOMAIN d.nodes |-> CHOOSE m \in migrate_v2_node(d.nodes[n]) : TRUE]] @@ d}

\* Each subscription gets the fields that Added gives for it.
EachSubscription(d, Added(_)) ==
  [subscriptions |-> [s \in DOMAIN d.subscriptions |-> Added(d.subscriptions[s]) @@ d.subscriptions[s]]] @@ d

migrate_v3_to_v4(d) ==
  IF "subscriptions" \notin DOMAIN d THEN {}
  ELSE {[schema_version |-> 4]
          @@ EachSubscription(d, LAMBDA s : [source |-> "manual", last_success |-> {}, http_metadata |-> {}])}

\* The options and the policy a source of its kind starts with.
RemoteRequest == [user_agent |-> {}, timeout |-> 30, proxy_mode |-> "direct", verify_tls |-> TRUE]
Policy(kind) == [allow_auto_update |-> kind = "remote", interval |-> {}]

migrate_v4_to_v5(d) ==
  IF "subscriptions" \notin DOMAIN d
     \/ \E s \in DOMAIN d.subscriptions :
          "source" \notin DOMAIN d.subscriptions[s] \/ d.subscriptions[s].source \notin {"remote", "manual"}
  THEN {}
  ELSE {[schema_version |-> 5, active |-> {}, generation |-> 0]
          @@ EachSubscription(d, LAMBDA s :
               [description |-> "", last_attempt |-> {}, update_policy |-> Policy(s.source),
                remote_request |-> IF s.source = "remote" THEN {RemoteRequest} ELSE {}])}

\* Mutant: every step forgets what was selected.
migrate_v5_to_v6_Deselects(d) ==
  IF "subscriptions" \notin DOMAIN d THEN {}
  ELSE {[schema_version |-> 6, active |-> {}, generation |-> 0]
          @@ EachSubscription(d, LAMBDA s : [document |-> {}])}

migrate_v5_to_v6(d) ==
  IF "subscriptions" \notin DOMAIN d THEN {}
  ELSE {[schema_version |-> 6] @@ EachSubscription(d, LAMBDA s : [document |-> {}])}

Step(v, d) ==
  CASE v = 1 -> migrate_v1_to_v2(d)
    [] v = 2 -> migrate_v2_to_v3(d)
    [] v = 3 -> migrate_v3_to_v4(d)
    [] v = 4 -> migrate_v4_to_v5(d)
    [] v = 5 -> migrate_v5_to_v6(d)

\* The versions from that of d on, one step each; a step that fails leaves nothing.
migrate_to_current(d) ==
  FoldLeft(LAMBDA docs, v : UNION {Step(v, e) : e \in docs}, {d},
           [i \in 1..(CURRENT_SCHEMA_VERSION - d.schema_version) |-> d.schema_version + i - 1])

-----------------------------------------------------------------------------
(* The current schema *)

\* StoredStateV6 and what it holds: the fields that must be there.
ProxyProtocol ==
  {"socks", "http", "shadowsocks", "vmess", "vless", "trojan", "wire_guard", "hysteria", "hysteria2",
   "tuic", "shadow_tls", "ssh", "naive", "any_tls", "snell"}
Shaped(d) ==
  /\ {"schema_version", "default_target", "active", "generation", "subscriptions", "providers", "nodes",
      "pools", "routes"} \subseteq DOMAIN d
  /\ \A s \in DOMAIN d.subscriptions :
       {"name", "description", "source", "last_success", "last_attempt", "http_metadata",
        "remote_request", "update_policy"} \subseteq DOMAIN d.subscriptions[s]
  /\ \A n \in DOMAIN d.nodes : d.nodes[n].protocol \in ProxyProtocol
  /\ \A q \in DOMAIN d.pools : d.pools[q].protocols \subseteq ProxyProtocol

\* is_compatible_with and has_required_values: a user name goes with a password.
OptionsValid(n) ==
  /\ n.protocol = n.options.kind
  /\ n.protocol \in {"socks", "http"} => (n.options.username = {} <=> n.options.password = {})

SubscriptionValid(s) ==
  IF s.source = "remote" THEN s.remote_request # {}
  ELSE s.remote_request = {} /\ s.http_metadata = {} /\ s.update_policy = Policy("manual")

Selectable(d, q) ==
  {n \in DOMAIN d.nodes : /\ d.nodes[n].provider = d.pools[q].source
                          /\ d.pools[q].protocols = {} \/ d.nodes[n].protocol \in d.pools[q].protocols}

validate(d) ==
  /\ d.default_target \in DOMAIN d.pools \cup {"unconfigured", "direct", "block"}
  /\ d.active \subseteq DOMAIN d.subscriptions
  /\ \A s \in DOMAIN d.subscriptions : SubscriptionValid(d.subscriptions[s])
  /\ \A p \in DOMAIN d.providers : d.providers[p] \in DOMAIN d.subscriptions
  /\ \A n \in DOMAIN d.nodes : d.nodes[n].provider \in DOMAIN d.providers /\ OptionsValid(d.nodes[n])
  /\ \A q \in DOMAIN d.pools : d.pools[q].source \in DOMAIN d.providers
                               /\ d.pools[q].selected \subseteq Selectable(d, q)
  /\ \A r \in DOMAIN d.routes : d.routes[r] \in DOMAIN d.pools \cup {"direct", "block"}

\* The class of a document, as StateStore names it, and the state it holds.  What a
\* step refuses, and another version, is foreign; a document that migrates and is
\* not a valid state is damaged, as one of the current version.
decode(d) ==
  CASE "schema_version" \notin DOMAIN d -> [class |-> "damaged", state |-> {}]
    [] "schema_version" \in DOMAIN d /\ d.schema_version \notin 1..CURRENT_SCHEMA_VERSION ->
         [class |-> "foreign", state |-> {}]
    [] OTHER ->
         LET m == migrate_to_current(d)
         IN CASE m = {} -> [class |-> "foreign", state |-> {}]
              [] \E e \in m : ~(Shaped(e) /\ validate(e)) -> [class |-> "damaged", state |-> {}]
              [] OTHER -> [class |-> IF d.schema_version = CURRENT_SCHEMA_VERSION THEN "current" ELSE "older",
                           state |-> m]

-----------------------------------------------------------------------------
(* Documents of every version: nodes of every protocol with every combination of *)
(* credentials, references that hold and ones that do not.                       *)

GivenCredentials ==
  UNION {{Credentials(kind, g) : g \in [fields -> {"", "x"}]} :
           kind \in {"none", "password", "uuid"},
           fields \in SUBSET {"username", "password", "cipher", "uuid", "flow"}}
V2Documents ==
  {V2(p, c, "p", {}) : p \in {"shadowsocks", "vmess", "vless", "trojan", "hysteria2", "tuic", "http",
                              "https", "any_tls", "socks5", "unsupported"}, c \in GivenCredentials}
    \cup {V2("socks5", Credentials("none", Nothing), p, f) : p \in {"p", "gone"}, f \in {{}, {"socks5"}, {"vless"}}}

V1Documents ==
  {[f \in DOMAIN d \ {"pools", "routes"} |-> IF f = "schema_version" THEN 1 ELSE d[f]] : d \in V2Documents}
V3Documents == UNION {migrate_v2_to_v3(d) : d \in V2Documents}

\* Version 4 and 5 have what the application has written since.
V4Documents ==
  {[schema_version |-> 4]
     @@ EachSubscription(d, LAMBDA s : [source |-> kind, last_success |-> {1}, http_metadata |-> meta]) :
     d \in V3Documents, kind \in {"remote", "manual", "other"}, meta \in {{}, {"etag"}}}
V5Documents ==
  {[schema_version |-> 5, active |-> a, generation |-> g, default_target |-> "q"]
     @@ EachSubscription(d, LAMBDA s :
          [description |-> "d", last_attempt |-> {2}, update_policy |-> Policy(s.source),
           remote_request |-> IF s.source = "remote" THEN {[RemoteRequest EXCEPT !.timeout = 60]} ELSE {}]) :
     d \in {e \in V4Documents : e.subscriptions.s.source # "other"}, a \in {{}, {"s"}, {"gone"}}, g \in {0, 7}}
V6Documents == UNION {migrate_v5_to_v6(d) : d \in V5Documents}

Documents ==
  V1Documents \cup V2Documents \cup V3Documents \cup V4Documents \cup V5Documents \cup V6Documents
    \cup {[schema_version |-> v] : v \in 0..7} \cup {[nodes |-> Nothing]}

-----------------------------------------------------------------------------
(* What a migration may not change *)

\* m is what the document d should become: identities, references and what the user
\* has selected are those of d, a source stays what it was, nothing is selected that
\* was not; and m is not migrated again.
Whole(d, m) ==
  /\ decode(m) = [class |-> "current", state |-> {m}]
  /\ \A table \in {"subscriptions", "nodes"} : DOMAIN m[table] = DOMAIN d[table]
  /\ m.providers = d.providers
  /\ \A n \in DOMAIN d.nodes : m.nodes[n].provider = d.nodes[n].provider
  /\ d.schema_version >= 2 => m.pools = d.pools /\ m.routes = d.routes
  /\ d.schema_version >= 4 => \A s \in DOMAIN d.subscriptions :
                                m.subscriptions[s].source = d.subscriptions[s].source
  /\ IF d.schema_version = 5
     THEN m.active = d.active /\ m.generation = d.generation /\ m.default_target = d.default_target
     ELSE m.active = {} /\ m.generation = 0

\* The options o mean what the credentials c did.
SameMeaning(protocol, c, o) ==
  CASE protocol = "shadowsocks" -> c.cipher = {o.method} /\ c.password = {o.password}
    [] protocol \in {"vmess", "vless"} -> c.uuid = {o.uuid} /\ (protocol = "vless" => c.flow = o.flow)
    [] protocol \in {"trojan", "hysteria2", "any_tls"} -> c.password = {o.password}
    [] protocol \in {"socks5", "http", "https"} ->
         /\ c.username = o.username /\ c.password = o.password
         /\ protocol = "socks5" => o.version = 5
         /\ protocol # "socks5" => (o.tls <=> protocol = "https")

\* The documents of an older version that a load would replace.
OlderDocuments == {d \in Documents : decode(d).class = "older"}
WholeDocuments == \A d \in OlderDocuments : \A m \in decode(d).state : Whole(d, m)
MeaningfulNodes ==
  \A d \in {e \in OlderDocuments : e.schema_version <= 2} : \A m \in decode(d).state :
    SameMeaning(d.nodes.n.protocol, d.nodes.n.credentials, m.nodes.n.options)

=============================================================================
