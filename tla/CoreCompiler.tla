---------------------------- MODULE CoreCompiler ----------------------------
(***************************************************************************)
(* The configuration of the core: nodes, pools and routes of the runtime   *)
(* intent into one document (compile), the check every document passes     *)
(* twice (validate_standard, without and with the API secret), and the     *)
(* node read back out of the document (domain).                            *)
(*                                                                         *)
(* A node is a draft of NodeParser with an id.  A core node keeps its      *)
(* options under sing-box's names; nodes are ordered by id, which are      *)
(* naturals here.                                                          *)
(***************************************************************************)
EXTENDS NodeParser, SequencesExt

(* The form of a value that is asked for: "b" never has it.                *)
WellFormed(v) == v \notin {"b", "u", "u as bytes"} /\ Present(v)

SupportsTls == {"http", "vmess", "vless", "trojan", "hysteria", "hysteria2", "tuic", "shadowtls",
                "naive", "anytls"}
RequiresTls == SupportsTls \ {"http", "vmess", "vless"}
SupportsTransport == {"vmess", "vless", "trojan"}

ValidTls(n) ==
  /\ IsSome(n.tls) => n.proto \in SupportsTls
  /\ n.proto \in RequiresTls => IsSome(n.tls)
  /\ \A t \in n.tls :
       /\ Has(t, "server_name") => WellFormed(t["server_name"])
       /\ Has(t, "reality") => n.proto = "vless" /\ WellFormed(t["reality"])

ValidTransport(n) ==
  \A t \in n.transport :
    \/ t["kind"] = "tcp"
    \/ /\ n.proto \in SupportsTransport
       /\ \/ /\ t["kind"] = "ws" /\ has_valid_early_data(t)
             /\ WellFormed(t["path"])
             /\ Has(t, "host") => Present(t["host"])
          \/ t["kind"] = "grpc" /\ Present(t["service"])

ValidOptions(n) ==
  LET o == n.opt
      formed(k) == Has(o, k) => WellFormed(o[k])
      present(k) == Has(o, k) => Present(o[k])
      positive(k) == Has(o, k) /\ valid_positive_u32(o[k])
  IN CASE n.proto = "socks" -> o["version"] \in {"4", "5"} /\ present("username") /\ present("password")
       [] n.proto = "http" -> present("username") /\ present("password")
       [] n.proto = "shadowsocks" -> PresentIn(o, "method") /\ PresentIn(o, "password")
       [] n.proto = "vmess" -> formed("uuid") /\ formed("security")
       [] n.proto = "vless" -> /\ formed("uuid")
                               /\ Has(o, "flow") => o["flow"] = "vision" /\ IsSome(n.tls)
       [] n.proto \in {"trojan", "anytls"} -> PresentIn(o, "password")
       [] n.proto = "wireguard" -> \A k \in {"private_key", "peer_public_key", "pre_shared_key",
                                             "local_addresses"} : formed(k)
       [] n.proto = "hysteria" -> /\ PresentIn(o, "auth") /\ present("obfs")
                                  /\ positive("up_mbps") /\ positive("down_mbps")
       [] n.proto = "hysteria2" -> /\ PresentIn(o, "password") /\ present("obfs")
                                   /\ Has(o, "up_mbps") => positive("up_mbps")
                                   /\ Has(o, "down_mbps") => positive("down_mbps")
       [] n.proto = "tuic" -> /\ formed("uuid") /\ PresentIn(o, "password")
                              /\ formed("congestion_control") /\ formed("udp_relay_mode")
       [] n.proto = "shadowtls" -> o["version"] \in {"1", "3"} /\ PresentIn(o, "password")
       [] n.proto = "ssh" -> /\ PresentIn(o, "user") /\ present("password")
                             /\ present("private_key") /\ present("host_key")
                             /\ Has(o, "private_key_passphrase") => Has(o, "private_key")
       [] n.proto = "naive" -> PresentIn(o, "username") /\ PresentIn(o, "password")
       [] n.proto = "snell" -> PresentIn(o, "psk") /\ o["version"] = "4"

validate_node(n) ==
  /\ WellFormed(n.server)
  /\ is_compatible_with(n.proto, n.opt)
  /\ ValidTls(n)
  /\ ValidTransport(n)
  /\ ValidOptions(n)

-----------------------------------------------------------------------------
(* A node into the document, and out of it.                                *)

core_tls(n) ==
  IF IsSome(n.tls)
  THEN {[enabled |-> "true"] @@ t
          @@ (IF Has(t, "reality") /\ ~Has(t, "utls") THEN [utls |-> "any"] ELSE <<>>) : t \in n.tls}
  ELSE IF n.proto = "http" /\ n.opt["tls"] = "true"
  THEN Some([enabled |-> "true", insecure |-> "false"]) ELSE None

\* Mutant: the Host header is not carried over.
core_transport_NoHost(ts) ==
  {[k \in DOMAIN t \ {"host"} |-> t[k]] : t \in {u \in ts : u["kind"] # "tcp"}}

core_transport(ts) == {t \in ts : t["kind"] # "tcp"}

(* The options under the core's names. *)
CoreName(p, k) ==
  CASE p = "hysteria" /\ k = "auth" -> "auth_str"
    [] p = "hysteria2" /\ k = "mtu" -> "disable_path_mtu_discovery"
    [] p = "tuic" /\ k = "zero_rtt" -> "zero_rtt_handshake"
    [] OTHER -> k
CoreOptions(n) ==
  LET kept == DOMAIN n.opt \ (IF n.proto = "http" THEN {"tls"} ELSE {})
  IN [c \in {CoreName(n.proto, k) : k \in kept} |->
        n.opt[CHOOSE k \in kept : CoreName(n.proto, k) = c]]

node_outbound(n) ==
  [type |-> n.proto, tag |-> <<"node", n.id>>, server |-> n.server, opt |-> CoreOptions(n),
   tls |-> core_tls(n), transport |-> core_transport(n.transport)]

wireguard_endpoint(n) ==
  [type |-> "wireguard", tag |-> <<"node", n.id>>, system |-> FALSE, server |-> n.server,
   opt |-> n.opt, allowed_ips |-> "everything"]

CoreTls_domain(t) ==
  [k \in (DOMAIN t \ {"enabled"}) \ (IF Is(t, "utls", "any") THEN {"utls"} ELSE {}) |-> t[k]]

CoreTls_valid(t) ==
  /\ t["enabled"] = "true"
  /\ Has(t, "reality") => Has(t, "utls")
  /\ Is(t, "utls", "any") => Has(t, "reality")

DomainOptions(b) ==
  LET names == {k \in {"auth", "mtu", "zero_rtt"} : CoreName(b.type, k) \in DOMAIN b.opt
                                                    /\ CoreName(b.type, k) # k}
      back == DOMAIN b.opt \ {CoreName(b.type, k) : k \in names}
  IN [k \in back \cup names |-> b.opt[IF k \in names THEN CoreName(b.type, k) ELSE k]]
     @@ (IF b.type = "http" THEN [tls |-> IF IsSome(b.tls) THEN "true" ELSE "false"] ELSE <<>>)

CoreOutbound_domain(b) ==
  [id |-> b.tag[2], proto |-> b.type, server |-> b.server, opt |-> DomainOptions(b),
   tls |-> {CoreTls_domain(t) : t \in b.tls}, transport |-> b.transport]

Endpoint_domain(e) ==
  [id |-> e.tag[2], proto |-> "wireguard", server |-> e.server, opt |-> e.opt, tls |-> None,
   transport |-> None]

-----------------------------------------------------------------------------
(* compile.  The intent holds a set of nodes, pools with members and a     *)
(* selection, and routes; an outbound target is a pool, Direct or Block.   *)

ByKey(S, Less(_, _)) == SetToSortSeq(S, Less)
TagLess(a, b) == a[2] < b[2]

TargetTag(t) == IF t[1] = "pool" THEN <<"pool", t[2]>> ELSE <<t[1], 0>>

Reject(tags) == [inbound |-> tags, action |-> "reject", outbound |-> None, matcher |-> None]
route_rule(r) ==
  [inbound |-> <<>>, action |-> "none", outbound |-> Some(TargetTag(r.target)), matcher |-> Some(r.matcher)]
RouteLess(r, s) == r.priority < s.priority \/ (r.priority = s.priority /\ r.id < s.id)

PoolOutbound(p) ==
  [type |-> p.kind, tag |-> <<"pool", p.id>>, default |-> p.selected,
   members |-> ByKey({<<"node", i>> : i \in p.members}, TagLess)]

\* Mutant: the rejecting rule comes after the routes.
Rules_RejectLast(reject, user) == user \o reject

Rules(reject, user) == reject \o user

Compiled(intent) ==
  LET nodes == ByKey(intent.nodes, LAMBDA n, m : n.id < m.id)
      wg == SelectSeq(nodes, LAMBDA n : n.proto = "wireguard")
      others == SelectSeq(nodes, LAMBDA n : n.proto # "wireguard")
      endpoints == [i \in DOMAIN wg |-> wireguard_endpoint(wg[i])]
      ingress == [i \in DOMAIN wg |-> endpoints[i].tag]
      reject == IF ingress = <<>> THEN <<>> ELSE <<Reject(ingress)>>
      routes == ByKey({r \in intent.routes : r.enabled}, RouteLess)
      user == [i \in DOMAIN routes |-> route_rule(routes[i])]
  IN [outbounds |-> [i \in DOMAIN others |-> node_outbound(others[i])],
      pools |-> {PoolOutbound(p) : p \in intent.pools},
      endpoints |-> endpoints,
      dns |-> reject,
      rules |-> Rules(reject, user),
      final |-> TargetTag(intent.default),
      secret |-> FALSE]

(* The first reason compile gives up for, before it checks the document.   *)
Refused(intent) ==
  \/ intent.default[1] = "unconfigured"
  \/ intent.default[1] = "pool" /\ ~ \E p \in intent.pools : p.id = intent.default[2]
  \/ \E n \in intent.nodes : ~validate_node(n)
  \/ \E p \in intent.pools : p.members = {}
  \/ \E r \in intent.routes : r.enabled /\ r.target[1] = "unconfigured"

validate_members(p, nodeTags) == p.members # <<>> /\ ToSet(p.members) \subseteq nodeTags

is_ingress_reject(r, tags) ==
  r.inbound = tags /\ r.action = "reject" /\ r.outbound = None /\ r.matcher = None

validate_standard(d, bound) ==
  LET ingress == [i \in DOMAIN d.endpoints |-> d.endpoints[i].tag]
      nodeTags == {d.outbounds[i].tag : i \in DOMAIN d.outbounds} \cup ToSet(ingress)
      poolTags == {p.tag : p \in d.pools}
      targets == poolTags \cup {<<"direct", 0>>, <<"block", 0>>}
      user == IF ingress = <<>> THEN d.rules ELSE Tail(d.rules)
  IN /\ d.secret = bound
     /\ \A i \in DOMAIN d.outbounds :
          /\ \A t \in d.outbounds[i].tls : CoreTls_valid(t)
          /\ validate_node(CoreOutbound_domain(d.outbounds[i]))
     /\ \A i \in DOMAIN d.endpoints :
          /\ ~d.endpoints[i].system
          /\ d.endpoints[i].allowed_ips = "everything"
          /\ validate_node(Endpoint_domain(d.endpoints[i]))
     /\ nodeTags # {} /\ d.final \in targets
     /\ \A p \in d.pools : /\ validate_members(p, nodeTags)
                           /\ \A s \in p.default : <<"node", s>> \in ToSet(p.members)
     /\ IF ingress = <<>> THEN d.dns = <<>>
        ELSE /\ Len(d.dns) = 1 /\ is_ingress_reject(d.dns[1], ingress)
             /\ d.rules # <<>> /\ is_ingress_reject(d.rules[1], ingress)
     /\ \A i \in DOMAIN user :
          user[i].inbound = <<>> /\ user[i].action = "none" /\ user[i].outbound \subseteq targets

IfStandard(doc, bound) == IF validate_standard(doc, bound) THEN Some(doc) ELSE None

compile(intent) == IF Refused(intent) THEN None ELSE IfStandard(Compiled(intent), FALSE)

(* The closed model the bytes are read back into: a field no type has, or  *)
(* a required one that is missing, is refused (deny_unknown_fields).       *)
Fields(must, may) == [must |-> must, may |-> may]
Closed(rec, fields) == fields.must \subseteq DOMAIN rec /\ DOMAIN rec \subseteq fields.must \cup fields.may

NodeFields(type) ==
  CASE type = "socks" -> Fields({"version"}, {"username", "password"})
    [] type = "http" -> Fields({}, {"username", "password"})
    [] type = "shadowsocks" -> Fields({"method", "password"}, {})
    [] type = "vmess" -> Fields({"uuid"}, {"alter_id", "security"})
    [] type = "vless" -> Fields({"uuid"}, {"flow"})
    [] type \in {"trojan", "anytls"} -> Fields({"password"}, {})
    [] type = "hysteria" -> Fields({"auth_str", "up_mbps", "down_mbps"}, {"obfs"})
    [] type = "hysteria2" -> Fields({"password"}, {"obfs", "up_mbps", "down_mbps",
                                                   "disable_path_mtu_discovery"})
    [] type = "tuic" -> Fields({"uuid", "password", "zero_rtt_handshake"},
                               {"congestion_control", "udp_relay_mode"})
    [] type = "shadowtls" -> Fields({"version", "password"}, {})
    [] type = "ssh" -> Fields({"user"}, {"password", "private_key", "private_key_passphrase", "host_key"})
    [] type = "naive" -> Fields({"username", "password"}, {})
    [] type = "snell" -> Fields({"psk", "version"}, {})
WireGuardPeer == Fields({"private_key", "peer_public_key", "local_addresses"},
                        {"pre_shared_key", "mtu", "reserved"})
CoreTls == Fields({"enabled", "insecure"}, {"server_name", "alpn", "reality", "utls"})
CoreTransport(kind) == IF kind = "ws" THEN Fields({"kind", "path"}, {"host", "max", "header"})
                       ELSE Fields({"kind", "service"}, {})
CoreOutbound(b) ==
  /\ Closed(b.opt, NodeFields(b.type))
  /\ \A t \in b.tls : Closed(t, CoreTls)
  /\ \A t \in b.transport : Closed(t, CoreTransport(t["kind"]))
WireGuardEndpoint(e) == e.type = "wireguard" /\ Closed(e.opt, WireGuardPeer)
Document(d) == /\ \A i \in DOMAIN d.outbounds : CoreOutbound(d.outbounds[i])
               /\ \A i \in DOMAIN d.endpoints : WireGuardEndpoint(d.endpoints[i])

(* finalize binds the secret, checks the document, and reads the bytes     *)
(* back into the closed model, where the document is checked once more.    *)
validate_final(d) == IF Document(d) THEN IfStandard(d, TRUE) ELSE None
finalize(d) ==
  UNION {validate_final(bound) : bound \in IfStandard([d EXCEPT !.secret = TRUE], TRUE)}
=============================================================================
