----------------------------- MODULE NodeParser -----------------------------
(***************************************************************************)
(* One entry of a subscription into a typed node draft, or into the reason *)
(* it is skipped: the three spellings of parser.rs (an object of a JSON or *)
(* Clash document, a share link, and the legacy vmess link, which carries  *)
(* an object).                                                             *)
(*                                                                         *)
(* An object is a function from the fields it has to classes of JSON       *)
(* values; the fields of a nested object are named with their path         *)
(* ("tls/insecure").  "a" and "b" are two different usable texts, of which *)
(* only "a" has the form that the compiler will ask for at that place (a   *)
(* UUID, a key, a host name, a known method).  "u" is a text outside       *)
(* ASCII.  An absent option is the empty set, or no member of a domain.    *)
(***************************************************************************)
EXTENDS Naturals, Sequences, FiniteSets, TLC

None == {}
Some(x) == {x}
IsSome(o) == o # {}
The(o) == CHOOSE x \in o : TRUE

Good(o) == [ok |-> TRUE, val |-> o]
Bad == [ok |-> FALSE, val |-> None]

(* Classes of JSON values. *)
Numbers == {"0", "1", "3", "4", "5", "300"}
Bools == {"true", "false"}
IsString(v) == v \notin Numbers \cup Bools \cup {"null", "other"}
valid_nonempty_string(v) == IsString(v) /\ v \notin {"", "blank"}
valid_u32(v) == v \in Numbers
valid_bool(v) == v \in Bools
valid_positive_u32(v) == v \in Numbers \ {"0"}
valid_alpn(v) == v \in {"a", "b"}
valid_fingerprint(v) == v \in {"chrome", "firefox"}

Has(c, k) == k \in DOMAIN c
Is(c, k, v) == Has(c, k) /\ c[k] = v
HasAny(c, ks) == ks \cap DOMAIN c # {}

-----------------------------------------------------------------------------
(* Names of protocols, and the fields each may carry. *)

Protocols == {"socks", "http", "shadowsocks", "vmess", "vless", "trojan", "wireguard",
              "hysteria", "hysteria2", "tuic", "shadowtls", "ssh", "naive", "anytls", "snell"}

protocol_from_name(n) ==
  CASE n = "ss" -> Some("shadowsocks") [] n = "wg" -> Some("wireguard")
    [] n = "hy" -> Some("hysteria")    [] n = "hy2" -> Some("hysteria2")
    [] n = "naive+https" -> Some("naive") [] n = "socks5" -> Some("socks")
    [] n = "https" -> Some("http")     [] n = "any_tls" -> Some("anytls")
    [] n \in Protocols -> Some(n)      [] OTHER -> None

TlsParts == {"tls/server_name", "tls/insecure", "tls/alpn", "tls/utls", "tls/reality"}
TransportParts == {"transport/type", "transport/path", "transport/headers",
                   "transport/service_name", "transport/max_early_data",
                   "transport/early_data_header_name"}
WsParts == {"ws-opts/path", "ws-opts/headers", "ws-opts/max_early_data",
            "ws-opts/early_data_header_name"}
Nested == TlsParts \cup TransportParts \cup WsParts \cup {"grpc-opts/grpc-service-name"}

CommonFields ==
  {"name", "tag", "ps", "type", "server", "server_port", "port", "add", "network", "net",
   "tls", "sni", "skip-cert-verify", "alpn", "client-fingerprint", "reality-opts", "path",
   "host"} \cup Nested

ProtocolFields ==
  [socks |-> {"username", "password", "version"},
   http |-> {"username", "password"},
   shadowsocks |-> {"method", "cipher", "password"},
   vmess |-> {"uuid", "id", "alter_id", "security"},
   vless |-> {"uuid", "id", "flow", "packet_encoding", "udp", "smux"},
   trojan |-> {"password"},
   wireguard |-> {"private_key", "private-key", "peer_public_key", "peer-public-key",
                  "pre_shared_key", "pre-shared-key", "local_address", "local-address",
                  "local_addresses", "local-addresses", "mtu", "reserved"},
   hysteria |-> {"auth", "auth_str", "auth-str", "obfs", "up_mbps", "up-mbps", "down_mbps",
                 "down-mbps"},
   hysteria2 |-> {"password", "obfs", "alpn", "up_mbps", "up-mbps", "up", "up-speed",
                  "down_mbps", "down-mbps", "down", "down-speed", "protocol",
                  "disable_mtu_discovery", "disable_path_mtu_discovery", "benchmark-url",
                  "benchmark-timeout", "udp"},
   tuic |-> {"uuid", "id", "password", "congestion_control", "congestion-control",
             "udp_relay_mode", "udp-relay-mode", "zero_rtt", "zero-rtt"},
   shadowtls |-> {"version", "password"},
   ssh |-> {"user", "username", "password", "private_key", "private-key",
            "private_key_passphrase", "private-key-passphrase", "host_key", "host-key"},
   naive |-> {"username", "password"},
   anytls |-> {"password"},
   snell |-> {"psk", "password", "version"}]

(* The list of has_unknown_json_fields is the union of the others and two  *)
(* spellings that are moved away before the protocol is looked at.         *)
KnownFields ==
  CommonFields \cup UNION {ProtocolFields[p] : p \in Protocols} \cup {"servername", "insecure"}

-----------------------------------------------------------------------------
(* Spellings that are moved to the one the rest of the parser reads.       *)

Aliases(c) ==
  {<<"servername", "sni", "text">>,
   <<"ws-opts/max-early-data", "ws-opts/max_early_data", "u32">>,
   <<"ws-opts/early-data-header-name", "ws-opts/early_data_header_name", "string">>}
  \cup (IF Is(c, "type", "vmess")
        THEN {<<"alterId", "alter_id", "u32">>, <<"cipher", "security", "text">>} ELSE {})
  \cup (IF Has(c, "type") /\ c["type"] \in {"hysteria2", "hy2"}
        THEN {<<"auth", "password", "text">>, <<"insecure", "skip-cert-verify", "bool">>}
        ELSE {})

AliasValid(kind, v) ==
  CASE kind = "text" -> valid_nonempty_string(v)
    [] kind = "u32" -> valid_u32(v)
    [] kind = "bool" -> valid_bool(v)
    [] kind = "string" -> IsString(v)

move_alias(c, a) ==
  Has(c, a[1]) => /\ AliasValid(a[3], c[a[1]])
                  /\ Has(c, a[2]) => c[a[2]] = c[a[1]]

Moved(c) ==
  LET used == {a \in Aliases(c) : Has(c, a[1])}
      kept == DOMAIN c \ {a[1] : a \in used}
  IN [k \in kept \cup {a[2] : a \in used} |->
        IF \E a \in used : a[2] = k THEN c[(CHOOSE a \in used : a[2] = k)[1]] ELSE c[k]]

-----------------------------------------------------------------------------
(* Values and nested objects that cannot be carried over.                  *)

(* "on" and "off" are objects with that value of enabled.                  *)
invalid_tls_value(c) ==
  Has(c, "tls") /\
    \/ c["tls"] \notin {"true", "false", "tls", "on", "off"}
    \/ c["tls"] = "off" /\ HasAny(c, TlsParts)
    \/ /\ c["tls"] = "on"
       /\ \/ Has(c, "tls/server_name") /\ ~valid_nonempty_string(c["tls/server_name"])
          \/ Has(c, "tls/insecure") /\ ~valid_bool(c["tls/insecure"])
          \/ Has(c, "tls/alpn") /\ ~valid_alpn(c["tls/alpn"])
          \/ Has(c, "tls/utls") /\ ~(c["tls/utls"] \in {"on", "off"} \/ valid_fingerprint(c["tls/utls"]))
          \/ Has(c, "tls/reality") /\ c["tls/reality"] \notin {"off", "a", "b"}

invalid_websocket_headers(c, k) == Has(c, k) /\ c[k] \notin {"a", "b"}

invalid_transport_value(c) ==
  LET given(k) == Has(c, k) /\ c[k] # "null" IN
  HasAny(c, TransportParts) /\
    ~ \/ Is(c, "transport/type", "ws") /\ ~given("transport/service_name")
      \/ /\ Is(c, "transport/type", "grpc")
         /\ \A k \in TransportParts \ {"transport/type", "transport/service_name"} : ~given(k)

(* A smux object is "off", "tcp" (h2mux over TCP only) or "on" (anything   *)
(* else that is enabled); "other" is malformed.                            *)
invalid_smux(v) == v \notin {"off", "tcp", "on"}

invalid_reality_options(v) == v \notin {"a", "b"}

has_invalid_clash_compatibility_fields(c) ==
  LET bad(k, ok) == Has(c, k) /\ ~ok IN
  \/ bad("alpn", valid_alpn(c["alpn"]))
  \/ bad("client-fingerprint", valid_fingerprint(c["client-fingerprint"]))
  \/ \E k \in {"insecure", "udp", "disable_mtu_discovery", "disable_path_mtu_discovery"} :
       bad(k, valid_bool(c[k]))
  \/ bad("protocol", IsString(c["protocol"]))
  \/ bad("benchmark-url", valid_nonempty_string(c["benchmark-url"]))
  \/ \E k \in {"benchmark-timeout", "up", "up-speed", "down", "down-speed"} :
       bad(k, valid_positive_u32(c[k]))
  \/ bad("reality-opts", ~invalid_reality_options(c["reality-opts"]))
  \/ bad("smux", ~invalid_smux(c["smux"]))

has_unknown_nested_fields(c) ==
  \/ invalid_tls_value(c)
  \/ invalid_transport_value(c)
  \/ invalid_websocket_headers(c, "transport/headers")
  \/ invalid_websocket_headers(c, "ws-opts/headers")
  \/ has_invalid_clash_compatibility_fields(c)

has_unknown_json_fields(c) == ~(DOMAIN c \subseteq KnownFields) \/ has_unknown_nested_fields(c)

has_illegal_protocol_fields(c) ==
  \E p \in IF Has(c, "type") THEN protocol_from_name(c["type"]) ELSE None :
    ~(DOMAIN c \subseteq CommonFields \cup ProtocolFields[p])

-----------------------------------------------------------------------------
(* How a field is read.  Every reader yields the option it found, or Bad   *)
(* when the entry is invalid because of it.                                *)

get_string(c, ks) ==
  LET found == {i \in DOMAIN ks : Has(c, ks[i]) /\ IsString(c[ks[i]])}
  IN IF found = {} THEN None
     ELSE Some(c[ks[CHOOSE i \in found : \A j \in found : i <= j]])

Dashed ==
  [private_key |-> "private-key", peer_public_key |-> "peer-public-key",
   pre_shared_key |-> "pre-shared-key", local_address |-> "local-address",
   local_addresses |-> "local-addresses", auth_str |-> "auth-str", up_mbps |-> "up-mbps",
   down_mbps |-> "down-mbps", congestion_control |-> "congestion-control",
   udp_relay_mode |-> "udp-relay-mode", zero_rtt |-> "zero-rtt", host_key |-> "host-key",
   private_key_passphrase |-> "private-key-passphrase"]

raw_value(c, k) ==
  LET spellings == {k} \cup (IF k \in DOMAIN Dashed THEN {Dashed[k]} ELSE {})
      found == spellings \cap DOMAIN c
  IN IF Cardinality(found) > 1 THEN Bad ELSE Good({c[n] : n \in found})

RawAs(c, k, Accepts(_)) ==
  LET r == raw_value(c, k) IN
  IF r.ok /\ r.val \subseteq {"null"} THEN Good(None)
  ELSE IF \E v \in r.val : Accepts(v) THEN r ELSE Bad

optional_raw_string(c, k) == RawAs(c, k, valid_nonempty_string)
optional_raw_u32(c, k) == RawAs(c, k, valid_u32)
IsU8(v) == v \in Numbers \ {"300"}
optional_raw_u8(c, k) == RawAs(c, k, IsU8)
optional_raw_bool(c, k) == RawAs(c, k, valid_bool)

(* "quoted" is a string of digits, 4 in value. *)
IsU8OrString(v) == IsU8(v) \/ v = "quoted"
optional_raw_u8_or_string(c, k) ==
  LET r == RawAs(c, k, IsU8OrString)
  IN [r EXCEPT !.val = {IF v = "quoted" THEN "4" ELSE v : v \in r.val}]

(* Several spellings of one value must agree.                              *)
Agreeing(c, ks, Accepts(_)) ==
  LET found == {c[k] : k \in ks \cap DOMAIN c}
  IN IF Cardinality(found) > 1 \/ \E v \in found : ~Accepts(v) THEN Bad ELSE Good(found)

optional_positive_u32_aliases(c, ks) == Agreeing(c, ks, valid_positive_u32)
optional_bool_aliases(c, ks) == Agreeing(c, ks, valid_bool)

optional_vless_flow(c) ==
  IF ~Has(c, "flow") \/ c["flow"] \in {"null", ""} THEN Good(None)
  ELSE IF c["flow"] = "vision" THEN Good(Some("vision")) ELSE Bad

raw_string_list(c, k) ==
  LET r == raw_value(c, k) IN
  IF r.ok /\ \E v \in r.val : valid_nonempty_string(v) THEN r ELSE Bad

(* A reserved field is a list of three bytes; null is not one. *)
optional_reserved(c) ==
  IF ~Has(c, "reserved") THEN Good(None)
  ELSE IF c["reserved"] \in {"a", "b"} THEN Good(Some(c["reserved"])) ELSE Bad

Required(o) == IF o \cap {"", "blank"} = {} /\ IsSome(o) THEN Good(o) ELSE Bad
Must(r) == IF r.ok /\ IsSome(r.val) THEN r ELSE Bad
OrElse(r, d) == IF r.ok /\ r.val = None THEN Good(Some(d)) ELSE r
Either(r, s) == IF ~(r.ok /\ s.ok) THEN Bad ELSE IF IsSome(r.val) THEN r ELSE s

-----------------------------------------------------------------------------
(* Protocol options: for each protocol the options of draft_from_fields.   *)

Uuid(c) == get_string(c, <<"uuid", "id">>)
Password(c) == get_string(c, <<"password">>)
Username(c) == get_string(c, <<"username">>)

VmessOptions(c) ==
  [uuid |-> Required(Uuid(c)), alter_id |-> optional_raw_u32(c, "alter_id"),
   security |-> optional_raw_string(c, "security")]
VlessOptions(c) == [uuid |-> Required(Uuid(c)), flow |-> optional_vless_flow(c)]
ShadowsocksOptions(c) ==
  [method |-> Required(get_string(c, <<"cipher", "method">>)), password |-> Required(Password(c))]
SocksOptions(c) ==
  [version |-> OrElse(optional_raw_u8_or_string(c, "version"), "5"),
   username |-> Good(Username(c)), password |-> Good(Password(c))]
HttpOptions(c, tls) ==
  [tls |-> Good(Some(IF tls = Some("true") \/ c["type"] = "https" THEN "true" ELSE "false")),
   username |-> Good(Username(c)), password |-> Good(Password(c))]
PasswordOptions(c) == [password |-> Required(Password(c))]
Hysteria2Options(c) ==
  [password |-> Required(Password(c)), obfs |-> optional_raw_string(c, "obfs"),
   up_mbps |-> optional_positive_u32_aliases(c, {"up_mbps", "up-mbps", "up", "up-speed"}),
   down_mbps |-> optional_positive_u32_aliases(c, {"down_mbps", "down-mbps", "down", "down-speed"}),
   mtu |-> optional_bool_aliases(c, {"disable_path_mtu_discovery", "disable_mtu_discovery"})]
WireGuardOptions(c) ==
  LET one == raw_string_list(c, "local_address") IN
  [private_key |-> Must(optional_raw_string(c, "private_key")),
   peer_public_key |-> Must(optional_raw_string(c, "peer_public_key")),
   pre_shared_key |-> optional_raw_string(c, "pre_shared_key"),
   local_addresses |-> IF one.ok THEN one ELSE raw_string_list(c, "local_addresses"),
   mtu |-> optional_raw_u32(c, "mtu"), reserved |-> optional_reserved(c)]
HysteriaOptions(c) ==
  [auth |-> Must(Either(optional_raw_string(c, "auth"), optional_raw_string(c, "auth_str"))),
   obfs |-> optional_raw_string(c, "obfs"),
   up_mbps |-> optional_raw_u32(c, "up_mbps"), down_mbps |-> optional_raw_u32(c, "down_mbps")]
TuicOptions(c) ==
  [uuid |-> Required(Uuid(c)), password |-> Required(Password(c)),
   congestion_control |-> optional_raw_string(c, "congestion_control"),
   udp_relay_mode |-> optional_raw_string(c, "udp_relay_mode"),
   zero_rtt |-> OrElse(optional_raw_bool(c, "zero_rtt"), "false")]
ShadowTlsOptions(c) ==
  [version |-> OrElse(optional_raw_u8(c, "version"), "3"), password |-> Required(Password(c))]
SshOptions(c) ==
  [user |-> Must(Either(optional_raw_string(c, "user"), optional_raw_string(c, "username"))),
   password |-> Good(Password(c)), private_key |-> optional_raw_string(c, "private_key"),
   private_key_passphrase |-> optional_raw_string(c, "private_key_passphrase"),
   host_key |-> optional_raw_string(c, "host_key")]
NaiveOptions(c) == [username |-> Required(Username(c)), password |-> Required(Password(c))]
SnellOptions(c) ==
  [psk |-> Must(Either(optional_raw_string(c, "psk"), Good(Password(c) \ {"", "blank"}))),
   version |-> OrElse(optional_raw_u8(c, "version"), "3")]

JsonOptions(p, c, tls) ==
  CASE p = "vmess" -> VmessOptions(c)      [] p = "vless" -> VlessOptions(c)
    [] p = "socks" -> SocksOptions(c)      [] p = "http" -> HttpOptions(c, tls)
    [] p = "shadowsocks" -> ShadowsocksOptions(c)
    [] p \in {"trojan", "anytls"} -> PasswordOptions(c)
    [] p = "hysteria" -> HysteriaOptions(c) [] p = "hysteria2" -> Hysteria2Options(c)
    [] p = "wireguard" -> WireGuardOptions(c) [] p = "tuic" -> TuicOptions(c)
    [] p = "shadowtls" -> ShadowTlsOptions(c) [] p = "ssh" -> SshOptions(c)
    [] p = "naive" -> NaiveOptions(c)      [] p = "snell" -> SnellOptions(c)

(* The options that were found, as one function. *)
Collect(rs) ==
  IF \E k \in DOMAIN rs : ~rs[k].ok THEN Bad
  ELSE Good(Some([k \in {j \in DOMAIN rs : IsSome(rs[j].val)} |-> The(rs[k].val)]))

Present(v) == v \notin {"", "blank"}
PresentIn(o, k) == Has(o, k) /\ Present(o[k])

has_required_values(p, o) ==
  LET absentOrPresent(k) == Has(o, k) => Present(o[k])
      positive(k) == Has(o, k) => o[k] # "0"
  IN CASE p \in {"socks", "http"} ->
            /\ absentOrPresent("username") /\ absentOrPresent("password")
            /\ Has(o, "username") <=> Has(o, "password")
       [] p = "shadowsocks" -> PresentIn(o, "method") /\ PresentIn(o, "password")
       [] p \in {"vmess", "vless"} -> PresentIn(o, "uuid")
       [] p \in {"trojan", "anytls", "shadowtls"} -> PresentIn(o, "password")
       [] p = "hysteria2" -> /\ PresentIn(o, "password") /\ absentOrPresent("obfs")
                             /\ positive("up_mbps") /\ positive("down_mbps")
       [] p = "wireguard" -> /\ PresentIn(o, "private_key") /\ PresentIn(o, "peer_public_key")
                             /\ PresentIn(o, "local_addresses")
       [] p = "hysteria" -> PresentIn(o, "auth")
       [] p = "tuic" -> PresentIn(o, "uuid") /\ PresentIn(o, "password")
       [] p = "ssh" -> /\ PresentIn(o, "user")
                       /\ PresentIn(o, "password") \/ PresentIn(o, "private_key")
       [] p = "naive" -> PresentIn(o, "username") /\ PresentIn(o, "password")
       [] p = "snell" -> PresentIn(o, "psk") /\ o["version"] \in {"1", "3", "4", "5"}

is_compatible_with(p, o) ==
  (p = "socks" => o["version"] \in {"4", "5"}) /\ has_required_values(p, o)

-----------------------------------------------------------------------------
(* Transport and TLS of an object.                                         *)

EarlyMax(v) ==
  CASE v = "null" -> Good(None)
    [] valid_u32(v) -> Good(IF v = "0" THEN None ELSE Some(v))
    [] OTHER -> Bad
EarlyHeader(v) ==
  CASE v \in {"null", ""} -> Good(None)
    [] IsString(v) -> Good(Some(v))
    [] OTHER -> Bad

Resolved(c, ks, Read(_)) ==
  LET found == {Read(c[k]) : k \in ks \cap DOMAIN c}
  IN CASE found = {} -> Good(None)
       [] Cardinality(found) = 1 -> The(found)
       [] OTHER -> Bad

EarlyMaxFields == {"ws-opts/max_early_data", "transport/max_early_data"}
EarlyHeaderFields == {"ws-opts/early_data_header_name", "transport/early_data_header_name"}

websocket_early_data(c) ==
  [max |-> Resolved(c, EarlyMaxFields, EarlyMax),
   header |-> Resolved(c, EarlyHeaderFields, EarlyHeader)]

(* A header name that is a token needs a positive length with it.          *)
has_valid_early_data(t) ==
  t["kind"] = "ws" /\ Has(t, "header") => Has(t, "max") /\ t["header"] \notin {"b", "blank", "u"}

Network(c) == get_string(c, <<"network", "net", "transport/type">>)
Default(o, d) == IF IsSome(o) THEN o ELSE Some(d)

Websocket(c, early) ==
  Collect([kind |-> Good(Some("ws")),
           path |-> Good(Default(get_string(c, <<"ws-opts/path", "transport/path", "path">>), "a")),
           host |-> Good(get_string(c, <<"ws-opts/headers", "transport/headers", "host">>)),
           max |-> early.max, header |-> early.header])

Checked(ws) == IF ws.ok /\ has_valid_early_data(The(ws.val)) THEN ws ELSE Bad

Grpc(c) ==
  Collect([kind |-> Good(Some("grpc")),
           service |-> Good(Default(get_string(c, <<"grpc-opts/grpc-service-name", "transport/service_name">>), ""))])

TransportOf(c, network, early) ==
  IF ~early.max.ok \/ ~early.header.ok THEN Bad
  ELSE CASE network = Some("ws") -> Checked(Websocket(c, early))
         [] network = Some("grpc") -> Grpc(c)
         [] OTHER -> IF HasAny(c, EarlyMaxFields \cup EarlyHeaderFields)
                     THEN Bad ELSE Good(Some([kind |-> "tcp"]))

JsonTransport(c) == TransportOf(c, Network(c), websocket_early_data(c))

JsonTls(c) ==
  IF ~Has(c, "tls") THEN None
  ELSE Some(IF c["tls"] \in {"true", "on", "tls"} THEN "true" ELSE "false")

tls_server_name(c) == Agreeing(c, {"sni", "tls/server_name"}, valid_nonempty_string)

\* Mutant: the nested field is not read.
tls_allow_insecure_TopOnly(c) == OrElse(Agreeing(c, {"skip-cert-verify"}, valid_bool), "false")

tls_allow_insecure(c) ==
  OrElse(Agreeing(c, {"skip-cert-verify", "tls/insecure"}, valid_bool), "false")

tls_alpn(c) == Agreeing(c, {"alpn", "tls/alpn"}, valid_alpn)

tls_fingerprint(c) ==
  LET written == {c[k] : k \in {"client-fingerprint", "tls/utls"} \cap DOMAIN c} \ {"on", "off"}
  IN IF \/ Cardinality(written) > 1
        \/ Is(c, "tls/utls", "off") /\ IsSome(written)
        \/ Is(c, "tls/utls", "on") /\ written = None
     THEN Bad ELSE Good(written)

(* The public key and the short id come together: both are the value.      *)
tls_reality_fields(c) ==
  LET written == {c[k] : k \in {"reality-opts", "tls/reality"} \cap DOMAIN c} \ {"off"}
  IN IF Cardinality(written) > 1 THEN Bad ELSE Good(written)

TlsDetails(c) ==
  [server_name |-> tls_server_name(c), insecure |-> tls_allow_insecure(c),
   alpn |-> tls_alpn(c), utls |-> tls_fingerprint(c), reality |-> tls_reality_fields(c)]

NoDetail(t) == DOMAIN t = {"insecure"} /\ t["insecure"] = "false"

TlsWith(p, tls, details) ==
  LET on == tls = Some("true") \/ p = "hysteria2"
  IN IF \/ p = "hysteria2" /\ tls = Some("false")
        \/ ~details.ok
        \/ Has(The(details.val), "reality") /\ p # "vless"
        \/ ~on /\ ~NoDetail(The(details.val))
     THEN Bad
     ELSE Good(IF on THEN details.val ELSE None)

TlsOf(p, c) == TlsWith(p, JsonTls(c), Collect(TlsDetails(c)))

-----------------------------------------------------------------------------
(* draft_from_fields and its callers.                                      *)

Skipped(why) == [skip |-> why, draft |-> None]
Accepted(p, server, o, transport, tls) ==
  [skip |-> "none",
   draft |-> Some([proto |-> p, server |-> server, opt |-> o, transport |-> transport, tls |-> tls])]

validate_clash_protocol_metadata(p, c) ==
  /\ Has(c, "udp") => p \in {"vless", "hysteria2"} /\ c["udp"] = "true"
  /\ Has(c, "packet_encoding") => p = "vless" /\ c["packet_encoding"] = "xudp"
  /\ Has(c, "protocol") => p = "hysteria2" /\ c["protocol"] = "udp"
  /\ HasAny(c, {"benchmark-url", "benchmark-timeout"}) => p = "hysteria2"

validate_smux(p, c) == Has(c, "smux") => p = "vless" /\ c["smux"] \in {"off", "tcp"}

PortOf(c) ==
  IF Is(c, "port", "quoted") THEN Some("4")
  ELSE {c[k] : k \in (IF Has(c, "port") THEN {"port"} ELSE {"server_port"}) \cap DOMAIN c}
         \cap Numbers

Draft(p, c, server, o, transport, tls) ==
  IF /\ Required(get_string(c, <<"name", "tag", "ps">>)).ok
     /\ Required(server).ok
     /\ ~(PortOf(c) \subseteq {"0"})
     /\ validate_clash_protocol_metadata(p, c)
     /\ validate_smux(p, c)
     /\ o.ok
     /\ is_compatible_with(p, The(o.val))
     /\ transport.ok
     /\ tls.ok
  THEN IF Is(c, "smux", "tcp") THEN Skipped("UnsupportedOption")
       ELSE Accepted(p, The(server), The(o.val), The(transport.val), tls.val)
  ELSE Skipped("InvalidNode")

DraftOf(p, c) ==
  Draft(p, c, get_string(c, <<"server", "add">>), Collect(JsonOptions(p, c, JsonTls(c))),
        JsonTransport(c), TlsOf(p, c))

draft_from_fields(c) ==
  IF ~Has(c, "type") \/ protocol_from_name(c["type"]) = None THEN Skipped("UnsupportedProtocol")
  ELSE DraftOf(The(protocol_from_name(c["type"])), c)

FromObject(c) ==
  IF has_unknown_json_fields(c) \/ has_illegal_protocol_fields(c)
  THEN Skipped("InvalidNode") ELSE draft_from_fields(c)

(* The types sing-box outbounds use for themselves are no entries.         *)
IsBuiltin(c) == Has(c, "type") /\ c["type"] \in {"direct", "block", "dns", "selector", "urltest"}

parse_json_candidate(c) ==
  IF \E a \in Aliases(c) : ~move_alias(c, a) THEN Skipped("InvalidNode") ELSE FromObject(Moved(c))

-----------------------------------------------------------------------------
(* Share links.  A link is its scheme, whether its host, port and query    *)
(* can be split, the parts of its credentials at the colon, and its query. *)

(* Decoding takes every byte for a character, so text outside ASCII comes  *)
(* out as other text.                                                      *)
percent_decode(v) == IF v = "u" THEN "u as bytes" ELSE v

(* A query with a repeated key or one without a value cannot be split.     *)
parse_query(q) == [k \in DOMAIN q |-> percent_decode(q[k])]

CommonQuery == {"security", "sni", "allowInsecure", "type", "path", "host", "serviceName", "pbk", "sid"}

ProtocolQuery ==
  [[p \in Protocols |-> {}] EXCEPT
     !.socks = {"version"}, !.vless = {"flow"}, !.hysteria2 = {"obfs-password"},
     !.wireguard = {"peer_public_key", "publickey", "pre_shared_key", "presharedkey",
                    "local_address", "address", "mtu", "reserved"},
     !.hysteria = {"auth", "auth_str", "obfs", "up_mbps", "upmbps", "down_mbps", "downmbps"},
     !.tuic = {"congestion_control", "udp_relay_mode", "zero_rtt"},
     !.shadowtls = {"version"}, !.snell = {"version"},
     !.ssh = {"private_key", "private_key_passphrase", "host_key"}]

has_unknown_uri_query(p, q) == ~(DOMAIN q \subseteq CommonQuery \cup ProtocolQuery[p])
HasBlankQuery(q) == \E k \in DOMAIN q \ {"allowInsecure", "zero_rtt"} : ~Present(q[k])

query_get(q, ks) ==
  LET found == {i \in DOMAIN ks : Has(q, ks[i])}
  IN IF found = {} THEN None ELSE Some(q[ks[CHOOSE i \in found : \A j \in found : i <= j]])

required_query_string(q, ks) == Required(query_get(q, ks))
(* A list is split at its commas; "b" is a list that is not three bytes.   *)
query_string_list(q, ks) == Required(query_get(q, ks))
QueryAs(q, k, Accepts(_)) == IF Has(q, k) => Accepts(q[k]) THEN Good(query_get(q, <<k>>)) ELSE Bad
optional_query_u32(q, k) == QueryAs(q, k, valid_u32)
optional_query_u8(q, k) == QueryAs(q, k, IsU8)
optional_query_reserved(q) == QueryAs(q, "reserved", LAMBDA v : v = "a")
optional_query_bool(q, k) ==
  LET r == QueryAs(q, k, LAMBDA v : v \in {"0", "1"})
  IN [r EXCEPT !.val = {IF v = "1" THEN "true" ELSE "false" : v \in r.val}]
optional_query_u32_alias(q, ks) ==
  IF Cardinality(ks \cap DOMAIN q) > 1 THEN Bad
  ELSE IF HasAny(q, ks) THEN optional_query_u32(q, The(ks \cap DOMAIN q)) ELSE Good(None)

password_option(v) == IF v = "" THEN Bad ELSE Good(Some(v))

(* The credentials: the whole text, and its two parts when it has a colon. *)
Whole(l) == IF l.cred = <<>> THEN "" ELSE percent_decode(l.cred[1])
First(l) == Whole(l)
Second(l) == IF Len(l.cred) = 2 THEN percent_decode(l.cred[2]) ELSE ""
Split(l) == Len(l.cred) = 2
NonEmpty(v) == Good({v} \ {""})
Given(q, k) == Good(query_get(q, <<k>>))

parse_uri_options(p, l) ==
  LET q == l.query
      secret == password_option(Whole(l))
      user == IF Split(l) THEN NonEmpty(First(l)) ELSE Good(None)
      pass == IF Split(l) THEN NonEmpty(Second(l)) ELSE Good(None)
      split(r) == IF Split(l) THEN r ELSE Bad
  IN CASE p = "vless" -> [uuid |-> secret, flow |-> Given(q, "flow")]
       [] p = "shadowsocks" -> [method |-> split(Good(Some(First(l)))), password |-> split(Good(Some(Second(l))))]
       [] p = "socks" ->
            [version |-> Good(Some(IF Has(q, "version") /\ IsU8(q["version"]) THEN q["version"] ELSE "5")),
             username |-> user, password |-> pass]
       [] p = "http" -> [tls |-> Good(Some(IF l.scheme = "https" THEN "true" ELSE "false")),
                         username |-> user, password |-> pass]
       [] p \in {"trojan", "anytls"} -> [password |-> secret]
       [] p = "hysteria2" -> [password |-> secret, obfs |-> Given(q, "obfs-password")]
       [] p = "wireguard" ->
            [private_key |-> secret,
             peer_public_key |-> required_query_string(q, <<"peer_public_key", "publickey">>),
             pre_shared_key |-> Good(query_get(q, <<"pre_shared_key", "presharedkey">>)),
             local_addresses |-> query_string_list(q, <<"local_address", "address">>),
             mtu |-> optional_query_u32(q, "mtu"), reserved |-> optional_query_reserved(q)]
       [] p = "hysteria" ->
            [auth |-> Required(IF Whole(l) # "" THEN Some(Whole(l)) ELSE query_get(q, <<"auth", "auth_str">>)),
             obfs |-> Given(q, "obfs"),
             up_mbps |-> optional_query_u32_alias(q, {"up_mbps", "upmbps"}),
             down_mbps |-> optional_query_u32_alias(q, {"down_mbps", "downmbps"})]
       [] p = "tuic" ->
            [uuid |-> split(password_option(First(l))), password |-> split(password_option(Second(l))),
             congestion_control |-> Given(q, "congestion_control"),
             udp_relay_mode |-> Given(q, "udp_relay_mode"),
             zero_rtt |-> OrElse(optional_query_bool(q, "zero_rtt"), "false")]
       [] p = "shadowtls" -> [version |-> OrElse(optional_query_u8(q, "version"), "3"), password |-> secret]
       [] p = "ssh" ->
            [user |-> password_option(First(l)), password |-> NonEmpty(Second(l)),
             private_key |-> Given(q, "private_key"),
             private_key_passphrase |-> Given(q, "private_key_passphrase"),
             host_key |-> Given(q, "host_key")]
       [] p = "naive" -> [username |-> split(password_option(First(l))),
                          password |-> split(password_option(Second(l)))]
       [] p = "snell" -> [psk |-> secret, version |-> OrElse(optional_query_u8(q, "version"), "3")]

UriTlsProtocols == {"vmess", "vless", "trojan", "hysteria", "hysteria2", "tuic", "naive", "anytls"}
UriTlsByDefault == {"trojan", "hysteria", "hysteria2", "tuic", "naive"}

parse_uri_tls(p, q) ==
  LET insecure == Is(q, "allowInsecure", "1")
      named == Has(q, "sni")
      security == IF Has(q, "security") THEN q["security"] ELSE "unsaid"
      details == [server_name |-> Given(q, "sni"),
                  insecure |-> Good(Some(IF insecure THEN "true" ELSE "false"))]
  IN IF \/ HasAny(q, {"security", "sni", "allowInsecure", "pbk", "sid"}) /\ p \notin UriTlsProtocols
        \/ HasAny(q, {"pbk", "sid"}) /\ security # "reality"
        \/ Has(q, "allowInsecure") /\ q["allowInsecure"] \notin {"0", "1"}
     THEN Bad
     ELSE CASE security = "tls" -> Collect(details)
            [] security = "reality" ->
                 IF {"pbk", "sid"} \subseteq DOMAIN q
                 THEN Collect(details @@ [reality |-> Given(q, "pbk")]) ELSE Bad
            [] security = "unsaid" /\ p \in UriTlsByDefault -> Collect(details)
            [] security \in {"none", "unsaid"} /\ ~(security = "unsaid" /\ p \in UriTlsByDefault) ->
                 IF insecure \/ named THEN Bad ELSE Good(None)
            [] security \notin {"tls", "reality", "none", "unsaid"} -> Bad

parse_uri_transport(p, q) ==
  LET type == IF Has(q, "type") THEN q["type"] ELSE "tcp"
      only(ks) == ~HasAny(q, {"path", "host", "serviceName"} \ ks)
      of(r, ks) == IF only(ks) THEN Collect(r) ELSE Bad
  IN IF Has(q, "type") /\ p \notin {"vmess", "vless", "trojan"} THEN Bad
     ELSE CASE type = "tcp" -> of([kind |-> Good(Some("tcp"))], {})
            [] type = "ws" -> of([kind |-> Good(Some("ws")), path |-> OrElse(Given(q, "path"), "a"),
                                  host |-> Given(q, "host")], {"path", "host"})
            [] type = "grpc" -> of([kind |-> Good(Some("grpc")),
                                    service |-> OrElse(Given(q, "serviceName"), "")], {"serviceName"})
            [] type \notin {"tcp", "ws", "grpc"} -> Bad

(* The object inside a legacy vmess link.  A port or alterId written as a  *)
(* string of digits passes here; draft_from_fields then takes the port.    *)
has_invalid_legacy_vmess_fields(o) ==
  LET known == {"v", "ps", "add", "port", "id", "aid", "scy", "net", "type", "host", "path",
                "tls", "sni", "security", "pbk", "sid"}
      text(k) == Has(o, k) /\ valid_nonempty_string(o[k])
      textIfAny(k) == Has(o, k) => valid_nonempty_string(o[k])
      digits == (Numbers \cup {"quoted"})
  IN ~ /\ DOMAIN o \subseteq known
       /\ Is(o, "v", "2") /\ text("ps") /\ text("add") /\ text("id")
       /\ Has(o, "type") => o["type"] = "none"
       /\ Has(o, "port") /\ o["port"] \in digits \ {"0"}
       /\ Has(o, "aid") => o["aid"] \in digits
       /\ textIfAny("scy") /\ textIfAny("security") /\ textIfAny("sni")
       /\ Has(o, "tls") => o["tls"] \in {"", "tls"}
       /\ Has(o, "sni") => Is(o, "tls", "tls")
       /\ Has(o, "net")
       /\ \/ o["net"] = "tcp" /\ ~HasAny(o, {"path", "host"})
          \/ o["net"] = "ws" /\ text("path") /\ textIfAny("host")
          \/ o["net"] = "grpc" /\ text("path") /\ ~Has(o, "host")

LegacyObject(o) ==
  LET name == [k \in DOMAIN o |->
                 CASE k = "aid" -> "alter_id" [] k = "scy" -> "security"
                   [] k = "path" /\ o["net"] = "grpc" -> "grpc-opts/grpc-service-name"
                   [] OTHER -> k]
      kept == DOMAIN o \ ({"v", "type"} \cup (IF Is(o, "tls", "") THEN {"tls"} ELSE {})
                          \cup (IF Has(o, "scy") THEN {"security"} ELSE {}))
  IN [f \in {name[k] : k \in kept} \cup {"type"} |->
        IF f = "type" THEN "vmess" ELSE o[CHOOSE k \in kept : name[k] = f]]

LinkDraft(p, q, o, tls, transport) ==
  IF /\ ~has_unknown_uri_query(p, q)
     /\ ~HasBlankQuery(q)
     /\ o.ok
     /\ is_compatible_with(p, The(o.val))
     /\ tls.ok
     /\ transport.ok
  THEN Accepted(p, "a", The(o.val), The(transport.val), tls.val)
  ELSE Skipped("InvalidNode")

LinkAs(p, l, q) ==
  LinkDraft(p, q, Collect(parse_uri_options(p, [l EXCEPT !.query = q])), parse_uri_tls(p, q),
            parse_uri_transport(p, q))

parse_uri(l) ==
  IF protocol_from_name(l.scheme) = None THEN Skipped("UnsupportedProtocol")
  ELSE IF ~l.split THEN Skipped("InvalidNode")
  ELSE LinkAs(The(protocol_from_name(l.scheme)), l, parse_query(l.query))

-----------------------------------------------------------------------------
(* An entry is [form |-> "object", fields |-> ...] or [form |-> "link",    *)
(* scheme, split, cred, query].  The object of a legacy link has none of   *)
(* the spellings that are moved.                                           *)
IsLegacy(e) == e.form = "link" /\ e.scheme = "vmess"

Candidate(e) ==
  IF e.form = "link" /\ ~IsLegacy(e) THEN parse_uri(e)
  ELSE IF IsLegacy(e) /\ (~e.split \/ has_invalid_legacy_vmess_fields(e.query)) THEN Skipped("InvalidNode")
  ELSE parse_json_candidate(IF IsLegacy(e) THEN LegacyObject(e.query) ELSE e.fields)
=============================================================================
