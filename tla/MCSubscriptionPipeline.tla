----------------------- MODULE MCSubscriptionPipeline -----------------------
(***************************************************************************)
(* The texts of the small instance: one entry for every protocol, in every *)
(* spelling, with the TLS, transport and option fields varied one group at *)
(* a time, and a few documents of several entries.                         *)
(***************************************************************************)
EXTENDS SubscriptionPipeline

Nothing == [k \in {} |-> k]

Addressed(type) == [type |-> type, name |-> "a", server |-> "a", port |-> "4"]

(* Options an entry of each kind needs. *)
Needed ==
  [socks |-> Nothing, http |-> Nothing, https |-> [username |-> "a", password |-> "a"],
   ss |-> [cipher |-> "a", password |-> "a"], vmess |-> [uuid |-> "a"], vless |-> [uuid |-> "a"],
   trojan |-> [password |-> "a"],
   wg |-> ("private-key" :> "a" @@ "peer_public_key" :> "a" @@ "local_address" :> "a"),
   hysteria |-> [auth |-> "a", up_mbps |-> "1", down_mbps |-> "3"],
   hy2 |-> [auth |-> "a"], hysteria2 |-> [password |-> "a"],
   tuic |-> [uuid |-> "a", password |-> "a"], shadowtls |-> [password |-> "a", version |-> "3"],
   ssh |-> [user |-> "a", password |-> "a"], naive |-> [username |-> "a", password |-> "a"],
   anytls |-> [password |-> "a"], snell |-> [psk |-> "a", version |-> "4"]]

Tls ==
  {Nothing, [tls |-> "true"], [tls |-> "false"], [tls |-> "tls"], [tls |-> "off"], [tls |-> "true", sni |-> "a"],
   [tls |-> "true", servername |-> "a", alpn |-> "b"], [tls |-> "true", servername |-> "a", sni |-> "b"],
   [tls |-> "false", sni |-> "a"], [sni |-> "a"], "skip-cert-verify" :> "true",
   "tls" :> "true" @@ "skip-cert-verify" :> "true", "tls" :> "true" @@ "insecure" :> "true",
   "tls" :> "on" @@ "tls/server_name" :> "a" @@ "sni" :> "a",
   "tls" :> "on" @@ "tls/server_name" :> "a" @@ "sni" :> "b",
   "tls" :> "on" @@ "tls/insecure" :> "true", "tls" :> "off" @@ "tls/insecure" :> "true",
   "tls" :> "on" @@ "tls/insecure" :> "true" @@ "skip-cert-verify" :> "false",
   "tls" :> "on" @@ "tls/alpn" :> "a" @@ "alpn" :> "a",
   "tls" :> "true" @@ "client-fingerprint" :> "chrome",
   "tls" :> "on" @@ "tls/utls" :> "firefox" @@ "client-fingerprint" :> "chrome",
   "tls" :> "on" @@ "tls/utls" :> "off" @@ "client-fingerprint" :> "chrome",
   "tls" :> "on" @@ "tls/utls" :> "on" @@ "client-fingerprint" :> "chrome",
   "tls" :> "true" @@ "reality-opts" :> "a",
   "tls" :> "on" @@ "tls/reality" :> "a" @@ "client-fingerprint" :> "chrome",
   "tls" :> "on" @@ "tls/reality" :> "off" @@ "reality-opts" :> "a", "reality-opts" :> "a"}

Transports ==
  {[network |-> "tcp"], [network |-> "ws"], [net |-> "ws", host |-> "a", path |-> "b"], [network |-> "grpc"],
   "network" :> "grpc" @@ "grpc-opts/grpc-service-name" :> "a",
   "transport/type" :> "ws" @@ "transport/path" :> "a" @@ "transport/headers" :> "b",
   "transport/type" :> "grpc" @@ "transport/service_name" :> "a",
   "transport/type" :> "grpc" @@ "transport/path" :> "a", "transport/path" :> "a",
   "network" :> "ws" @@ "ws-opts/path" :> "a" @@ "ws-opts/headers" :> "a",
   "network" :> "ws" @@ "ws-opts/headers" :> "other",
   "network" :> "ws" @@ "ws-opts/max-early-data" :> "4" @@ "ws-opts/early-data-header-name" :> "a",
   "network" :> "ws" @@ "ws-opts/max_early_data" :> "0" @@ "ws-opts/early_data_header_name" :> "a",
   "network" :> "ws" @@ "ws-opts/max_early_data" :> "4" @@ "transport/max_early_data" :> "3",
   "network" :> "tcp" @@ "ws-opts/max_early_data" :> "0"}

Options ==
  [socks |-> {[version |-> "quoted"], [version |-> "300"], [version |-> "null"],
              [username |-> "a", password |-> "b"], [username |-> "a"], [password |-> ""], [psk |-> "a"]},
   http |-> {[username |-> "a", password |-> "u"], [username |-> "a", password |-> "blank"]},
   https |-> {}, ss |-> {[method |-> "b"], [password |-> ""]},
   vmess |-> {[alterId |-> "0"], [alter_id |-> "quoted"], [cipher |-> "a"], [cipher |-> "a", security |-> "b"],
              [uuid |-> "b"], [id |-> "b"], [flow |-> "vision"]},
   vless |-> {[flow |-> "vision"], [flow |-> "", udp |-> "true"], [flow |-> "a"], [udp |-> "false"],
              [packet_encoding |-> "xudp", smux |-> "off"], [smux |-> "tcp"], [smux |-> "on"]},
   trojan |-> {[password |-> "blank"]},
   wg |-> {"private_key" :> "a", "pre-shared-key" :> "a" @@ "mtu" :> "300" @@ "reserved" :> "a",
           "reserved" :> "null", "peer_public_key" :> "b", "local-addresses" :> "b"},
   hysteria |-> {"auth-str" :> "b", "obfs" :> "a", "up-mbps" :> "1", "down_mbps" :> "0"},
   hy2 |-> {"up" :> "3" @@ "up-speed" :> "3" @@ "down" :> "1", "up" :> "3" @@ "up-mbps" :> "1",
            "password" :> "b", "disable_mtu_discovery" :> "true" @@ "obfs" :> "a",
            "protocol" :> "udp" @@ "benchmark-url" :> "a" @@ "benchmark-timeout" :> "1"},
   hysteria2 |-> {"insecure" :> "true", "insecure" :> "true" @@ "skip-cert-verify" :> "false"},
   tuic |-> {"congestion-control" :> "a" @@ "zero-rtt" :> "true", "udp_relay_mode" :> "b", "uuid" :> "b"},
   shadowtls |-> {[version |-> "1"], [version |-> "4"]},
   ssh |-> {"private-key" :> "a" @@ "private_key_passphrase" :> "a", "private_key_passphrase" :> "a",
            "username" :> "b" @@ "host_key" :> "a", "password" :> ""},
   naive |-> {[password |-> ""]}, anytls |-> {[server |-> "b"], [port |-> "0"]},
   snell |-> {[version |-> "3"], [version |-> "0"], [name |-> "blank"]}]

Object(kind, more) == [form |-> "object", fields |-> more @@ Needed[kind] @@ Addressed(kind)]
Secure(kind) == IF kind \in {"trojan", "hysteria", "tuic", "shadowtls", "naive", "anytls"} THEN [tls |-> "true"] ELSE Nothing

Objects ==
  UNION {{Object(k, t) : t \in Tls} \cup {Object(k, o @@ Secure(k)) : o \in Options[k]} : k \in DOMAIN Needed}
  \cup {Object(k, t @@ Secure(k)) : k \in {"vmess", "vless", "trojan", "ss"}, t \in Transports}
  \cup {[form |-> "object", fields |-> Addressed("mieru")]}

Link(scheme, cred, query) == [form |-> "link", scheme |-> scheme, split |-> TRUE, cred |-> cred, query |-> query]

Queries ==
  {Nothing, [security |-> "tls"], [security |-> "none"], [security |-> "none", sni |-> "a"], [security |-> "xtls"],
   [security |-> "tls", sni |-> "a", allowInsecure |-> "1"], [sni |-> "a"], [allowInsecure |-> "1"],
   [security |-> "tls", allowInsecure |-> "0"], [security |-> "reality", pbk |-> "a", sid |-> "a"],
   [security |-> "reality", pbk |-> "a"], [security |-> "tls", pbk |-> "a"], [security |-> ""],
   [type |-> "ws", path |-> "a", host |-> "a"], [type |-> "grpc", serviceName |-> "a"],
   [type |-> "tcp", path |-> "a"], [type |-> "h2"], [sni |-> "u"], [flow |-> "vision", security |-> "tls"],
   [version |-> "4"], [version |-> "1"], "obfs-password" :> "a", [unknown |-> "a"]}

Links ==
  {Link(s, <<"a", "a">>, q) : s \in {"socks5", "http", "https", "ss", "tuic", "naive+https", "ssh"}, q \in Queries}
  \cup {Link(s, <<"a">>, q) : s \in {"vless", "trojan", "hy2", "any_tls", "snell", "shadowtls", "hysteria"}, q \in Queries}
  \cup {Link("ss", <<"a">>, Nothing), Link("vless", <<>>, Nothing), Link("trojan", <<"u">>, Nothing),
        Link("hysteria", <<>>, [auth |-> "a", up_mbps |-> "1", downmbps |-> "3"]),
        Link("wg", <<"a">>, [publickey |-> "a", address |-> "a", reserved |-> "a"]),
        Link("wg", <<"a">>, [publickey |-> "a"]), Link("mieru", <<"a">>, Nothing),
        [Link("vless", <<"a">>, Nothing) EXCEPT !.split = FALSE]}

Legacy ==
  LET o == "v" :> "2" @@ "ps" :> "a" @@ "add" :> "a" @@ "id" :> "a" @@ "port" :> "quoted" @@ "net" :> "tcp"
  IN {Link("vmess", <<>>, more @@ o) :
       more \in {Nothing, [tls |-> ""], [tls |-> "tls", sni |-> "a"], [sni |-> "a"], [aid |-> "0", scy |-> "a"],
                 [aid |-> "quoted"], [net |-> "ws", path |-> "a", host |-> "a"], [net |-> "ws"],
                 [net |-> "grpc", path |-> "a"], [net |-> "h2"], [scy |-> "a", security |-> "b"],
                 [tls |-> "tls", pbk |-> "a"], [type |-> "http"]}}

Text(layers, syntax, entries) == [layers |-> layers, syntax |-> syntax, entries |-> entries]

Plain == Object("vless", [tls |-> "true"])
Unread == Object("vless", [flow |-> "a"])
Guard == Object("wg", Nothing)
Group == [form |-> "object", fields |-> [type |-> "selector", name |-> "a"]]

Several ==
  {Text(0, "outbounds", <<Group, Guard, Plain>>), Text(0, "yaml", <<Plain, Group, Unread>>),
   Text(1, "yaml", <<Guard, Unread, Plain>>), Text(2, "links", <<Link("vless", <<"a">>, Nothing)>>),
   Text(3, "links", <<Link("vless", <<"a">>, Nothing)>>), Text(0, "providers", <<>>), Text(0, "junk", <<>>),
   Text(0, "empty", <<>>), Text(0, "proxies", <<Unread>>)}

MCDocuments ==
  {Text(0, "proxies", <<e>>) : e \in Objects}
  \cup {Text(0, "links", <<e>>) : e \in Links \cup Legacy}
  \cup Several

(* What reading strips: credentials that are no text, and a transport that *)
(* is not known.                                                           *)
MCStripped ==
  {Text(0, "proxies", <<Object("socks", more)>>) :
     more \in {[username |-> "1", password |-> "3"], [username |-> "a", password |-> "b"]}}
  \cup {Text(0, "proxies", <<Object("vless", [network |-> n])>>) : n \in {"tcp", "ws", "grpc", "h2"}}

Pool(kind, selected) == [id |-> 1, kind |-> kind, members |-> {}, selected |-> selected]
Route(id, priority, target, enabled) ==
  [id |-> id, priority |-> priority, enabled |-> enabled, target |-> target, matcher |-> id]

MCShapes ==
  {[pools |-> {Pool("selector", {1})}, default |-> <<"pool", 1>>,
    routes |-> {Route(1, 4, <<"pool", 1>>, TRUE), Route(2, 1, <<"block">>, TRUE),
                Route(3, 1, <<"unconfigured">>, FALSE)}],
   [pools |-> {Pool("urltest", {})}, default |-> <<"direct">>, routes |-> {}],
   [pools |-> {}, default |-> <<"pool", 1>>, routes |-> {}]}

MCEditorTexts ==
  {[doc |-> Text(0, "proxies", <<Plain>>), format |-> "Json"],
   [doc |-> Text(0, "yaml", <<Plain, Unread>>), format |-> "ClashYaml"]}
=============================================================================
