------------------------ MODULE SubscriptionPipeline ------------------------
(***************************************************************************)
(* A subscription from its server to the configuration of the core: the    *)
(* request and its redirects (fetch.rs), the text and its entries          *)
(* (parser.rs), the configuration (compiler.rs), and beside them the       *)
(* editor, whose documents are checked by one bounded worker thread        *)
(* (document.rs).                                                          *)
(***************************************************************************)
EXTENDS CoreCompiler

CONSTANTS
  Documents,      \* texts a server or the user may deliver
  Shapes,         \* pools, routes and default target around the nodes
  Editors,        \* requests of the document editor
  EditorTexts,    \* what they send: [doc, format]
  MaxRedirects    \* MAX_REDIRECTS

TextFields == {"layers", "syntax", "entries"}
ASSUME TextsAssumption ==
  /\ \A d \in Documents : DOMAIN d = TextFields
  /\ \A t \in EditorTexts : DOMAIN t.doc = TextFields

VARIABLES
  fetch,     \* the request under way
  body,      \* the text that was delivered
  nodes,     \* what was read of it: drafts, skipped entries, or an error
  plan,      \* the compiled document, before and after the secret is bound
  working,   \* DOCUMENT_WORK_IN_PROGRESS
  thread,    \* worker thread of each editor request
  editor     \* what each editor waits for

vars == <<fetch, body, nodes, plan, working, thread, editor>>

-----------------------------------------------------------------------------
(* Fetch.  A URL is a scheme and a host; only loopback is asked over http. *)

Urls == {[scheme |-> "https", host |-> "a"], [scheme |-> "https", host |-> "b"],
         [scheme |-> "http", host |-> "loopback"], [scheme |-> "http", host |-> "b"]}

\* Mutant: a redirect may leave https.
validate_url_Downgrades(u, initial) == u.scheme = "https" \/ u.host = "loopback"

validate_url(u, initial) ==
  /\ initial = "https" => u.scheme = "https"
  /\ u.scheme = "https" \/ u.host = "loopback"

origin(u) == u

Quiet == [at |-> "idle"]

(* sent: the origins the validators were sent to; kept: the origin of the  *)
(* validators that come back with the result.                              *)
StartFetch(u, conditional) ==
  /\ fetch.at = "idle" /\ body = None
  /\ validate_url(u, "")
  /\ fetch' = [at |-> "asking", source |-> u, url |-> u, hops |-> 0, conditional |-> conditional,
               asked |-> {u.scheme}, kept |-> None,
               sent |-> IF conditional THEN {origin(u)} ELSE {}]
  /\ UNCHANGED <<body, nodes, plan, working, thread, editor>>

\* Mutant: the validators go along with every redirect.
Redirected_SendsValidators(u) ==
  [fetch EXCEPT !.url = u, !.hops = @ + 1, !.asked = @ \cup {u.scheme},
     !.sent = IF fetch.conditional THEN @ \cup {origin(u)} ELSE @]

\* Mutant: a redirect back to the source's origin starts the count again.
Redirected_StartsAgain(u) ==
  [fetch EXCEPT !.url = u, !.hops = IF origin(u) = origin(fetch.source) THEN 0 ELSE @ + 1,
     !.asked = @ \cup {u.scheme},
     !.sent = IF fetch.conditional /\ origin(u) = origin(fetch.source)
              THEN @ \cup {origin(u)} ELSE @]

Redirected(u) ==
  [fetch EXCEPT !.url = u, !.hops = @ + 1, !.asked = @ \cup {u.scheme},
     !.sent = IF fetch.conditional /\ origin(u) = origin(fetch.source)
              THEN @ \cup {origin(u)} ELSE @]

Redirect(u) ==
  /\ fetch.at = "asking"
  /\ fetch' = IF fetch.hops < MaxRedirects /\ validate_url(u, fetch.source.scheme)
              THEN Redirected(u) ELSE [fetch EXCEPT !.at = "failed"]
  /\ UNCHANGED <<body, nodes, plan, working, thread, editor>>

(* 200 or 304, by its headers: validators of another origin are dropped.   *)
Answer(at, validators) ==
  /\ fetch.at = "asking" /\ at \in {"modified", "unchanged"}
  /\ fetch' = [fetch EXCEPT !.at = at,
                 !.kept = IF validators /\ origin(fetch.url) = origin(fetch.source)
                          THEN {origin(fetch.url)} ELSE {}]
  /\ UNCHANGED <<body, nodes, plan, working, thread, editor>>

(* The chunks of the body, up to the last one.                             *)
ReadBody ==
  /\ fetch.at = "modified"
  /\ fetch' = [at |-> "received"]
  /\ UNCHANGED <<body, nodes, plan, working, thread, editor>>

(* Another status, a connection error, a body too long or not UTF-8, or    *)
(* the total timeout.                                                      *)
FetchFails ==
  /\ fetch.at \in {"asking", "modified"}
  /\ fetch' = [fetch EXCEPT !.at = "failed"]
  /\ UNCHANGED <<body, nodes, plan, working, thread, editor>>

(* A text comes from the server, or from a file or the clipboard.          *)
Deliver ==
  /\ fetch.at = "received" \/ (fetch.at = "idle" /\ body = None)
  /\ fetch' = Quiet
  /\ \E d \in Documents : body' = Some(d)
  /\ UNCHANGED <<nodes, plan, working, thread, editor>>

-----------------------------------------------------------------------------
(* Reading the text.  A text is [layers, syntax, entries]: base64 wrapped  *)
(* layers times around a syntax.                                           *)

MAX_BASE64_DEPTH == 2

ParseError(why) == [error |-> why, format |-> "none", drafts |-> <<>>, skipped |-> <<>>, taken |-> <<>>]

Entries(d) ==
  IF d.syntax = "outbounds" THEN SelectSeq(d.entries, LAMBDA e : ~IsBuiltin(e.fields)) ELSE d.entries

SubscriptionFormat(d) ==
  IF d.layers > 0 THEN "Base64"
  ELSE CASE d.syntax = "yaml" -> "ClashYaml" [] d.syntax = "links" -> "UriList" [] OTHER -> "Json"

(* results: the entries with what became of each; taken keeps the entries  *)
(* of the drafts for the properties.                                       *)
ParseResult(d, results) ==
  LET taken == SelectSeq(results, LAMBDA r : r.is.skip = "none")
      left == SelectSeq(results, LAMBDA r : r.is.skip # "none")
  IN [error |-> "none", format |-> SubscriptionFormat(d),
      drafts |-> [i \in DOMAIN taken |-> The(taken[i].is.draft)],
      skipped |-> [i \in DOMAIN left |-> left[i].is.skip],
      taken |-> [i \in DOMAIN taken |-> taken[i].of]]

parse_json_candidates(d, entries) ==
  ParseResult(d, [i \in DOMAIN entries |-> [of |-> entries[i], is |-> Candidate(entries[i])]])

parse_subscription(d) ==
  IF d.layers > MAX_BASE64_DEPTH \/ d.syntax = "providers" THEN ParseError("UnsupportedInput")
  ELSE CASE d.syntax = "empty" -> ParseError("EmptyInput")
         [] d.syntax = "junk" -> ParseError("InvalidBase64")
         [] OTHER -> parse_json_candidates(d, Entries(d))

Read ==
  /\ body # None /\ nodes = None
  /\ nodes' = Some(parse_subscription(The(body)))
  /\ UNCHANGED <<fetch, body, plan, working, thread, editor>>

-----------------------------------------------------------------------------
(* Compiling what was read, with the pools and routes of a shape.          *)

Intent(s) ==
  LET ds == The(nodes).drafts
  IN [nodes |-> {[id |-> i, proto |-> ds[i].proto, server |-> ds[i].server, opt |-> ds[i].opt,
                  tls |-> ds[i].tls, transport |-> {ds[i].transport}] : i \in DOMAIN ds},
      pools |-> {[p EXCEPT !.members = DOMAIN ds] : p \in s.pools},
      routes |-> s.routes, default |-> s.default]

Compile(s) ==
  /\ nodes # None /\ The(nodes).drafts # <<>> /\ plan.at = "none"
  /\ \E doc \in {compile(Intent(s))} :
       plan' = IF doc = None THEN [at |-> "refused", shape |-> s]
               ELSE [at |-> "compiled", shape |-> s, doc |-> The(doc)]
  /\ UNCHANGED <<fetch, body, nodes, working, thread, editor>>

Finalize ==
  /\ plan.at = "compiled"
  /\ \E doc \in {finalize(plan.doc)} :
       plan' = IF doc = None THEN [plan EXCEPT !.at = "unfinished"]
               ELSE [plan EXCEPT !.at = "final", !.doc = The(doc)]
  /\ UNCHANGED <<fetch, body, nodes, working, thread, editor>>

-----------------------------------------------------------------------------
(* The editor's documents: a JSON or YAML text, no entry of which may be   *)
(* skipped.                                                                *)

IsSyntax(d, format) ==
  IF format = "Json" THEN d.layers = 0 /\ d.syntax \in {"outbounds", "proxies", "providers"}
  ELSE d.syntax # "junk"

DocumentVerdict(d, format, r) ==
  IF ~IsSyntax(d, format) THEN "FormatFailed"
  ELSE IF d.layers = 0 /\ d.syntax = "providers" THEN "UnsupportedClashProviders"
  ELSE IF r.error # "none" \/ r.format # format \/ r.drafts = <<>> THEN "ParseFailed"
  ELSE IF r.skipped # <<>> THEN "UnsupportedNodes" ELSE "accepted"

parse_exact_document(d, format) == DocumentVerdict(d, format, parse_subscription(d))

Waiting(t) == Some(t)

(* run_bounded takes the flag and starts a thread; an empty text, a taken  *)
(* flag or a thread that cannot start is answered at once.                 *)
AskEditor(r, t) ==
  /\ editor[r] = None /\ thread[r] = "none" /\ t.doc.syntax # "empty" /\ ~working
  /\ working' = TRUE
  /\ thread' = [thread EXCEPT ![r] = "running"]
  /\ editor' = [editor EXCEPT ![r] = Waiting(t)]
  /\ UNCHANGED <<fetch, body, nodes, plan>>

\* Mutant: the flag is freed by the caller, which may be gone.
WorkDone_KeepsFlag(r) ==
  /\ thread[r] = "running"
  /\ thread' = [thread EXCEPT ![r] = "done"]
  /\ working' = (editor[r] = None)
  /\ UNCHANGED <<fetch, body, nodes, plan, editor>>

(* The thread drops its guard, then sends. *)
WorkDone(r) ==
  /\ thread[r] = "running"
  /\ thread' = [thread EXCEPT ![r] = "done"]
  /\ working' = FALSE
  /\ UNCHANGED <<fetch, body, nodes, plan, editor>>

\* Mutant: the thread ends without an answer.
WorkSent_Silent(r) ==
  /\ thread[r] = "done"
  /\ thread' = [thread EXCEPT ![r] = "none"]
  /\ UNCHANGED <<fetch, body, nodes, plan, working, editor>>

(* A document that is accepted is saved, unless another text came first.   *)
WorkSent(r) ==
  /\ thread[r] = "done"
  /\ thread' = [thread EXCEPT ![r] = "none"]
  /\ editor' = [editor EXCEPT ![r] = None]
  /\ body' = IF /\ body = None /\ fetch.at = "idle"
                /\ \E t \in editor[r] : parse_exact_document(t.doc, t.format) = "accepted"
             THEN {t.doc : t \in editor[r]} ELSE body
  /\ UNCHANGED <<fetch, nodes, plan, working>>

\* Mutant: the caller that gives up frees the flag.
TimeOut_FreesFlag(r) ==
  /\ editor[r] # None
  /\ editor' = [editor EXCEPT ![r] = None]
  /\ working' = FALSE
  /\ UNCHANGED <<fetch, body, nodes, plan, thread>>

(* The caller gives up after five seconds; the thread goes on.             *)
TimeOut(r) ==
  /\ editor[r] # None
  /\ editor' = [editor EXCEPT ![r] = None]
  /\ UNCHANGED <<fetch, body, nodes, plan, working, thread>>

-----------------------------------------------------------------------------
Init ==
  /\ fetch = Quiet /\ body = None /\ nodes = None /\ plan = [at |-> "none"]
  /\ working = FALSE
  /\ thread = [r \in Editors |-> "none"]
  /\ editor = [r \in Editors |-> None]

FetchStep ==
  \/ \E u \in Urls, c \in BOOLEAN : StartFetch(u, c)
  \/ \E u \in Urls : Redirect(u)
  \/ \E at \in {"modified", "unchanged"}, v \in BOOLEAN : Answer(at, v)
  \/ ReadBody
  \/ FetchFails

Next ==
  \/ FetchStep
  \/ Deliver
  \/ Read
  \/ \E s \in Shapes : Compile(s)
  \/ Finalize
  \/ \E r \in Editors, t \in EditorTexts : AskEditor(r, t)
  \/ \E r \in Editors : WorkDone(r) \/ WorkSent(r) \/ TimeOut(r)

Spec == Init /\ [][Next]_vars

(* Every wait of a request ends, with an answer or by the client's         *)
(* timeout, and a worker thread ends its bounded work.                     *)
Fairness ==
  /\ WF_vars(fetch.at # "idle" /\ FetchStep)
  /\ \A r \in Editors : WF_vars(WorkDone(r))

FairSpec == Spec /\ Fairness

-----------------------------------------------------------------------------
(* Properties.                                                             *)

(* Types: a request, a text, what was read, a plan and the worker's state. *)
TypeOK ==
  /\ fetch.at \in {"idle", "asking", "modified", "received", "unchanged", "failed"}
  /\ \A d \in body : DOMAIN d = TextFields
  /\ Cardinality(body) <= 1 /\ Cardinality(nodes) <= 1
  /\ plan.at \in {"none", "refused", "compiled", "unfinished", "final"}
  /\ working \in BOOLEAN
  /\ thread \in [Editors -> {"none", "running", "done"}]
  /\ editor \in [Editors -> SUBSET EditorTexts]
  /\ \A r \in Editors : editor[r] # None => thread[r] # "none"

(* The entries that became nodes, in the order of their ids, and what such *)
(* an entry says at any of the places that mean the same.                  *)
Taken == The(nodes).taken
Says(e) == IF e.form = "link" THEN e.query ELSE e.fields
Written(e, ks) == {Says(e)[k] : k \in ks \cap DOMAIN Says(e)}
KindOf(e) == IF e.form = "link" THEN e.scheme ELSE e.fields["type"]

AsksForTls(e) ==
  \/ KindOf(e) \in {"https", "hysteria2", "hy2"}
  \/ Written(e, {"tls"}) \cap {"true", "on", "tls"} # {}
  \/ e.form = "link" /\ Written(e, {"security"}) \cap {"tls", "reality"} # {}

(* TLS in the configuration is what the entry wrote, whichever of the      *)
(* spellings it used: an entry that asks for TLS never runs without it,    *)
(* the server name, ALPN, fingerprint and Reality keys are the written     *)
(* ones, none lost and none made up, and certificates go unverified only   *)
(* where the entry says so (parser.rs, tls_* and parse_uri_tls; compiler.rs, *)
(* core_tls).                                                              *)
TlsAsWritten ==
  plan.at \in {"compiled", "final"} =>
    \A i \in DOMAIN plan.doc.outbounds :
      LET b == plan.doc.outbounds[i]
          e == Taken[b.tag[2]]
          same(t, k, ks, ignored) ==
            (IF Has(t, k) THEN {t[k]} ELSE {}) \ ignored = Written(e, ks) \ ignored
      IN /\ AsksForTls(e) => IsSome(b.tls)
         /\ \A t \in b.tls :
              /\ same(t, "server_name", {"sni", "servername", "tls/server_name"}, {})
              /\ same(t, "alpn", {"alpn", "tls/alpn"}, {})
              /\ same(t, "utls", {"client-fingerprint", "tls/utls"}, {"any", "on", "off"})
              /\ same(t, "reality", {"reality-opts", "tls/reality", "pbk"}, {"off"})
              /\ t["insecure"] = "true" <=>
                   Written(e, {"skip-cert-verify", "insecure", "tls/insecure", "allowInsecure"})
                     \cap {"true", "1"} # {}

(* The document check refuses nothing that compile builds out of nodes,    *)
(* pools and routes that are valid by themselves: what validate_node       *)
(* accepts, the core's form of it and the node read back out of that form  *)
(* agree (compiler.rs, compile, domain and validate_standard).             *)
CompilerAgreesWithItself ==
  /\ plan.at = "refused" => Refused(Intent(plan.shape))
  /\ plan.at # "unfinished"

(* Every node can be read back out of the configuration as it was          *)
(* compiled; only a TCP transport is left unsaid (compiler.rs, domain).    *)
ReadsBackTheSame ==
  plan.at \in {"compiled", "final"} =>
    \A n \in Intent(plan.shape).nodes :
      \/ \E i \in DOMAIN plan.doc.endpoints : Endpoint_domain(plan.doc.endpoints[i]).opt = n.opt
      \/ \E i \in DOMAIN plan.doc.outbounds :
           LET m == CoreOutbound_domain(plan.doc.outbounds[i])
           IN /\ m.id = n.id /\ m.proto = n.proto /\ m.server = n.server /\ m.opt = n.opt
              /\ m.transport \cup {[kind |-> "tcp"]} = n.transport \cup {[kind |-> "tcp"]}
              /\ n.tls # None => m.tls = n.tls

(* What is compiled passes the compiler's own checks and reads back as it  *)
(* was.                                                                    *)
CompilesAndReadsBack == CompilerAgreesWithItself /\ ReadsBackTheSame

(* Validators are sent to the origin of the subscription only, and only    *)
(* validators that came from it are kept, whatever the redirects were      *)
(* (fetch.rs, fetch_with_redirects).                                       *)
ValidatorsBelongToSource ==
  fetch.at \notin {"idle", "received"} => fetch.sent \cup fetch.kept \subseteq {origin(fetch.source)}

(* A subscription on https is never asked for, or redirected, over http.   *)
NeverDowngraded ==
  fetch.at \notin {"idle", "received"} /\ fetch.source.scheme = "https" => fetch.asked = {"https"}

(* However a server redirects, its subscription stays with it: no secret   *)
(* of the source goes elsewhere and nothing of it is asked in the clear.   *)
StaysWithSource == ValidatorsBelongToSource /\ NeverDowngraded

(* At most one document is worked on, also when callers gave up on theirs  *)
(* (document.rs, run_bounded).                                             *)
OneDocumentAtATime == Cardinality({r \in Editors : thread[r] = "running"}) <= 1

(* The editor's flag, its threads and its callers fit together.            *)
Consistent == TypeOK /\ OneDocumentAtATime

(* A request ends by the bound on its redirects alone, also when two       *)
(* servers redirect to each other (fetch.rs, fetch_with_redirects).        *)
FetchEnds == fetch.at = "asking" ~> fetch.at \in {"received", "unchanged", "failed", "idle"}

(* The editor is not busy for ever, also after callers gave up.            *)
EditorGetsFree == working ~> ~working

(* Neither a request nor the editor is under way for ever.                 *)
WorkEnds == FetchEnds /\ EditorGetsFree

(* What an entry writes about its credentials and its transport is part of *)
(* the node it becomes, or the entry is skipped.                           *)
NothingStripped ==
  \A n \in nodes : \A i \in DOMAIN n.drafts :
    LET e == Taken[i] d == n.drafts[i] IN
    /\ e.form = "object" =>
         \A k \in {"username", "password"} \cap DOMAIN e.fields : d.proto # "ssh" => Has(d.opt, k) \/ Has(d.opt, "psk")
    /\ Written(e, {"network", "net"}) \subseteq {d.transport["kind"]}

-----------------------------------------------------------------------------
(* The inductive invariant.                                                *)

(* A request, once it was asked and until its body is read, with what was  *)
(* asked and kept so far.                                                  *)
FetchRecords ==
  [at : {"asking", "modified", "unchanged", "failed"}, source : Urls, url : Urls, hops : Nat,
   conditional : BOOLEAN, asked : SUBSET {"http", "https"}, kept : SUBSET Urls, sent : SUBSET Urls]
FetchShape == fetch \in {Quiet, [at |-> "received"]} \cup FetchRecords

(* A plan has a document once it is compiled.                              *)
PlanShape == plan.at = "compiled" => DOMAIN plan = {"at", "shape", "doc"}

(* The flag is up as long as a thread works, and there is one such thread. *)
OneThread ==
  /\ \A r \in Editors : thread[r] = "running" => working
  /\ \A r, s \in Editors : thread[r] = "running" /\ thread[s] = "running" => r = s

(* At most one text, one result of reading it and one text of an editor.   *)
AtMostOne(S) == \A x, y \in S : x = y

IInv ==
  /\ Consistent
  /\ StaysWithSource
  /\ FetchShape
  /\ PlanShape
  /\ OneThread
  /\ AtMostOne(body) /\ AtMostOne(nodes)
  /\ \A r \in Editors : AtMostOne(editor[r])
=============================================================================
