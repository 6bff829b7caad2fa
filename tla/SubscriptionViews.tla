------------------------- MODULE SubscriptionViews -------------------------
(***************************************************************************)
(* What crosses the boundary between the subscription page and the         *)
(* application: the requests of the page, what the commands (commands.rs)  *)
(* and SubscriptionManager make of them, and how the page reads the        *)
(* answers (src/lib/subscriptions.ts).                                     *)
(*                                                                         *)
(* The words of a name or a description are told apart by what the checks  *)
(* ask of them: "long" is over the limit and "cut" is what is left of it,  *)
(* "tabbed" holds a control character, "" is blank.  An option of a        *)
(* request is a set with one element, or with none when it is left out.    *)
(***************************************************************************)
EXTENDS Naturals, Functions

CONSTANTS
  Nil,         \* an absent value
  Sites,        \* hosts and paths of source URLs
  MaxGen        \* largest configuration generation, 2^53 - 1 in the code

ASSUME MaxGenAssumption == MaxGen \in Nat \ {0}

\* The table f with v under k.
With(f, k, v) == [x \in DOMAIN f \cup {k} |-> IF x = k THEN v ELSE f[x]]

Or(option, default) == IF option = {} THEN default ELSE CHOOSE x \in option : TRUE

-----------------------------------------------------------------------------
(* What is stored *)

\* SubscriptionProxyMode, and the names the page uses.
ProxyModes == [Direct |-> "direct", System |-> "system", ManagedCore |-> "managedCore"]
ProxyMode(request) == CHOOSE m \in DOMAIN ProxyModes : ProxyModes[m] = request

\* RemoteRequestOptions and SubscriptionUpdatePolicy.  An interval is in days.
DefaultRequest == [ua |-> Nil, timeout |-> 30, proxy |-> "Direct", tls |-> TRUE]
DefaultPolicy == [auto |-> TRUE, interval |-> Nil]
ManualPolicy == [auto |-> FALSE, interval |-> Nil]

validate_user_agent(ua) == ua # ""
RequestValid(r) == r.timeout \in 5..120 /\ validate_user_agent(r.ua)
PolicyValid(p) == p.interval # Nil => p.interval >= 1

\* A URL is its site and whether a query follows.  A blank one is told apart from
\* one that validate_source_url refuses.
Url(site) == [site |-> site, query |-> TRUE]
UrlValid(url) == url.site \in Sites

\* Subscription::validate
SubscriptionValid(s) ==
  /\ s.desc \notin {"long", "tabbed"}
  /\ PolicyValid(s.policy)
  /\ IF s.url # Nil THEN s.request # Nil /\ RequestValid(s.request)
     ELSE s.request = Nil /\ s.policy = ManualPolicy

\* The part of AppState the page sees.  life, applied and switch are of the
\* observation record; applied is the subscription and generation of the core.
StateValid(app) ==
  /\ app.active \in DOMAIN app.subs \cup {Nil}
  /\ app.gen <= MaxGen
  /\ \A i \in DOMAIN app.subs : SubscriptionValid(app.subs[i])

-----------------------------------------------------------------------------
(* What is shown *)

safe_display_name(name) == CASE name = "long" -> "cut" [] name = "" -> "local" [] OTHER -> name

SourceKind(s) == IF s.url # Nil THEN "Remote" ELSE "Manual"
Kinds == [Remote |-> "remote", Manual |-> "manual"]

\* Mutant: only the subscription that runs is shown as active.
summary_for_Applied(app, i) ==
  LET s == app.subs[i]
  IN [id |-> i, name |-> safe_display_name(s.name), desc |-> s.desc, kind |-> SourceKind(s),
      auto |-> s.policy.auto, interval |-> s.policy.interval,
      active |-> app.applied # Nil /\ app.applied.id = i,
      gen |-> IF app.active = i THEN app.gen ELSE Nil, shareable |-> s.url # Nil]

summary_for(app, i) ==
  LET s == app.subs[i]
  IN [id |-> i, name |-> safe_display_name(s.name), desc |-> s.desc, kind |-> SourceKind(s),
      auto |-> s.policy.auto, interval |-> s.policy.interval, active |-> app.active = i,
      gen |-> IF app.active = i THEN app.gen ELSE Nil, shareable |-> s.url # Nil]
SubscriptionSummaryResponse(x) == [x EXCEPT !.kind = Kinds[@]]

\* safe_url_preview keeps the origin and the path.
safe_url_preview(url) == [url EXCEPT !.query = FALSE]

settings_for(app, i) ==
  LET s == app.subs[i]
  IN [id |-> i, name |-> safe_display_name(s.name), desc |-> s.desc, kind |-> SourceKind(s),
      preview |-> IF s.url = Nil THEN Nil ELSE safe_url_preview(s.url),
      custom |-> s.request # Nil /\ s.request.ua # Nil,
      request |-> IF s.request = Nil THEN Nil
                  ELSE [timeout |-> s.request.timeout, proxy |-> s.request.proxy, tls |-> s.request.tls],
      policy |-> s.policy, shareable |-> s.url # Nil]
RemoteRequestSettingsResponse(r) == [r EXCEPT !.proxy = ProxyModes[@]]
SubscriptionSettingsResponse(x) ==
  [x EXCEPT !.kind = Kinds[@], !.request = IF @ = Nil THEN Nil ELSE RemoteRequestSettingsResponse(@)]

-----------------------------------------------------------------------------
(* Errors.  Serialization writes the names of a Rust enum in camel case, here by a *)
(* table.                                                                          *)

SubscriptionErrorCode ==
  [InvalidInput |-> "invalidInput", Busy |-> "busy", FetchFailed |-> "fetchFailed",
   ParseFailed |-> "parseFailed", NormalizationFailed |-> "normalizationFailed",
   ValidationFailed |-> "validationFailed", SaveFailed |-> "saveFailed",
   StateUnavailable |-> "stateUnavailable", NotFound |-> "notFound",
   CacheUnavailable |-> "cacheUnavailable", IdentityFailed |-> "identityFailed",
   InvalidOptions |-> "invalidOptions", UnsupportedClashProviders |-> "unsupportedClashProviders",
   ProxyUnavailable |-> "proxyUnavailable", SystemProxyUnavailable |-> "systemProxyUnavailable",
   ReferenceConflict |-> "referenceConflict", NotShareable |-> "notShareable"]
ActivationError ==
  [InvalidInput |-> "invalidInput", IdentityFailed |-> "identityFailed", Busy |-> "busy",
   NotFound |-> "notFound", StateUnavailable |-> "stateUnavailable",
   SelectionConflict |-> "selectionConflict", ConfigurationFailed |-> "configurationFailed",
   SaveFailed |-> "saveFailed", StopFailed |-> "stopFailed", StartFailed |-> "startFailed",
   RecoveryRequired |-> "recoveryRequired", StateChanged |-> "stateChanged"]
DocumentOperationError ==
  [InvalidInput |-> "invalidInput", ContentTooLarge |-> "contentTooLarge",
   FormatFailed |-> "formatFailed", ParseFailed |-> "parseFailed",
   UnsupportedNodes |-> "unsupportedNodes",
   UnsupportedClashProviders |-> "unsupportedClashProviders",
   NormalizationFailed |-> "normalizationFailed", ValidationFailed |-> "validationFailed",
   DocumentConflict |-> "documentConflict", DocumentUnavailable |-> "documentUnavailable",
   NotFound |-> "notFound", StateUnavailable |-> "stateUnavailable", SaveFailed |-> "saveFailed",
   Busy |-> "busy", OperationTimedOut |-> "operationTimedOut"]

\* map_document_error keeps the names; the worker adds three of its own.
WorkerSaveError ==
  [ConfigurationFailed |-> "configurationFailed", IdentityFailed |-> "identityFailed",
   RecoveryRequired |-> "recoveryRequired"]
DocumentSaveError ==
  [e \in DOMAIN DocumentOperationError \cup DOMAIN WorkerSaveError |->
     IF e \in DOMAIN DocumentOperationError THEN DocumentOperationError[e] ELSE WorkerSaveError[e]]
DocumentApplyError ==
  [StopFailed |-> "stopFailed", StartFailed |-> "startFailed",
   RecoveryRequired |-> "recoveryRequired", OperationTimedOut |-> "operationTimedOut"]
RunningConfigurationError ==
  [NotRunning |-> "notRunning", RecoveryRequired |-> "recoveryRequired",
   ContentTooLarge |-> "contentTooLarge", Busy |-> "busy"]

\* map_access_error: the gate is held, or poisoned.
map_access_error == {"Busy", "StateUnavailable"}
\* map_url_error, map_fetch_error, clash_document_error and parse_content,
\* map_replacement_error.
map_url_error == {"InvalidInput"}
map_fetch_error == {"FetchFailed", "ProxyUnavailable", "SystemProxyUnavailable"}
parse_errors == {"ParseFailed", "UnsupportedClashProviders"}
map_replacement_error == {"ParseFailed", "ValidationFailed", "NormalizationFailed"}
FetchErrors == map_fetch_error \cup parse_errors \cup map_replacement_error \cup {"CacheUnavailable"}

\* What the same failures are called by the document commands.
map_document_access_error == {"Busy", "StateUnavailable"}
map_document_subscription_error ==
  [e \in DOMAIN SubscriptionErrorCode |->
     CASE e \in {"InvalidInput", "InvalidOptions"} -> "InvalidInput"
       [] e \in DOMAIN DocumentOperationError -> e
       [] OTHER -> "ValidationFailed"]
map_document_parse_error ==
  {"InvalidInput", "ContentTooLarge", "FormatFailed", "ParseFailed", "UnsupportedNodes",
   "UnsupportedClashProviders", "Busy", "OperationTimedOut"}
map_document_replacement_error == {"ParseFailed", "ValidationFailed", "NormalizationFailed", "SaveFailed"}

-----------------------------------------------------------------------------
(* The operations.  Each gives the set of its outcomes: the state it leaves, its *)
(* answer and whether it notifies the page.  A write is one step here; what may   *)
(* come between its reading and its saving is the subject of SubscriptionWrites,  *)
(* and shows up as Busy.                                                          *)

Err(table, e) == [status |-> "error", error |-> table[e], op |-> {}]
Ok(value) == [status |-> "ok", value |-> value]

Refusals(app, errors) ==
  {[app |-> app, answer |-> Err(SubscriptionErrorCode, e), event |-> FALSE] : e \in errors}
Answered(app, value) == {[app |-> app, answer |-> Ok(value), event |-> FALSE]}

\* Mutant: the page is not told.
Saved_Silent(app, next, i) ==
  Refusals(app, {"Busy", "StateUnavailable", "SaveFailed"})
    \cup (IF StateValid(next)
          THEN {[app |-> next, answer |-> Ok(SubscriptionSummaryResponse(summary_for(next, i))),
                 event |-> FALSE]}
          ELSE Refusals(app, {"ValidationFailed"}))

\* Before a save: begin_write_owned, the gate, ensure_commit_open.  An invalid
\* candidate is never saved.
Saved(app, next, i) ==
  Refusals(app, {"Busy", "StateUnavailable", "SaveFailed"})
    \cup (IF StateValid(next)
          THEN {[app |-> next, answer |-> Ok(SubscriptionSummaryResponse(summary_for(next, i))),
                 event |-> TRUE]}
          ELSE Refusals(app, {"ValidationFailed"}))

\* New nodes of the selected subscription raise the generation, new text may not
\* bring any.
next_generation(app) == [app EXCEPT !.gen = @ + 1]
WithContent(app, i) == {app} \cup (IF app.active = i THEN {next_generation(app)} ELSE {})

\* begin_write_owned, and the state that a write starts from.
Entered(app) == Refusals(app, {"Busy", "StateUnavailable"})

list(app) == Answered(app, [i \in DOMAIN app.subs |-> SubscriptionSummaryResponse(summary_for(app, i))])
               \cup Refusals(app, map_access_error)

get_settings(app, i) ==
  Refusals(app, map_access_error)
    \cup (IF i \in DOMAIN app.subs THEN Answered(app, SubscriptionSettingsResponse(settings_for(app, i)))
          ELSE Refusals(app, {"NotFound"}))

share_url(app, i) ==
  Refusals(app, map_access_error)
    \cup (IF i \notin DOMAIN app.subs THEN Refusals(app, {"NotFound"})
          ELSE IF app.subs[i].url = Nil THEN Refusals(app, {"NotShareable"})
          ELSE Answered(app, app.subs[i].url))

\* adopt_profile_interval: Profile-Update-Interval counts only where the user set none.
adopt_profile_interval(policy, profile) ==
  IF policy.auto /\ policy.interval = Nil THEN [policy EXCEPT !.interval = profile] ELSE policy
Profiles == {Nil, 1}

\* UpdatePolicyPatch, UserAgentEdit and RemoteRequestPatch.
apply_update_policy_patch(policy, patch) ==
  [auto |-> Or(patch.auto, policy.auto), interval |-> Or(patch.interval, policy.interval)]
UserAgentEdit(ua) == IF ua = "" THEN Nil ELSE ua

\* Mutant: a patch without user agent clears it.
apply_remote_patch_ClearsAgent(request, patch) ==
  [ua |-> UserAgentEdit(Or(patch.ua, "")), timeout |-> Or(patch.timeout, request.timeout),
   proxy |-> ProxyMode(Or(patch.proxy, ProxyModes[request.proxy])), tls |-> Or(patch.tls, request.tls)]

apply_remote_patch(request, patch) ==
  [ua |-> IF patch.ua = {} THEN request.ua ELSE UserAgentEdit(Or(patch.ua, "")),
   timeout |-> Or(patch.timeout, request.timeout),
   proxy |-> ProxyMode(Or(patch.proxy, ProxyModes[request.proxy])),
   tls |-> Or(patch.tls, request.tls)]

validate_name(name) == name \notin {"", "long"}
validate_description(desc) == desc \notin {"long", "tabbed"}
NamesValid(input) == (\A n \in input.name : validate_name(n)) /\ \A d \in input.desc : validate_description(d)

\* EditSubscription.  A manual subscription has no URL, request or policy to change.
NoEdit(i) == [id |-> i, name |-> {}, desc |-> {}, url |-> {}, request |-> {}, policy |-> {}]
Edited(s, input) ==
  [s EXCEPT !.name = Or(input.name, @), !.desc = Or(input.desc, @), !.url = Or(input.url, @),
            !.request = IF input.request = {} THEN @
                        ELSE apply_remote_patch(@, CHOOSE p \in input.request : TRUE),
            !.policy = IF input.policy = {} THEN @
                       ELSE apply_update_policy_patch(@, CHOOSE p \in input.policy : TRUE)]

edit(app, input) ==
  Entered(app) \cup
  IF input.id \notin DOMAIN app.subs THEN Refusals(app, {"NotFound"})
  ELSE LET i == input.id
           s == app.subs[i]
           remote == input.url # {} \/ input.request # {} \/ input.policy # {}
       IN IF ~NamesValid(input) THEN Refusals(app, {"InvalidInput"})
          ELSE IF s.url = Nil /\ remote THEN Refusals(app, {"InvalidOptions"})
          ELSE IF \E u \in input.url : ~UrlValid(u) THEN Refusals(app, map_url_error)
          ELSE IF remote /\ ~(RequestValid(Edited(s, input).request) /\ PolicyValid(Edited(s, input).policy))
          THEN Refusals(app, {"InvalidOptions"})
          ELSE IF Edited(s, input).url # s.url
          THEN Refusals(app, FetchErrors)
                 \cup UNION {Saved(app, next, i) :
                        next \in UNION {WithContent(
                          [app EXCEPT !.subs[i] = [Edited(s, input) EXCEPT
                                                     !.policy = adopt_profile_interval(@, p)]], i) :
                            p \in Profiles}}
          ELSE Saved(app, [app EXCEPT !.subs[i] = Edited(s, input)], i)

\* update_with_route: remote without text, or manual with one.
update_with_route(app, i, text) ==
  Entered(app) \cup
  IF i \notin DOMAIN app.subs THEN Refusals(app, {"NotFound"})
  ELSE IF (app.subs[i].url = Nil) # (text # Nil) THEN Refusals(app, {"InvalidInput"})
  ELSE Refusals(app, IF text = Nil THEN FetchErrors ELSE parse_errors \cup map_replacement_error)
         \cup UNION {Saved(app, next, i) :
                next \in UNION {WithContent([app EXCEPT !.subs[i].policy = adopt_profile_interval(@, p)], i) :
                                  p \in IF text = Nil THEN Profiles ELSE {Nil}}}

\* RemoteImportOptions; x is the random identity.
Imported(input, policy) ==
  [name |-> input.name, desc |-> input.desc, url |-> input.url,
   request |-> IF input.url = Nil THEN Nil
               ELSE [ua |-> Or(input.options.ua, Nil), timeout |-> input.options.timeout,
                     proxy |-> ProxyMode(input.options.proxy), tls |-> input.options.tls],
   policy |-> policy]

import_with_options(app, input, x) ==
  LET policy == IF input.url = Nil THEN ManualPolicy
                ELSE [auto |-> input.options.auto, interval |-> input.options.interval]
      sub == Imported(input, policy)
      commits == UNION {Saved(app, [app EXCEPT !.subs = With(@, x, Imported(input, p))], x) :
                          p \in IF input.url = Nil THEN {policy}
                                ELSE {adopt_profile_interval(policy, q) : q \in Profiles}}
  IN Entered(app) \cup
     IF ~validate_name(input.name) \/ ~validate_description(input.desc) THEN Refusals(app, {"InvalidInput"})
     ELSE IF input.url # Nil /\ ~UrlValid(input.url) THEN Refusals(app, map_url_error)
     ELSE IF input.url # Nil /\ ~(RequestValid(sub.request) /\ PolicyValid(policy))
     THEN Refusals(app, {"InvalidOptions"})
     ELSE IF x \in DOMAIN app.subs THEN Refusals(app, {"IdentityFailed"})
     ELSE commits \cup Refusals(app, FetchErrors \cup {"IdentityFailed"})

\* delete, under with_runtime_state: the selected subscription goes only while
\* nothing runs.  Another pool or a route may still refer to it.
Deleted(app, i) ==
  LET rest == [app EXCEPT !.subs = Restrict(@, DOMAIN @ \ {i})]
  IN IF app.active = i THEN next_generation([rest EXCEPT !.active = Nil]) ELSE rest

delete(app, i) ==
  Refusals(app, {"Busy", "StateUnavailable", "SaveFailed", "ReferenceConflict"})
    \cup (IF i \notin DOMAIN app.subs THEN Refusals(app, {"NotFound"})
          ELSE IF app.active = i /\ app.life # "stopped" THEN {}
          ELSE IF ~StateValid(Deleted(app, i)) THEN Refusals(app, {"ValidationFailed"})
          ELSE {[app |-> Deleted(app, i), answer |-> Ok(i), event |-> TRUE]})

=============================================================================
