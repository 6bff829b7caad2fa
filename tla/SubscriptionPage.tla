------------------------- MODULE SubscriptionPage -------------------------
(***************************************************************************)
(* The subscription page (src/components/subscriptions/SubscriptionPage    *)
(* .tsx) with the commands it calls.                                       *)
(*                                                                         *)
(* The page runs in one thread, but every command is a round trip: it is   *)
(* sent, the application carries it out, and its answer comes back while   *)
(* the user has gone on.  Answers of different commands come in any order; *)
(* those of list_subscriptions, which runs on the main thread, in theirs.  *)
(* The page allows one operation at a time (pendingOperation); a dialog    *)
(* has an identity, so that what was read for one does not end up in       *)
(* another; an activation that was accepted is over when the observation   *)
(* says so.                                                                *)
(*                                                                         *)
(* Around the page the scheduler updates subscriptions, the core is        *)
(* started, stopped and lost, and other operations take the worker.        *)
(***************************************************************************)
EXTENDS SubscriptionViews, Sequences, FiniteSets

CONSTANTS
  Ids,          \* ids of subscriptions
  FirstSub, SecondSub,  \* the ones that are there from the start; the first is also a site
  MaxActs,      \* bound on dialogs, operations, refused lists and what happens around
  MaxTouches    \* bound on the fields the user touches in a dialog

ASSUME BoundsAssumption ==
  /\ {FirstSub, SecondSub} \subseteq Ids /\ FirstSub # SecondSub /\ FirstSub \in Sites
  /\ {MaxActs, MaxTouches} \subseteq Nat
  /\ MaxGen >= 2   \* the generation that the runs start from

VARIABLES
  app,          \* what the application keeps: subs, active, gen, life, applied, switch
  work,         \* the activation the worker has, if any
  calls,        \* commands under way, list_subscriptions apart
  lists,        \* calls of list_subscriptions, oldest first
  seen,         \* the observation the page has
  page,         \* load, listed, pending, rest, removed, awaiting, doc, docEpoch
  dialog,       \* the dialog that is open, if any
  epoch,        \* dialogEpochRef
  used,         \* what is used of MaxActs
  stale,        \* the last list was refused, and the page kept the one before
  disturbed     \* the record of the activation the page waits for was overwritten

pageVars == <<app, work, calls, lists, seen, page, dialog, epoch, used, stale, disturbed>>

-----------------------------------------------------------------------------
(* How the page reads an answer *)

isSafeText(text, empty) == text \notin {"long", "tabbed"} /\ (text = "" => empty)
isNullableInterval(n) == n # Nil => n >= 1

parseSummary(x) ==
  /\ isSafeText(x.name, FALSE) /\ isSafeText(x.desc, TRUE)
  /\ x.kind \in {"remote", "manual"}
  /\ isNullableInterval(x.interval)
  /\ x.active <=> x.gen # Nil
  /\ x.interval # Nil => x.auto
  /\ x.kind = "manual" => ~x.auto /\ x.interval = Nil /\ ~x.shareable

parseSettings(x) ==
  /\ isSafeText(x.name, FALSE) /\ isSafeText(x.desc, TRUE)
  /\ x.kind \in {"remote", "manual"}
  /\ x.preview # Nil => ~x.preview.query
  /\ isNullableInterval(x.policy.interval)
  /\ x.request # Nil => x.request.timeout \in 5..120
                         /\ x.request.proxy \in {"direct", "system", "managedCore"}
  /\ x.kind = "remote" <=> x.request # Nil
  /\ x.policy.interval # Nil => x.policy.auto
  /\ x.kind = "manual" => x.preview = Nil /\ ~x.custom /\ ~x.policy.auto /\ ~x.shareable

subscriptionErrors ==
  {"invalidInput", "busy", "fetchFailed", "parseFailed", "normalizationFailed", "validationFailed",
   "saveFailed", "stateUnavailable", "notFound", "cacheUnavailable", "identityFailed",
   "invalidOptions", "unsupportedClashProviders", "systemProxyUnavailable", "proxyUnavailable",
   "referenceConflict", "notShareable"}
activationErrors ==
  {"invalidInput", "identityFailed", "busy", "notFound", "stateUnavailable", "selectionConflict",
   "configurationFailed", "saveFailed", "stopFailed", "startFailed", "recoveryRequired"}
documentMessages ==
  {"documentUnavailable", "documentConflict", "contentTooLarge", "formatFailed", "unsupportedNodes",
   "notRunning", "operationTimedOut"}

parseActivateResult(a) ==
  CASE a.status = "pending" -> TRUE
    [] a.status = "error" -> a.error \in activationErrors /\ (a.error = "identityFailed" <=> a.op = {})
    [] a.status = "ok" -> /\ a.value.gen \in Nat
                          /\ parseSummary(a.value.subscription)
                          /\ a.value.subscription.active
                          /\ a.value.subscription.gen = a.value.gen

parseDocumentFailure(a) == a.error \in documentMessages \cup subscriptionErrors \cup activationErrors

\* What save_subscription_document did about the core.
parseApply(x) == x = "notRequired" \/ x = "ready" \/ x \in
  {"stopFailed", "startFailed", "recoveryRequired", "operationTimedOut"}

\* Whether the page can read the answer a to the command cmd.
Reads(cmd, a) ==
  IF cmd = "activate" THEN parseActivateResult(a)
  ELSE IF a.status = "error"
  THEN IF cmd \in {"document", "running", "save"} THEN parseDocumentFailure(a) ELSE a.error \in subscriptionErrors
  ELSE CASE cmd = "list" -> \A i \in DOMAIN a.value : parseSummary(a.value[i])
         [] cmd = "settings" -> parseSettings(a.value)
         [] cmd \in {"import", "edit", "update"} -> parseSummary(a.value)
         [] cmd = "save" -> parseSummary(a.value.subscription) /\ parseApply(a.value.apply)
         [] OTHER -> TRUE

\* What is left of an answer once it is read.  The page shows which error it was and
\* does the same for all of them, and for what it cannot read.
Failure == [status |-> "error"]
Received(cmd, a) == IF a.status # "error" /\ Reads(cmd, a) THEN a ELSE Failure
Succeeded(a) == a.status # "error"

-----------------------------------------------------------------------------
(* Calls *)

\* Of a call that is under way.
NoAnswer == [status |-> "none"]

\* owner is the epoch of the dialog or the document session that waits for the
\* answer; arg is the request.
Call(cmd, i, owner, arg) ==
  [cmd |-> cmd, id |-> i, owner |-> owner, arg |-> arg, waits |-> FALSE, touched |-> {}, answer |-> NoAnswer]
\* load tells the call of load() from those of refreshList().
ListCall(load) == [load |-> load, answer |-> NoAnswer]

\* The page hears that the state has changed and asks for the list: refreshList.
\* The way of the event is part of the way of that call.
Notify(changed) == lists' = IF changed THEN Append(lists, ListCall(FALSE)) ELSE lists

\* What the page keeps of a list.
Row(x) == [active |-> x.active, kind |-> x.kind]
Rows(a) == IF Succeeded(a) THEN Ok([i \in DOMAIN a.value |-> Row(a.value[i])]) ELSE a

\* list_subscriptions runs when its turn comes; one that is refused counts.
PerformList ==
  \E n \in DOMAIN lists, o \in list(app) :
    /\ lists[n].answer = NoAnswer /\ \A m \in 1..(n - 1) : lists[m].answer # NoAnswer
    /\ lists' = [lists EXCEPT ![n].answer = Rows(Received("list", o.answer))]
    /\ IF o.answer.status = "ok" THEN UNCHANGED used ELSE used < MaxActs /\ used' = used + 1
    /\ UNCHANGED <<app, work, calls, seen, page, dialog, epoch, stale, disturbed>>

-----------------------------------------------------------------------------
(* The observation record *)

Switch(op, status) == [op |-> op, status |-> status]

\* record_subscription_ready, record_managed_stopped and record_managed_failure.
Ready(a, i, g, op) ==
  [a EXCEPT !.life = "ready", !.applied = [id |-> i, gen |-> g],
            !.switch = IF op = Nil THEN Nil ELSE Switch(op, "ready")]
Stopped(a) == [a EXCEPT !.life = "stopped", !.applied = Nil, !.switch = Nil]
Lost(a) ==
  [a EXCEPT !.life = "recovery", !.applied = Nil,
            !.switch = IF @ # Nil /\ @.status = "ready" THEN Nil ELSE @]

Observation(a) == [life |-> a.life, applied |-> a.applied, switch |-> a.switch]

-----------------------------------------------------------------------------
(* get_subscription_document, save_subscription_document and                 *)
(* get_running_configuration.  The text of a document is left out.           *)

read_document(a, i) ==
  {[app |-> a, answer |-> Err(DocumentOperationError, e), event |-> FALSE] :
     e \in map_document_access_error \cup {"DocumentUnavailable"}
             \cup (IF i \in DOMAIN a.subs THEN {} ELSE {"NotFound"})}
    \cup (IF i \in DOMAIN a.subs THEN Answered(a, i) ELSE {})

\* What prepare_document_save and the worker may refuse.
SaveErrors ==
  map_document_parse_error \cup map_document_replacement_error \cup map_document_access_error
    \cup {map_document_subscription_error[e] : e \in {"Busy", "StateUnavailable", "NotFound"}}
    \cup {"DocumentConflict", "DocumentUnavailable", "ConfigurationFailed", "IdentityFailed",
          "RecoveryRequired"}

\* The document is saved, and apply is what became of it in the core.
SavedWith(a, i, apply) ==
  [app |-> a, event |-> TRUE,
   answer |-> Ok([subscription |-> SubscriptionSummaryResponse(summary_for(a, i)), apply |-> apply])]

\* failed_document_switch: of the selected subscription the record tells the failure,
\* and the core may be lost in preparing.
Unsaved(a, i) ==
  {[app |-> b, answer |-> Err(DocumentSaveError, e), event |-> FALSE] :
     e \in SaveErrors,
     b \in {a} \cup (IF a.active = i THEN {[a EXCEPT !.switch = Switch(0, "failed")],
                                           [Lost(a) EXCEPT !.switch = Switch(0, "failed")]}
                     ELSE {})}

\* document_runtime_error: saved, and the core is not what it should be.
Unapplied(a, i) ==
  {SavedWith([Lost(a) EXCEPT !.switch = Switch(0, "failed")], i, DocumentApplyError[e]) :
     e \in {"StopFailed", "StartFailed", "RecoveryRequired"}}
    \cup {SavedWith([a EXCEPT !.switch = Switch(0, "failed")], i, DocumentApplyError["OperationTimedOut"])}

\* A document of the selected subscription raises the generation, unless it is what
\* was saved before, and is applied at once unless the core has it.
save_document(a, i) ==
  Unsaved(a, i)
    \cup (IF i \notin DOMAIN a.subs THEN {}
          ELSE IF a.active # i THEN {SavedWith(a, i, "notRequired")}
          ELSE UNION {IF next = a /\ a.life = "ready" /\ a.applied = [id |-> i, gen |-> a.gen]
                       THEN {SavedWith(a, i, "notRequired")}
                       ELSE {SavedWith(Ready(next, i, next.gen, 0), i, "ready")} \cup Unapplied(next, i) :
                       next \in {n \in {a, next_generation(a)} : StateValid(n)}})

running_configuration(a) ==
  {[app |-> a, answer |-> Err(RunningConfigurationError, e), event |-> FALSE] :
     e \in {"Busy", "RecoveryRequired", "ContentTooLarge"}
             \cup (IF a.life = "ready" THEN {} ELSE {"NotRunning"})}
    \cup (IF a.life = "ready" THEN Answered(a, a.applied) ELSE {})

-----------------------------------------------------------------------------
(* The commands, activate_subscription apart *)

SubscriptionCommands == {"settings", "share", "import", "edit", "update", "delete"}
SubscriptionOutcomes(c) ==
  CASE c.cmd = "settings" -> get_settings(app, c.id)
    [] c.cmd = "share" -> share_url(app, c.id)
    [] c.cmd = "import" -> UNION {import_with_options(app, c.arg, x) : x \in Ids}
    [] c.cmd = "edit" -> edit(app, c.arg)
    [] c.cmd = "update" -> update_with_route(app, c.id, c.arg)
    [] c.cmd = "delete" -> delete(app, c.id)
DocumentOutcomes(c) ==
  CASE c.cmd = "document" -> read_document(app, c.id)
    [] c.cmd = "save" -> save_document(app, c.id)
    [] c.cmd = "running" -> running_configuration(app)
Outcomes(c) == IF c.cmd \in SubscriptionCommands THEN SubscriptionOutcomes(c) ELSE DocumentOutcomes(c)

\* While the worker has an activation, it has the guards of the controller and of
\* the manager, and what needs one of them is Busy.
Unguarded == {"settings", "share", "document"}

Perform ==
  \E c \in {d \in calls : d.answer = NoAnswer /\ d.cmd # "activate"} : \E o \in Outcomes(c) :
    /\ work # Nil /\ c.cmd \notin Unguarded => o.answer.status = "error" /\ o.answer.error = "busy"
    /\ app' = o.app
    /\ calls' = (calls \ {c}) \cup {[c EXCEPT !.answer = Received(c.cmd, o.answer)]}
    /\ Notify(o.event)
    /\ UNCHANGED <<work, seen, page, dialog, epoch, used, stale, disturbed>>

-----------------------------------------------------------------------------
(* activate_subscription: the controller asks the worker and waits for a time *)

Activations == {c \in calls : c.cmd = "activate" /\ c.answer = NoAnswer}
AnswerCall(c, a) == calls' = (calls \ {c}) \cup {[c EXCEPT !.answer = Received("activate", a)]}
activation_error(op, e) == [status |-> "error", error |-> ActivationError[e], op |-> {op}]
Activated(op, i, next, current) ==
  Ok([subscription |-> SubscriptionSummaryResponse(summary_for(next, i)), gen |-> next.gen,
      current |-> current, op |-> op])

\* The state with c.id selected.
Selecting(c) ==
  IF app.active = c.id THEN app ELSE next_generation([app EXCEPT !.active = c.id])

should_return_already_current(c) ==
  ~c.arg.force /\ app.life = "ready" /\ app.applied = [id |-> c.id, gen |-> Selecting(c).gen]

PreflightErrors_StateChanged(c) ==
  {"Busy", "StateUnavailable", "SelectionConflict", "ConfigurationFailed", "StateChanged"}
    \cup (IF c.id \in DOMAIN app.subs THEN {} ELSE {"NotFound"})

\* StateChanged is for a caller that names a generation: apply_proxy_routing does,
\* activate_subscription does not.
PreflightErrors(c) ==
  {"Busy", "StateUnavailable", "SelectionConflict", "ConfigurationFailed"}
    \cup (IF c.id \in DOMAIN app.subs THEN {} ELSE {"NotFound"})
Rejections(c) ==
  {Err(ActivationError, "IdentityFailed")} \cup {activation_error(c.owner, e) : e \in PreflightErrors(c)}

RefuseActivation ==
  \E c \in {d \in Activations : ~d.waits} :
    /\ \E a \in Rejections(c) : AnswerCall(c, a)
    /\ UNCHANGED <<app, work, lists, seen, page, dialog, epoch, used, stale, disturbed>>

IsCurrent(c) == work = Nil /\ c.id \in DOMAIN app.subs /\ should_return_already_current(c)
CurrentAnswer(c) == Activated(c.owner, c.id, Selecting(c), TRUE)

AlreadyCurrent ==
  \E c \in {d \in Activations : ~d.waits} :
    /\ IsCurrent(c)
    /\ AnswerCall(c, CurrentAnswer(c))
    /\ UNCHANGED <<app, work, lists, seen, page, dialog, epoch, used, stale, disturbed>>

SendActivation ==
  \E c \in {d \in Activations : ~d.waits} :
    /\ work = Nil /\ c.id \in DOMAIN app.subs
    /\ ~should_return_already_current(c) /\ StateValid(Selecting(c))
    /\ work' = [op |-> c.owner, id |-> c.id, cancel |-> FALSE, stage |-> "sent"]
    /\ calls' = (calls \ {c}) \cup {[c EXCEPT !.waits = TRUE]}
    /\ UNCHANGED <<app, lists, seen, page, dialog, epoch, used, stale, disturbed>>

StillPending(op) == [status |-> "pending", op |-> {op}]

\* recv_timeout: the command answers that the operation goes on, and asks the worker
\* to give it up if it still can.
ResponseTimeout ==
  \E c \in {d \in Activations : d.waits} :
    /\ work # Nil
    /\ AnswerCall(c, StillPending(c.owner))
    /\ work' = [work EXCEPT !.cancel = TRUE]
    /\ UNCHANGED <<app, lists, seen, page, dialog, epoch, used, stale, disturbed>>

\* The result goes to the command if it still waits.
Respond(a) ==
  calls' = {IF c \in Activations /\ c.waits /\ c.owner = work.op
            THEN [c EXCEPT !.answer = Received("activate", a)] ELSE c : c \in calls}
Fail(e) == Respond(activation_error(work.op, e))
SwitchTo(a, status) == [a EXCEPT !.switch = Switch(work.op, status)]

WorkQueued ==
  /\ work # Nil /\ work.stage = "sent"
  /\ app' = SwitchTo(app, "queued")
  /\ work' = [work EXCEPT !.stage = "queued"]
  /\ UNCHANGED <<calls, lists, seen, page, dialog, epoch, used, stale, disturbed>>

GivenUpErrors == {"ConfigurationFailed", "StartFailed", "RecoveryRequired", "Busy", "SaveFailed",
                  "StateUnavailable"}

\* Before the state is saved: the candidate is not accepted, the operation is
\* cancelled, or the state cannot be saved.  The old core goes on, or cannot be
\* accounted for.
WorkGivenUp ==
  /\ work # Nil /\ work.stage = "queued"
  /\ \/ /\ app' \in {SwitchTo(app, "failed"), SwitchTo(Lost(app), "failed")}
        /\ \E e \in GivenUpErrors : Fail(e)
     \/ /\ work.cancel
        /\ app' = SwitchTo(app, "cancelled")
        /\ Respond(StillPending(work.op))
  /\ work' = Nil
  /\ UNCHANGED <<lists, seen, page, dialog, epoch, used, stale, disturbed>>

WorkPersisted ==
  /\ work # Nil /\ work.stage = "queued" /\ ~work.cancel
  /\ app' = SwitchTo(IF app.active = work.id THEN app
                     ELSE next_generation([app EXCEPT !.active = work.id]), "applying")
  /\ Notify(app.active # work.id)
  /\ work' = [work EXCEPT !.stage = "applying"]
  /\ UNCHANGED <<calls, seen, page, dialog, epoch, used, stale, disturbed>>

UnappliedErrors == {"StopFailed", "StartFailed", "RecoveryRequired"}

WorkApplied ==
  /\ work # Nil /\ work.stage = "applying"
  /\ \/ /\ app' = Ready(app, app.active, app.gen, work.op)
        /\ Respond(Activated(work.op, work.id, app, FALSE))
     \/ /\ \E l \in {"stopped", "recovery"} : app' = SwitchTo([Lost(app) EXCEPT !.life = l], "failed")
        /\ \E e \in UnappliedErrors : Fail(e)
  /\ work' = Nil
  /\ UNCHANGED <<lists, seen, page, dialog, epoch, used, stale, disturbed>>

-----------------------------------------------------------------------------
(* Around the page *)

Around ==
  /\ used < MaxActs
  /\ used' = used + 1
  /\ UNCHANGED <<work, calls, seen, page, dialog, epoch, stale>>

\* The core is lost, or the home page stops or starts it, or another operation (a
\* routing apply) takes the worker; the last three need it free.
CoreMoves ==
  /\ \/ /\ app.life = "ready" /\ app' = Lost(app)
     \/ work = Nil /\ app' = Stopped(app)
     \/ /\ work = Nil /\ app.active # Nil /\ app.life = "stopped"
        /\ app' = Ready(app, app.active, app.gen, Nil)
     \/ /\ work = Nil /\ app.active # Nil
        /\ \/ app' = Ready(app, app.active, app.gen, used + 1)
           \/ app' = [app EXCEPT !.switch = Switch(used + 1, "failed")]
  \* The worker is done, and the record of it is overwritten.
  /\ disturbed' = (disturbed \/ (page.awaiting # Nil /\ work = Nil))
  /\ Notify(FALSE)
  /\ Around

\* The scheduler updates a subscription whose interval has passed.
ScheduledUpdate ==
  /\ work = Nil
  /\ \E i \in DOMAIN app.subs : \E o \in update_with_route(app, i, Nil) :
       /\ app.subs[i].policy.auto /\ app.subs[i].policy.interval # Nil
       /\ o.event /\ app' = o.app
  /\ Notify(TRUE)
  /\ UNCHANGED disturbed
  /\ Around

-----------------------------------------------------------------------------
(* What the page does by itself when the observation or its own state changes *)

isSubscriptionVisualActive(o, i) == o.life = "ready" /\ o.applied # Nil /\ o.applied.id = i

activationCompletion(a, o) ==
  /\ a # Nil /\ a.op # Nil
  /\ \/ o.switch # Nil /\ o.switch.op = a.op /\ o.switch.status \in {"cancelled", "failed", "ready"}
     \/ a.current /\ isSubscriptionVisualActive(o, a.id) /\ o.applied.gen = a.gen

\* Mutant: a core that is gone does not close what is shown of it.
Mismatch_WhileReady(doc, o) ==
  doc # Nil /\ doc.kind = "runtime" /\ o.life = "ready"
    /\ ~(o.applied.id = doc.id /\ o.applied.gen = doc.gen
         /\ doc.op = IF o.switch = Nil THEN Nil ELSE o.switch.op)

\* A running configuration is shown while it is the one that runs.
Mismatch(doc, o) ==
  doc # Nil /\ doc.kind = "runtime"
    /\ ~(isSubscriptionVisualActive(o, doc.id) /\ o.applied.gen = doc.gen
         /\ doc.op = IF o.switch = Nil THEN Nil ELSE o.switch.op)

\* Mutant: the activation that is over stays the pending operation.
Settled_KeepsPending(p, o) ==
  [p EXCEPT !.doc = IF Mismatch(@, o) THEN Nil ELSE @,
            !.awaiting = IF activationCompletion(@, o) THEN Nil ELSE @]

\* The page p once the effects have run on the observation o, and the calls of
\* list_subscriptions that it makes, after those in l.
Settled(p, o) ==
  [p EXCEPT !.doc = IF Mismatch(@, o) THEN Nil ELSE @,
            !.awaiting = IF activationCompletion(@, o) THEN Nil ELSE @,
            !.pending = IF activationCompletion(p.awaiting, o) THEN Nil ELSE @]
Settle(p, o, l) ==
  /\ page' = Settled(p, o)
  /\ lists' = IF activationCompletion(p.awaiting, o) THEN Append(l, ListCall(FALSE)) ELSE l
  /\ disturbed' = (disturbed /\ page'.awaiting # Nil)

\* The observation arrives; that the page never takes an older one is shown by
\* ObservationFeed.
Observe ==
  /\ seen # Observation(app)
  /\ seen' = Observation(app)
  /\ Settle(page, seen', lists)
  /\ UNCHANGED <<app, work, calls, dialog, epoch, used, stale>>

-----------------------------------------------------------------------------
(* The list *)

upsert(p, x) == [p EXCEPT !.listed = With(@, x.id, Row(x))]

Load ==
  /\ page.load \in {"idle", "error"} /\ dialog = Nil /\ page.doc = Nil
  /\ page' = [page EXCEPT !.load = "loading"]
  /\ lists' = Append(lists, ListCall(TRUE))
  /\ UNCHANGED <<app, work, calls, seen, dialog, epoch, used, stale, disturbed>>

AnswerList ==
  /\ lists # <<>> /\ Head(lists).answer # NoAnswer
  /\ lists' = Tail(lists)
  /\ LET a == Head(lists).answer
     IN IF Succeeded(a)
        THEN /\ page' = [page EXCEPT !.load = "ready", !.listed = a.value]
             /\ stale' = FALSE
        ELSE /\ page' = [page EXCEPT !.load = IF Head(lists).load THEN "error" ELSE @]
             /\ stale' = TRUE
  /\ UNCHANGED <<app, work, calls, seen, dialog, epoch, used, disturbed>>

-----------------------------------------------------------------------------
(* Dialogs *)

Blank == [site |-> "", query |-> FALSE]
BadUrl == [site |-> "ftp", query |-> FALSE]

defaultForm ==
  [kind |-> "remote", name |-> "", desc |-> "", url |-> Blank, ua |-> "clash", timeout |-> 30,
   proxy |-> "direct", tls |-> TRUE, auto |-> TRUE, interval |-> Nil, content |-> Nil]

\* settings and originalUrlRef are kept as what the form was filled with; share is
\* the URL of the QR code, picked the selection of a batch.
Dialog(mode, i, form) ==
  [epoch |-> epoch + 1, mode |-> mode, id |-> i, loading |-> FALSE, settings |-> Nil, form |-> form,
   original |-> Blank, touched |-> {}, confirmed |-> FALSE, share |-> Nil, picked |-> {}, sent |-> FALSE]

\* resetDialog frees a share that is pending, and nothing else.
Freed(p) == IF p.pending = "share" THEN [p EXCEPT !.pending = Nil] ELSE p
resetDialog(p) == dialog' = Nil /\ epoch' = epoch + 1 /\ page' = Freed(p)

\* Nothing is pending, and neither a dialog nor the editor covers the page.
Idle == page.pending = Nil /\ dialog = Nil /\ page.doc = Nil
Shown == IF page.load = "ready" THEN DOMAIN page.listed ELSE {}

beginDialog(d) ==
  /\ Idle /\ used < MaxActs
  /\ used' = used + 1
  /\ epoch' = epoch + 1
  /\ dialog' = d
  /\ UNCHANGED <<app, work, lists, seen, stale, disturbed>>

\* Mutant: the identity of a dialog is its mode.
isCurrentDialog_Mode(c, mode) == dialog # Nil /\ dialog.mode = mode
isCurrentDialog(c, mode) ==
  dialog # Nil /\ dialog.epoch = c.owner /\ dialog.mode = mode /\ dialog.id = c.id

openCreateDialog == beginDialog(Dialog("create", Nil, defaultForm)) /\ UNCHANGED <<calls, page>>

openReplaceDialog ==
  /\ \E i \in Shown :
       beginDialog(Dialog("replace", i, [defaultForm EXCEPT !.kind = page.listed[i].kind]))
  /\ UNCHANGED <<calls, page>>

openDeleteDialog ==
  /\ \/ \E i \in Shown : beginDialog(Dialog("delete", i, defaultForm))
     \/ \E picked \in SUBSET Shown \ {{}} :
          beginDialog([Dialog("batchDelete", Nil, defaultForm) EXCEPT !.picked = picked])
  /\ UNCHANGED <<calls, page>>

openSettingsDialog ==
  \E i \in Shown :
    /\ beginDialog([Dialog("edit", i, defaultForm) EXCEPT !.loading = TRUE])
    /\ calls' = calls \cup {Call("settings", i, epoch + 1, Nil)}
    /\ UNCHANGED page

\* The form, once the settings x and the URL are there.
Filled(d, x, url) ==
  [d EXCEPT !.loading = FALSE, !.settings = x, !.original = url,
            !.form = [defaultForm EXCEPT
                        !.kind = x.kind, !.name = x.name, !.desc = x.desc, !.url = url,
                        !.ua = IF x.custom THEN "preserve" ELSE "clash",
                        !.timeout = IF x.request = Nil THEN 30 ELSE x.request.timeout,
                        !.proxy = IF x.request = Nil THEN "direct" ELSE x.request.proxy,
                        !.tls = IF x.request = Nil THEN TRUE ELSE x.request.tls,
                        !.auto = x.policy.auto, !.interval = x.policy.interval]]

\* The answer for a dialog that is gone is dropped; a bad one closes the dialog.
AnswerSettings ==
  \E c \in {d \in calls : d.cmd = "settings" /\ d.answer # NoAnswer} :
    /\ CASE ~isCurrentDialog(c, "edit") ->
              calls' = calls \ {c} /\ UNCHANGED <<dialog, epoch, page>>
         [] isCurrentDialog(c, "edit") /\ ~Succeeded(c.answer) ->
              calls' = calls \ {c} /\ resetDialog(page)
         [] isCurrentDialog(c, "edit") /\ Succeeded(c.answer) /\ c.answer.value.kind = "remote" ->
              /\ calls' = (calls \ {c}) \cup {Call("share", c.id, c.owner, c.answer.value)}
              /\ UNCHANGED <<dialog, epoch, page>>
         [] OTHER ->
              /\ calls' = calls \ {c}
              /\ dialog' = Filled(dialog, c.answer.value, Blank)
              /\ UNCHANGED <<epoch, page>>
    /\ UNCHANGED <<app, work, lists, seen, used, stale, disturbed>>

AnswerShare ==
  \E c \in {d \in calls : d.cmd = "share" /\ d.answer # NoAnswer /\ d.arg # Nil} :
    /\ calls' = calls \ {c}
    /\ CASE ~isCurrentDialog(c, "edit") -> UNCHANGED <<dialog, epoch, page>>
         [] isCurrentDialog(c, "edit") /\ ~Succeeded(c.answer) -> resetDialog(page)
         [] OTHER -> dialog' = Filled(dialog, c.arg, c.answer.value) /\ UNCHANGED <<epoch, page>>
    /\ UNCHANGED <<app, work, lists, seen, used, stale, disturbed>>

openQrDialog ==
  \E i \in {j \in Shown : page.listed[j].kind = "remote"} :
    /\ beginDialog(Dialog("qr", i, defaultForm))
    /\ page' = [page EXCEPT !.pending = "share"]
    /\ calls' = calls \cup {Call("share", i, epoch + 1, Nil)}

\* Mutant: whatever dialog is open, the answer ends what is pending.
AnswerQr_AlwaysFrees ==
  \E c \in {d \in calls : d.cmd = "share" /\ d.answer # NoAnswer /\ d.arg = Nil} :
    /\ calls' = calls \ {c}
    /\ CASE ~isCurrentDialog(c, "qr") -> page' = [page EXCEPT !.pending = Nil] /\ UNCHANGED <<dialog, epoch>>
         [] isCurrentDialog(c, "qr") /\ ~Succeeded(c.answer) -> resetDialog(page)
         [] OTHER -> /\ dialog' = [dialog EXCEPT !.share = c.answer.value]
                     /\ page' = [page EXCEPT !.pending = Nil] /\ UNCHANGED epoch
    /\ UNCHANGED <<app, work, lists, seen, used, stale, disturbed>>

AnswerQr ==
  \E c \in {d \in calls : d.cmd = "share" /\ d.answer # NoAnswer /\ d.arg = Nil} :
    /\ calls' = calls \ {c}
    /\ CASE ~isCurrentDialog(c, "qr") -> UNCHANGED <<page, dialog, epoch>>
         [] isCurrentDialog(c, "qr") /\ ~Succeeded(c.answer) -> resetDialog(page)
         [] OTHER -> /\ dialog' = [dialog EXCEPT !.share = c.answer.value]
                     /\ page' = [page EXCEPT !.pending = Nil] /\ UNCHANGED epoch
    /\ UNCHANGED <<app, work, lists, seen, used, stale, disturbed>>

\* Escape or the backdrop.
CloseDialog ==
  /\ dialog # Nil /\ (page.pending = Nil \/ dialog.mode = "qr")
  /\ resetDialog(page)
  /\ UNCHANGED <<app, work, calls, lists, seen, used, stale, disturbed>>

-----------------------------------------------------------------------------
(* The form *)

Typing(mode) == dialog # Nil /\ dialog.mode = mode /\ ~dialog.loading /\ ~dialog.sent /\ page.pending = Nil
                  /\ Cardinality(dialog.touched) < MaxTouches

\* patchForm: f becomes the form, and the fields in t are the user's.
patchForm(f, t) ==
  /\ dialog' = [dialog EXCEPT !.form = f, !.touched = @ \cup t,
                              !.confirmed = @ /\ "tls" \notin t]
  /\ UNCHANGED <<app, work, calls, lists, seen, page, epoch, used, stale, disturbed>>

TouchKind ==
  /\ Typing("create")
  /\ \E k \in {"remote", "manual"} \ {dialog.form.kind} :
       patchForm([dialog.form EXCEPT !.kind = k, !.auto = k = "remote", !.content = Nil], {"kind"})

TouchNames ==
  /\ Typing("create") \/ Typing("edit")
  /\ \/ \E n \in {"", "tabbed"} : patchForm([dialog.form EXCEPT !.name = n], {"name"})
     \/ patchForm([dialog.form EXCEPT !.desc = "new"], {"desc"})

TouchUrl ==
  /\ Typing("create") \/ Typing("edit") \/ Typing("replace")
  /\ dialog.form.kind = "remote"
  /\ \E u \in {Url(x) : x \in Sites} \cup {BadUrl} :
       patchForm([dialog.form EXCEPT !.url = u], {"url"})

TouchContent ==
  /\ Typing("create") \/ Typing("replace")
  /\ dialog.form.kind = "manual"
  /\ patchForm([dialog.form EXCEPT !.content = "text"], {"content"})

\* A custom user agent is as the ones with a name.
UserAgents ==
  {"clash", "singBox"}
    \cup (IF dialog.mode = "edit" /\ dialog.settings.custom THEN {"preserve"} ELSE {})

\* The checkbox of auto empties the interval, which can be set only while it is on.
TouchOptions ==
  /\ Typing("create") \/ Typing("edit")
  /\ dialog.form.kind = "remote"
  /\ \/ \E a \in UserAgents \ {dialog.form.ua} : patchForm([dialog.form EXCEPT !.ua = a], {"ua"})
     \/ \E n \in {4, 60} : patchForm([dialog.form EXCEPT !.timeout = n], {"timeout"})
     \/ \E p \in {"system"} \cup (IF seen.life = "ready" THEN {"managedCore"} ELSE {}) :
          patchForm([dialog.form EXCEPT !.proxy = p], {"proxy"})
     \/ patchForm([dialog.form EXCEPT !.tls = ~@], {"tls"})
     \/ patchForm([dialog.form EXCEPT !.auto = ~@, !.interval = IF dialog.form.auto THEN Nil ELSE @],
                  {"auto", "interval"})
     \/ /\ dialog.form.auto
        /\ \E n \in {Nil, 2} : patchForm([dialog.form EXCEPT !.interval = n], {"interval"})

ConfirmTls ==
  /\ dialog # Nil /\ ~dialog.form.tls /\ ~dialog.confirmed /\ page.pending = Nil
  /\ dialog' = [dialog EXCEPT !.confirmed = TRUE]
  /\ UNCHANGED <<app, work, calls, lists, seen, page, epoch, used, stale, disturbed>>

normalizedSubscriptionName(f) ==
  IF f.name # "" THEN f.name ELSE IF f.kind = "remote" THEN "remote" ELSE "local"

validatedCommon(f) == f.name # "long" /\ f.desc \notin {"long", "tabbed"}
validatedRemote(d) ==
  /\ d.form.url # Blank
  /\ d.form.timeout \in 5..120
  /\ d.form.interval # Nil => d.form.interval >= 1
  /\ d.form.tls \/ d.confirmed

selectedUserAgent(f) == IF f.ua = "singBox" THEN {"sing-box"} ELSE {}

ImportRequest(f) ==
  [name |-> normalizedSubscriptionName(f), desc |-> f.desc,
   url |-> IF f.kind = "remote" THEN f.url ELSE Nil,
   options |-> [ua |-> selectedUserAgent(f), timeout |-> f.timeout, proxy |-> f.proxy, tls |-> f.tls,
                auto |-> f.auto, interval |-> f.interval]]

EditRequest(d) ==
  LET f == d.form
      common == [NoEdit(d.id) EXCEPT !.name = {normalizedSubscriptionName(f)}, !.desc = {f.desc}]
  IN IF f.kind = "manual" THEN common
     ELSE [common EXCEPT
             !.url = IF f.url # d.original THEN {f.url} ELSE {},
             !.request = {[timeout |-> {f.timeout}, proxy |-> {f.proxy}, tls |-> {f.tls},
                           ua |-> IF f.ua = "preserve" THEN {} ELSE {Or(selectedUserAgent(f), "")}]},
             !.policy = {[auto |-> {f.auto}, interval |-> {f.interval}]}]

-----------------------------------------------------------------------------
(* Operations of the page: one at a time *)

Begin(cmd, i, arg) ==
  /\ Idle /\ used < MaxActs
  /\ used' = used + 1
  /\ calls' = calls \cup {Call(cmd, i, used + 1, arg)}
  /\ UNCHANGED <<app, work, lists, seen, dialog, epoch, stale, disturbed>>

\* What a dialog sends counts with it; as a bound, it sends once.
Send(cmd, i, arg, touched) ==
  /\ page.pending = Nil /\ ~dialog.sent
  /\ dialog' = [dialog EXCEPT !.sent = TRUE]
  /\ calls' = calls \cup {[Call(cmd, i, used + 1, arg) EXCEPT !.touched = touched]}
  /\ UNCHANGED <<app, work, lists, seen, epoch, used, stale, disturbed>>

Pending(kind) == page' = [page EXCEPT !.pending = kind]

submitDialog ==
  /\ dialog # Nil /\ dialog.mode \in {"create", "edit", "replace"} /\ ~dialog.loading
  /\ validatedCommon(dialog.form)
  /\ dialog.form.kind = "remote" => validatedRemote(dialog)
  /\ dialog.mode # "edit" /\ dialog.form.kind = "manual" => dialog.form.content # Nil
  /\ LET f == dialog.form
     IN CASE dialog.mode = "create" -> Send("import", Nil, ImportRequest(f), {})
          [] dialog.mode = "edit" -> Send("edit", dialog.id, EditRequest(dialog), dialog.touched)
          [] dialog.mode = "replace" /\ f.kind = "remote" ->
               Send("edit", dialog.id, [NoEdit(dialog.id) EXCEPT !.url = {f.url}], {"url"})
          [] OTHER -> Send("update", dialog.id, "text", {})
  /\ Pending("dialog")

submitQuickImport ==
  /\ \E x \in Sites : Begin("import", Nil, ImportRequest([defaultForm EXCEPT !.url = Url(x)]))
  /\ Pending("import")

updateOne ==
  /\ \E i \in {j \in Shown : page.listed[j].kind = "remote"} : Begin("update", i, Nil)
  /\ Pending("update")

\* updateAll and deleteSelected send the next call when the answer of one is there.
updateAll ==
  LET targets == {j \in DOMAIN page.listed : page.listed[j].kind = "remote"}
  IN \E i \in targets :
       /\ Begin("update", i, Nil)
       /\ page' = [page EXCEPT !.pending = "all", !.rest = targets \ {i}]

confirmDelete ==
  /\ dialog # Nil /\ dialog.mode = "delete"
  /\ Send("delete", dialog.id, Nil, {})
  /\ Pending("delete")

deleteSelected ==
  /\ dialog # Nil /\ dialog.mode = "batchDelete"
  /\ \E i \in dialog.picked :
       /\ Send("delete", i, Nil, {})
       /\ page' = [page EXCEPT !.pending = "selected", !.rest = dialog.picked \ {i}]

\* What the page makes of an answer, and what it does next.
Writes == {"import", "edit", "update", "delete"}
AnswerOne ==
  \E c \in {d \in calls : d.cmd \in Writes /\ d.answer # NoAnswer} :
    LET good == Succeeded(c.answer)
        shown == CASE good /\ c.cmd = "delete" -> [page EXCEPT !.listed = Restrict(@, DOMAIN @ \ {c.answer.value})]
                   [] good /\ c.cmd # "delete" -> upsert(page, c.answer.value)
                   [] OTHER -> page
        done == [shown EXCEPT !.pending = Nil,
                              !.load = IF good /\ page.pending = "import" THEN "ready" ELSE @]
    IN /\ page.pending \notin {"all", "selected"}
       /\ calls' = calls \ {c}
       /\ IF good /\ dialog # Nil THEN resetDialog(done) ELSE page' = done /\ UNCHANGED <<dialog, epoch>>
       /\ UNCHANGED <<app, work, lists, seen, used, stale, disturbed>>

AnswerNext ==
  \E c \in {d \in calls : d.cmd \in Writes /\ d.answer # NoAnswer} :
    LET good == Succeeded(c.answer)
        removed == page.removed \cup {i \in {c.id} : good /\ c.cmd = "delete"}
        shown == IF good /\ c.cmd = "update" THEN upsert(page, c.answer.value) ELSE page
    IN /\ page.pending \in {"all", "selected"}
       /\ \/ \E i \in page.rest :
               /\ calls' = (calls \ {c}) \cup {Call(c.cmd, i, c.owner, Nil)}
               /\ page' = [shown EXCEPT !.rest = @ \ {i}, !.removed = removed]
               /\ UNCHANGED <<dialog, epoch>>
          \/ /\ page.rest = {}
             /\ calls' = calls \ {c}
             /\ LET done == [shown EXCEPT !.pending = Nil, !.removed = {},
                                          !.listed = Restrict(@, DOMAIN @ \ removed)]
                IN IF page.pending = "selected" THEN resetDialog(done)
                   ELSE page' = done /\ UNCHANGED <<dialog, epoch>>
       /\ UNCHANGED <<app, work, lists, seen, used, stale, disturbed>>

-----------------------------------------------------------------------------
(* Activation *)

Awaiting(i, op, current, g) == [id |-> i, op |-> op, current |-> current, gen |-> g]

activate ==
  \E force \in BOOLEAN : \E i \in IF force THEN {j \in DOMAIN page.listed : page.listed[j].active} ELSE Shown :
    /\ Begin("activate", i, [force |-> force])
    /\ page' = [page EXCEPT !.pending = "activate", !.awaiting = Awaiting(i, Nil, FALSE, 0)]

AnswerActivate ==
  \E c \in {d \in calls : d.cmd = "activate" /\ d.answer # NoAnswer} :
    LET a == c.answer
    IN /\ calls' = calls \ {c}
       /\ CASE ~Succeeded(a) ->
                 /\ page' = [page EXCEPT !.pending = Nil, !.awaiting = Nil]
                 /\ disturbed' = FALSE
                 /\ UNCHANGED lists
            [] a.status = "pending" ->
                 Settle([page EXCEPT !.awaiting = Awaiting(c.id, c.owner, FALSE, 0)], seen, lists)
            [] OTHER ->
                 Settle([upsert(page, a.value.subscription) EXCEPT
                           !.awaiting = Awaiting(c.id, a.value.op, a.value.current, a.value.gen)],
                        seen, Append(lists, ListCall(FALSE)))
       /\ UNCHANGED <<app, work, seen, dialog, epoch, used, stale>>

-----------------------------------------------------------------------------
(* Documents *)

Session(kind, i, g, op) == [kind |-> kind, id |-> i, gen |-> g, op |-> op]

OpenDoc(kind, cmd, i) ==
  /\ Idle /\ used < MaxActs
  /\ used' = used + 1
  /\ page' = [page EXCEPT !.pending = kind, !.docEpoch = @ + 1]
  /\ calls' = calls \cup {Call(cmd, i, page.docEpoch + 1, Nil)}
  /\ UNCHANGED <<app, work, lists, seen, dialog, epoch, stale, disturbed>>

openDocument == \E i \in Shown : OpenDoc("document", "document", i)
openRunningDocument == seen.life = "ready" /\ OpenDoc("running", "running", Nil)

\* The user turns to another page while the document is read.
LeavePage ==
  /\ \E c \in calls : c.cmd \in {"document", "running"} /\ c.owner = page.docEpoch
  /\ page' = [page EXCEPT !.docEpoch = @ + 1]
  /\ UNCHANGED <<app, work, calls, lists, seen, dialog, epoch, used, stale, disturbed>>

AnswerDocument ==
  \E c \in {d \in calls : d.cmd = "document" /\ d.answer # NoAnswer} :
    /\ calls' = calls \ {c}
    /\ page' = [page EXCEPT !.pending = Nil,
                            !.doc = IF c.owner = page.docEpoch /\ Succeeded(c.answer)
                                    THEN Session("subscription", c.id, Nil, Nil) ELSE @]
    /\ UNCHANGED <<app, work, lists, seen, dialog, epoch, used, stale, disturbed>>

AnswerRunning ==
  \E c \in {d \in calls : d.cmd = "running" /\ d.answer # NoAnswer} :
    /\ calls' = calls \ {c}
    /\ page' = [page EXCEPT !.pending = Nil,
                  !.doc = IF /\ c.owner = page.docEpoch /\ Succeeded(c.answer)
                             /\ seen.life = "ready" /\ c.answer.value = seen.applied
                          THEN Session("runtime", seen.applied.id, seen.applied.gen,
                                       IF seen.switch = Nil THEN Nil ELSE seen.switch.op)
                          ELSE @]
    /\ UNCHANGED <<app, work, lists, seen, dialog, epoch, used, stale, disturbed>>

\* The editor is busy while it saves, and closes once it has.
Saving == \E c \in calls : c.cmd = "save"
closeDocument ==
  /\ page.doc # Nil /\ ~Saving
  /\ page' = [page EXCEPT !.doc = Nil, !.docEpoch = @ + 1]
  /\ UNCHANGED <<app, work, calls, lists, seen, dialog, epoch, used, stale, disturbed>>

saveDocument ==
  /\ page.doc # Nil /\ page.doc.kind = "subscription" /\ ~Saving
  /\ used < MaxActs /\ used' = used + 1
  /\ calls' = calls \cup {Call("save", page.doc.id, page.docEpoch, Nil)}
  /\ UNCHANGED <<app, work, lists, seen, page, dialog, epoch, stale, disturbed>>

AnswerSave ==
  \E c \in {d \in calls : d.cmd = "save" /\ d.answer # NoAnswer} :
    LET good == Succeeded(c.answer)
        applied == good /\ c.answer.value.apply \in {"notRequired", "ready"}
        shown == IF good THEN upsert(page, c.answer.value.subscription) ELSE page
    IN /\ calls' = calls \ {c}
       /\ page' = IF applied THEN [shown EXCEPT !.doc = Nil, !.docEpoch = @ + 1] ELSE shown
       /\ UNCHANGED <<app, work, lists, seen, dialog, epoch, used, stale, disturbed>>

-----------------------------------------------------------------------------
(* The specification *)

\* A remote subscription whose name is longer than what can be typed now, and a
\* manual one.  The core runs the selected one as it was before its last update.
FirstSubs ==
  [i \in {FirstSub, SecondSub} |->
     IF i = FirstSub
     THEN [name |-> "long", desc |-> "old", url |-> Url(FirstSub),
           request |-> [DefaultRequest EXCEPT !.ua = "agent"], policy |-> [auto |-> TRUE, interval |-> 1]]
     ELSE [name |-> "old", desc |-> "", url |-> Nil, request |-> Nil, policy |-> ManualPolicy]]

PageInit ==
  /\ app \in [subs : {FirstSubs}, active : {FirstSub, SecondSub}, gen : {2}, life : {"stopped", "ready"},
              applied : {Nil} \cup [id : {FirstSub, SecondSub}, gen : {1}], switch : {Nil}]
  /\ app.life = "ready" <=> app.applied # Nil
  /\ app.applied # Nil => app.applied.id = app.active
  /\ work = Nil /\ calls = {} /\ lists = <<>>
  /\ seen = Observation(app)
  /\ page = [load |-> "idle", listed |-> <<>>, pending |-> Nil, rest |-> {}, removed |-> {},
             awaiting |-> Nil, doc |-> Nil, docEpoch |-> 0]
  /\ dialog = Nil /\ epoch = 0
  /\ used = 0
  /\ stale = FALSE /\ disturbed = FALSE

PageNext ==
  \/ PerformList \/ Perform \/ RefuseActivation \/ AlreadyCurrent \/ SendActivation \/ ResponseTimeout
  \/ WorkQueued \/ WorkGivenUp \/ WorkPersisted \/ WorkApplied
  \/ CoreMoves \/ ScheduledUpdate \/ Observe
  \/ Load \/ AnswerList
  \/ openCreateDialog \/ openReplaceDialog \/ openDeleteDialog \/ openSettingsDialog \/ openQrDialog
  \/ AnswerSettings \/ AnswerShare \/ AnswerQr \/ CloseDialog
  \/ TouchKind \/ TouchNames \/ TouchUrl \/ TouchContent \/ TouchOptions \/ ConfirmTls
  \/ submitDialog \/ submitQuickImport \/ updateOne \/ updateAll \/ confirmDelete \/ deleteSelected
  \/ AnswerOne \/ AnswerNext
  \/ activate \/ AnswerActivate
  \/ openDocument \/ openRunningDocument \/ LeavePage \/ AnswerDocument \/ AnswerRunning
  \/ closeDocument \/ saveDocument \/ AnswerSave

PageSpec == PageInit /\ [][PageNext]_pageVars

-----------------------------------------------------------------------------
(* Properties *)

\* The state that is stored is valid, the page waits for an activation only while
\* one is pending, and a dialog or the editor covers the page, never both.
PageTypeOK ==
  /\ StateValid(app)
  /\ work # Nil => work.stage \in {"sent", "queued", "applying"}
  /\ page.load \in {"idle", "loading", "ready", "error"}
  /\ page.awaiting # Nil <=> page.pending = "activate"
  /\ page.rest # {} => page.pending \in {"all", "selected"}
  /\ dialog # Nil => page.doc = Nil /\ dialog.epoch = epoch
  /\ Saving => page.doc # Nil

\* One operation at a time: the page has at most one write under way, and whatever
\* it shows as pending will end: its call is under way, or the activation it waits
\* for goes on or is over in the observation (pendingOperation, which every handler
\* checks and every answer clears).  Only an activation whose record was overwritten
\* before the page saw it is waited for in vain.
PendingIsTrue ==
  LET Under(cmds) == {c \in calls : c.cmd \in cmds}
  IN /\ Cardinality(Under(Writes \cup {"activate", "save"})) <= 1
     /\ page.pending \in {"dialog", "import", "update", "all", "delete", "selected"}
          <=> Under(Writes) # {}
     /\ page.pending = "share" => \E c \in Under({"share"}) : isCurrentDialog(c, "qr")
     /\ page.pending = "document" => Under({"document"}) # {}
     /\ page.pending = "running" => Under({"running"}) # {}
     /\ page.pending = "activate" =>
          \/ Under({"activate"}) # {}
          \/ work # Nil /\ work.op = page.awaiting.op
          \/ activationCompletion(page.awaiting, Observation(app))
          \/ disturbed

\* The page's locks fit what is under way: one operation, one dialog or the editor,
\* and nothing pending that has no end.
LocksAreTrue == PageTypeOK /\ PendingIsTrue

\* What a dialog shows, and what it compares a new URL with, is what is stored for
\* its subscription, however late the answers are and whatever dialogs were opened
\* and closed meanwhile (isCurrentDialog, dialogEpochRef).  A name with a control
\* character is the exception: it is stored, the page takes the answer for a failure,
\* and the dialog stays open with the URL from before.
FormShowsStored ==
  dialog # Nil /\ ~dialog.loading /\ dialog.id \in DOMAIN app.subs /\ app.subs[dialog.id].name # "tabbed" =>
    LET s == app.subs[dialog.id]
        Untouched(field) == field \notin dialog.touched
    IN /\ dialog.share # Nil => dialog.share = s.url
       /\ dialog.mode = "edit" /\ page.pending = Nil =>
            /\ Untouched("name") => dialog.form.name = safe_display_name(s.name)
            /\ Untouched("desc") => dialog.form.desc = s.desc
            /\ s.url # Nil =>
                 /\ dialog.original = s.url
                 /\ Untouched("url") => dialog.form.url = s.url
                 /\ Untouched("interval") => dialog.form.interval = s.policy.interval
                 /\ Untouched("ua") => (dialog.form.ua = "preserve" <=> s.request.ua # Nil)

\* What activate_subscription may answer to the call c now: itself, or with what the
\* worker has for it.
WorkerAnswers ==
  CASE work.stage = "queued" -> {activation_error(work.op, e) : e \in GivenUpErrors}
    [] work.stage = "applying" -> {Activated(work.op, work.id, app, FALSE)}
                                    \cup {activation_error(work.op, e) : e \in UnappliedErrors}
    [] OTHER -> {}
ActivationAnswers(c) ==
  IF c.waits THEN {StillPending(c.owner)} \cup WorkerAnswers
  ELSE Rejections(c) \cup (IF IsCurrent(c) THEN {CurrentAnswer(c)} ELSE {})

\* Every answer of a command is one the page can read: what the commands write, the
\* readers in src/lib/subscriptions.ts accept.  An activation's included: the
\* subscription it tells of is the one that is selected, at the generation it names,
\* whether the worker started the core or nothing had to be done.  A name with a
\* control character is the exception: validate_name looks at the length alone, and
\* parseSummary refuses the character and with it the whole list.
EveryAnswerIsRead ==
  (\A i \in DOMAIN app.subs : app.subs[i].name # "tabbed") =>
    /\ (\E n \in DOMAIN lists : lists[n].answer = NoAnswer) => \A o \in list(app) : Reads("list", o.answer)
    /\ \A c \in {d \in calls : d.answer = NoAnswer /\ d.cmd # "activate"} :
         \A o \in Outcomes(c) :
           (\A i \in DOMAIN o.app.subs : o.app.subs[i].name # "tabbed") => Reads(c.cmd, o.answer)
    /\ \A c \in Activations : \A a \in ActivationAnswers(c) : Reads("activate", a)

\* When nothing is under way and the last list was not refused, the page lists the
\* subscriptions there are and marks the one that is selected: the answers of the
\* operations, the lists that were read before them and the events come in any order.
ListCatchesUp ==
  calls = {} /\ lists = <<>> /\ work = Nil /\ page.load = "ready" /\ ~stale =>
    /\ DOMAIN page.listed = DOMAIN app.subs
    /\ \A i \in DOMAIN app.subs : page.listed[i].active = (app.active = i)

\* The running configuration the page shows is of the subscription and the
\* generation that its observation says are applied.
RuntimeDocumentIsCurrent ==
  page.doc # Nil /\ page.doc.kind = "runtime" =>
    seen.life = "ready" /\ seen.applied = [id |-> page.doc.id, gen |-> page.doc.gen]

\* What the page shows in a dialog or in the editor is of the subscription, and of the
\* core, that it shows it for.
ShownIsStored == FormShowsStored /\ RuntimeDocumentIsCurrent

\* A step changes no field of a subscription that the user did not touch in the
\* dialog it comes from: what is not shown (the user agent) or was not edited
\* stays.  A legacy name is cut when the dialog is saved, and an interval that was
\* not set is taken from the source.
UntouchedStays ==
  [][\A i \in DOMAIN app.subs \cap DOMAIN app'.subs :
       LET old == app.subs[i]
           new == app'.subs[i]
           Untouched(field) ==
             field \notin UNION {c.touched : c \in {d \in calls : d.id = i /\ d.answer = NoAnswer}}
       IN /\ Untouched("name") => new.name \in {old.name, safe_display_name(old.name)}
          /\ Untouched("desc") => new.desc = old.desc
          /\ Untouched("url") => new.url = old.url
          /\ Untouched("auto") => new.policy.auto = old.policy.auto
          /\ Untouched("interval") =>
               new.policy.interval = old.policy.interval \/ (old.policy.interval = Nil /\ new.policy.auto)
          /\ old.request # Nil =>
               /\ Untouched("ua") => new.request.ua = old.request.ua
               /\ Untouched("timeout") => new.request.timeout = old.request.timeout
               /\ Untouched("proxy") => new.request.proxy = old.request.proxy
               /\ Untouched("tls") => new.request.tls = old.request.tls]_pageVars

-----------------------------------------------------------------------------
(* The inductive invariant of LocksAreTrue *)

Pendings == {"dialog", "import", "update", "all", "delete", "selected", "share", "document", "running",
             "activate"}
WritePendings == {"dialog", "import", "update", "all", "delete", "selected"}
\* Of these commands one call is under way at a time.
Exclusive == Writes \cup {"activate", "save", "document", "running"}
Commands == Exclusive \cup {"settings", "share"}

Runs == [id : Ids, gen : Nat]
Switches == [op : Nat, status : {"queued", "applying", "cancelled", "failed", "ready"}]
Works == [op : Nat, id : Ids, cancel : BOOLEAN, stage : {"sent", "queued", "applying"}]
Awaitings == [id : Ids, op : Nat \cup {Nil}, current : BOOLEAN, gen : Nat]

\* Where there is none of these, the page and the application keep null.
QrDialogs == [epoch : Nat, mode : {"qr"}, id : Ids, loading : {FALSE}, settings : {Nil}, form : {defaultForm},
              original : {Blank}, touched : {{}}, confirmed : {FALSE}, share : {Nil}, picked : {{}}, sent : {FALSE}]
ASSUME NilAssumption ==
  Nil \notin Nat \cup Ids \cup Pendings \cup Runs \cup Switches \cup Works \cup Awaitings \cup QrDialogs
ASSUME RemoteAssumption == Nil \notin {FirstSubs[FirstSub].url, FirstSubs[FirstSub].request}

\* A core that is ready runs something, and no operation is recorded that the page has
\* not begun, or CoreMoves after it.
RecordFormed(o, n) ==
  /\ o.applied \in Runs \cup {Nil} /\ o.switch \in Switches \cup {Nil}
  /\ o.life = "ready" => o.applied # Nil
  /\ o.switch # Nil => o.switch.op <= n

AppFormed(a, n) ==
  /\ DOMAIN a = {"subs", "active", "gen", "life", "applied", "switch"}
  /\ DOMAIN a.subs \subseteq Ids /\ a.gen \in Nat
  /\ RecordFormed(a, n)

\* What the worker selects is there, and a generation is left for it.
WorkFits ==
  work # Nil =>
    /\ work \in Works /\ work.op <= used
    /\ work.id \in DOMAIN app.subs
    /\ app.active # work.id => work.stage # "applying" /\ app.gen < MaxGen

\* What an answer that was read says.
AnswerFormed(c) ==
  LET a == c.answer
  IN /\ a = NoAnswer \/ a.status \in {"error", "pending", "ok"}
     /\ a.status = "pending" => c.cmd = "activate"
     /\ a.status = "ok" =>
          /\ c.cmd \in {"import", "edit", "update"} => a.value.id \in Ids
          /\ c.cmd \in {"save", "activate"} => a.value.subscription.id \in Ids
          /\ c.cmd = "activate" => a.value.op = c.owner /\ a.value.current \in BOOLEAN /\ a.value.gen \in Nat

CallFormed(c, n) ==
  /\ DOMAIN c = {"cmd", "id", "owner", "arg", "waits", "touched", "answer"}
  /\ c.cmd \in Commands /\ c.owner \in Nat /\ c.waits \in BOOLEAN
  /\ c.cmd = "activate" => c.id \in Ids /\ c.owner <= n
  /\ AnswerFormed(c)

Listings == UNION {[S -> [active : BOOLEAN, kind : {"remote", "manual"}]] : S \in SUBSET Ids}
ListCalls == [load : BOOLEAN, answer : {NoAnswer, Failure} \cup [status : {"ok"}, value : Listings]]

PageFormed ==
  /\ DOMAIN page = {"load", "listed", "pending", "rest", "removed", "awaiting", "doc", "docEpoch"}
  /\ page.load \in {"idle", "loading", "ready", "error"}
  /\ DOMAIN page.listed \subseteq Ids
  /\ page.pending \in Pendings \cup {Nil}
  /\ page.awaiting \in Awaitings \cup {Nil}
  /\ page.docEpoch \in Nat

DialogFormed ==
  /\ epoch \in Nat
  /\ dialog # Nil =>
       /\ DOMAIN dialog = {"epoch", "mode", "id", "loading", "settings", "form", "original", "touched",
                           "confirmed", "share", "picked", "sent"}
       /\ dialog.epoch = epoch

Formed ==
  /\ AppFormed(app, used) /\ RecordFormed(seen, used)
  /\ \A c \in calls : CallFormed(c, used)
  /\ lists \in Seq(ListCalls) /\ used \in Nat
  /\ PageFormed /\ DialogFormed

\* Who holds what: one operation, one dialog or the editor.
LocksFit ==
  /\ \A c, d \in calls : c.cmd \in Exclusive /\ d.cmd \in Exclusive => c = d
  /\ page.pending \in WritePendings <=> \E c \in calls : c.cmd \in Writes
  /\ page.pending = "document" <=> \E c \in calls : c.cmd = "document"
  /\ page.pending = "running" <=> \E c \in calls : c.cmd = "running"
  /\ page.pending = "share" =>
       \E c \in calls : c.cmd = "share" /\ c.arg = Nil /\ isCurrentDialog(c, "qr")
  /\ dialog # Nil /\ dialog.mode = "qr" => page.pending \in {Nil, "share"}
  /\ page.pending = "activate" <=> page.awaiting # Nil
  /\ page.rest # {} => page.pending \in {"all", "selected"}
  /\ page.doc # Nil => dialog = Nil /\ page.pending = Nil
  /\ page.pending \in {"document", "running"} => dialog = Nil
  /\ (\E c \in calls : c.cmd = "save") => page.doc # Nil /\ page.doc.kind = "subscription"

\* The activation op has an end: the worker has it, the record tells how it ended, or
\* the record was overwritten.
Ends(a) == \/ work # Nil /\ work.op = a.op
           \/ activationCompletion(a, Observation(app))
           \/ disturbed

AnsweredAwaiting(c) ==
  IF c.answer.status = "pending" THEN Awaiting(c.id, c.owner, FALSE, 0)
  ELSE Awaiting(c.id, c.owner, c.answer.value.current, c.answer.value.gen)

\* What the worker has is waited for, by the command or by the page.
WorkIsAwaited ==
  work # Nil =>
    \/ \E c \in calls : c.cmd = "activate" /\ c.owner = work.op /\ c.waits
                          /\ c.answer.status \in {"none", "pending"}
    \/ page.awaiting # Nil /\ page.awaiting.op = work.op /\ ~page.awaiting.current

\* The record o does not tell the end of what is not over.
NotOver(o) ==
  o.switch # Nil =>
    /\ work # Nil /\ o.switch.op = work.op => o.switch.status \in {"queued", "applying"}
    /\ \A c \in calls : c.cmd = "activate" /\ ~c.waits => o.switch.op # c.owner

ActivationFits ==
  /\ WorkIsAwaited /\ NotOver(app) /\ NotOver(seen)
  /\ (\E c \in calls : c.cmd = "activate") => page.awaiting # Nil /\ page.awaiting.op = Nil
  /\ page.awaiting # Nil =>
       IF page.awaiting.op = Nil THEN \E c \in calls : c.cmd = "activate" ELSE Ends(page.awaiting)
  /\ \A c \in calls : c.cmd = "activate" =>
       /\ c.waits /\ c.answer = NoAnswer => work # Nil /\ work.op = c.owner
       /\ c.answer.status \in {"pending", "ok"} => Ends(AnsweredAwaiting(c))

\* The inductive invariant of the page's locks.
LocksIInv == StateValid(app) /\ Formed /\ WorkFits /\ LocksFit /\ ActivationFits

-----------------------------------------------------------------------------
(* The inductive invariant of what is shown and saved: ShownIsStored,          *)
(* EveryAnswerIsRead and UntouchedStays.  It stands on LocksIInv.              *)

PageUrls == [site : Sites \cup {Blank.site, BadUrl.site}, query : BOOLEAN]
ProxyNames == {"direct", "system", "managedCore"}
\* An interval is of an update that is on.
Policies == {p \in [auto : BOOLEAN, interval : Nat \cup {Nil}] : p.interval # Nil => p.auto}
RequestViews == [timeout : Nat, proxy : ProxyNames, tls : BOOLEAN]
StoredViews == [timeout : Nat, proxy : DOMAIN ProxyModes, tls : BOOLEAN]
ASSUME ViewAssumption == Nil \notin RequestViews \cup StoredViews

SubShaped(s) ==
  /\ DOMAIN s = {"name", "desc", "url", "request", "policy"}
  /\ s.policy \in Policies
  /\ s.url # Nil =>
       /\ s.url \in PageUrls
       /\ DOMAIN s.request = {"ua", "timeout", "proxy", "tls"}
       /\ s.request.timeout \in Nat /\ s.request.proxy \in DOMAIN ProxyModes /\ s.request.tls \in BOOLEAN
StoreShaped(a) == \A i \in DOMAIN a.subs : SubShaped(a.subs[i])

\* What the page makes of the settings of the subscription i.
View(i) == SubscriptionSettingsResponse(settings_for(app, i))
ViewShaped(x) ==
  /\ x.kind \in {"remote", "manual"}
  /\ x.kind = "remote" => x.request # Nil
  /\ x.request \in RequestViews \cup {Nil} /\ x.policy \in Policies

FormShaped(f) ==
  /\ DOMAIN f = DOMAIN defaultForm
  /\ f.url \in PageUrls
  /\ f.timeout \in Nat /\ f.proxy \in ProxyNames /\ {f.tls, f.auto} \subseteq BOOLEAN
  /\ f.interval \in Nat \cup {Nil}
  /\ f.kind = "remote" /\ f.interval # Nil => f.auto

ImportShaped(r) ==
  r.url # Nil =>
    /\ r.url \in PageUrls
    /\ r.options.timeout \in Nat /\ r.options.proxy \in ProxyNames /\ r.options.tls \in BOOLEAN
    /\ [auto |-> r.options.auto, interval |-> r.options.interval] \in Policies

EditShaped(r) ==
  /\ DOMAIN r = DOMAIN NoEdit(r.id)
  /\ r.url \subseteq PageUrls
  /\ \A p \in r.request :
       p.timeout \subseteq Nat /\ p.proxy \subseteq ProxyNames /\ p.tls \subseteq BOOLEAN
  /\ \A p \in r.policy : \E b \in p.auto, n \in p.interval :
       p.auto = {b} /\ p.interval = {n} /\ [auto |-> b, interval |-> n] \in Policies

\* Of a field that the user did not touch, the request r has no value, or the one of s.
EditKeeps(r, touched, s) ==
  LET Untouched(field) == field \notin touched
  IN /\ Untouched("name") => r.name \subseteq {s.name, safe_display_name(s.name)}
     /\ Untouched("desc") => r.desc \subseteq {s.desc}
     /\ Untouched("url") => r.url \subseteq {s.url}
     /\ s.url # Nil =>
          /\ \A p \in r.policy : /\ Untouched("auto") => p.auto \subseteq {s.policy.auto}
                                 /\ Untouched("interval") => p.interval \subseteq {s.policy.interval}
          /\ \A p \in r.request :
               /\ Untouched("ua") => p.ua = {} \/ (p.ua = {""} /\ s.request.ua = Nil)
               /\ Untouched("timeout") => p.timeout \subseteq {s.request.timeout}
               /\ Untouched("proxy") => p.proxy \subseteq {ProxyModes[s.request.proxy]}
               /\ Untouched("tls") => p.tls \subseteq {s.request.tls}

\* The fields of the dialog d that the user did not touch show s.
EditShows(d, s) ==
  LET Untouched(field) == field \notin d.touched
  IN /\ Untouched("name") => d.form.name = safe_display_name(s.name)
     /\ Untouched("desc") => d.form.desc = s.desc
     /\ d.form.kind = "remote" <=> s.url # Nil
     /\ s.url # Nil =>
          /\ d.original = s.url
          /\ Untouched("url") => d.form.url = s.url
          /\ Untouched("auto") => d.form.auto = s.policy.auto
          /\ Untouched("interval") => d.form.interval = s.policy.interval
          /\ Untouched("ua") => (d.form.ua = "preserve" <=> s.request.ua # Nil)
          /\ Untouched("ua") => d.form.ua \in {"preserve", "clash"}
          /\ Untouched("timeout") => d.form.timeout = s.request.timeout
          /\ Untouched("proxy") => d.form.proxy = ProxyModes[s.request.proxy]
          /\ Untouched("tls") => d.form.tls = s.request.tls

\* The requests under way are of the state they will change.
RequestsFit ==
  \A c \in calls : c.answer = NoAnswer =>
    /\ c.cmd = "import" => ImportShaped(c.arg)
    /\ c.cmd = "edit" =>
         /\ EditShaped(c.arg) /\ c.arg.id = c.id
         /\ c.id \in DOMAIN app.subs => EditKeeps(c.arg, c.touched, app.subs[c.id])

\* A batch updates or deletes.
BatchFits ==
  page.pending \in {"all", "selected"} =>
    \A c \in calls : c.cmd \in Writes => c.cmd \in {"update", "delete"}

\* The calls that a dialog reads with are told apart by their dialogs, and the form is
\* filled when none of its own is left.
Readings == {c \in calls : c.cmd \in {"settings", "share"}}
ReadingsFit ==
  /\ \A c \in Readings : c.owner <= epoch
  /\ \A c, d \in Readings : c.owner = d.owner => c = d
  /\ \A c \in Readings :
       /\ c.cmd = "settings" /\ c.answer.status = "ok" => ViewShaped(c.answer.value)
       /\ c.cmd = "share" /\ c.answer.status = "ok" => c.answer.value \in PageUrls
       /\ c.cmd = "share" /\ c.arg # Nil => ViewShaped(c.arg) /\ c.arg.kind = "remote"
  /\ dialog # Nil /\ dialog.mode = "edit" /\ ~dialog.loading => \A c \in Readings : c.owner # epoch

\* What was read for the dialog that is open is what is stored.
ReadingsTrue ==
  dialog # Nil /\ dialog.mode \in {"edit", "qr"} /\ dialog.id \in DOMAIN app.subs =>
    \A c \in Readings : c.owner = epoch /\ c.id = dialog.id =>
      /\ c.cmd = "settings" /\ c.answer.status = "ok" => c.answer.value = View(c.id)
      /\ c.cmd = "share" /\ c.answer.status = "ok" => c.answer.value = app.subs[c.id].url
      /\ c.cmd = "share" /\ c.arg # Nil => c.arg = View(c.id)

DialogShaped ==
  dialog # Nil =>
    /\ FormShaped(dialog.form) /\ {dialog.loading, dialog.sent} \subseteq BOOLEAN
    /\ dialog.mode \in {"create", "edit"} => dialog.form.kind \in {"remote", "manual"}
    /\ dialog.share # Nil => dialog.mode = "qr"
    /\ dialog.mode = "edit" =>
         /\ page.pending \in {Nil, "dialog"}
         /\ page.pending = "dialog" => ~dialog.loading /\ dialog.sent
         /\ \A c \in calls : c.cmd \in Writes => c.cmd = "edit"

\* What the dialog shows is what is stored, until what it sent is stored.
DialogTrue ==
  dialog # Nil /\ dialog.id \in DOMAIN app.subs =>
    /\ dialog.share # Nil => dialog.share = app.subs[dialog.id].url
    /\ dialog.mode = "edit" /\ ~dialog.loading =>
         \/ EditShows(dialog, app.subs[dialog.id])
         \/ dialog.sent /\ app.subs[dialog.id].name = "tabbed"
         \/ \E c \in calls : c.cmd = "edit" /\ c.answer.status = "ok"

\* The inductive invariant of what is shown.
ShownIInv ==
  /\ StoreShaped(app) /\ RequestsFit /\ BatchFits /\ ReadingsFit /\ ReadingsTrue /\ DialogShaped /\ DialogTrue

=============================================================================
