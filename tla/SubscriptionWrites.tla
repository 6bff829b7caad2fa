------------------------- MODULE SubscriptionWrites -------------------------
(***************************************************************************)
(* SubscriptionManager (application/subscription_management.rs) and the    *)
(* scheduler that calls it (application/subscription_scheduler.rs).        *)
(*                                                                         *)
(* Two clients ask for writes, the page and the scheduler.  A write takes  *)
(* the write flag, reads what it needs under the state gate, lets go of    *)
(* the gate to fetch, and takes it again to compare, change and save.      *)
(* Between these steps the other client, other writers of state.json, the  *)
(* remote server, the clock and shutdown may all move.                     *)
(*                                                                         *)
(* A body the server sends is told apart by the connection of its one node *)
(* and by its format; its validators are the body itself.  A document is   *)
(* the text of a JSON or YAML body, told apart by the same connection.     *)
(* Time passes in units of the shortest interval.  state.json exists from  *)
(* the start, so the emptiness check of a first import always succeeds.    *)
(***************************************************************************)
EXTENDS AppData

CONSTANTS
  Subs,         \* ids of subscriptions; one of them is there from the start
  First,        \* that one
  Urls,         \* source URLs
  Conns,        \* connections of nodes
  Intervals,    \* update intervals, in units of the shortest one
  MaxClock,     \* bound on time
  MaxAsks,      \* bound on the requests of the page
  MaxEvents     \* bound on what happens around the clients: a change of what a server
                \* holds, a contended gate, a failed save, a write of others, a restart

ASSUME BoundsAssumption ==
  /\ First \in Subs /\ Urls # {}
  /\ {MaxClock, MaxAsks, MaxEvents} \subseteq Nat
  /\ Intervals \subseteq Nat \ {0}

\* What is absent is no value.
ASSUME NamesAssumption ==
  /\ None \notin Subs /\ None \notin Urls /\ None \notin Conns /\ None \notin Intervals
  /\ None \notin {"page", "scheduler"}
  /\ None \notin [conn : Conns, format : {"document", "uris", "bad"}]

VARIABLES
  st,           \* state.json
  server,       \* what each URL serves
  clock,        \* the wall clock
  deadlines,    \* process_deadlines
  closing,      \* closing and closing_tx
  writing,      \* write_in_progress
  gate,         \* who holds the state gate over a save
  op,           \* what each client is doing
  pass,         \* scheduler_loop: "sleeping", "passing" over due, "done"
  due,          \* ids this pass has left
  quiet,        \* shutdown returned true
  budget,       \* what is used of the bounds
  tried,        \* by subscription, the last attempt of the scheduler and the shortest
                \* interval an attempt had since
  written       \* what the last other writer saved

vars == <<st, server, clock, deadlines, closing, writing, gate, op, pass, due, quiet, budget, tried, written>>

Clients == {"page", "scheduler"}

-----------------------------------------------------------------------------
(* Values *)

\* SubscriptionFormat: a JSON or YAML body is kept as document, a list of URIs is
\* not, and a bad body does not parse.
Formats == {"document", "uris", "bad"}
Bodies == [conn : Conns, format : Formats]

\* SubscriptionUpdatePolicy
Policies == [auto : BOOLEAN, interval : Intervals \cup {None}]
ManualPolicy == [auto |-> FALSE, interval |-> None]
ProfilePolicy == [auto |-> TRUE, interval |-> None]

\* document_for_body
DocumentFor(body) == IF body.format = "document" THEN [text |-> body.conn, override |-> FALSE] ELSE None

\* parse_content: the nodes of a body, none when it does not parse.
Drafts(conn) == {[conn |-> conn, label |-> CHOOSE l \in Labels : TRUE]}

\* adopt_profile_interval
AdoptProfileInterval(policy, profile) ==
  IF policy.auto /\ policy.interval = None THEN [policy EXCEPT !.interval = profile] ELSE policy

\* FetchResult, or the failure of the fetch.
Failed == [kind |-> "failed", body |-> None, validators |-> None, profile |-> None, same |-> TRUE]
Modified(body, validators, profile) ==
  [kind |-> "modified", body |-> body, validators |-> validators, profile |-> profile, same |-> TRUE]
NotModified(validators, profile, same) ==
  [kind |-> "notModified", body |-> None, validators |-> validators, profile |-> profile, same |-> same]

\* A 304 with or without validators of its own, if it is one to what was sent.
NotModifieds(body, conditional, profile) ==
  {NotModified(None, profile, FALSE)}
    \cup (IF conditional = body THEN {NotModified(v, profile, TRUE) : v \in {body, None}} ELSE {})

\* What may come back when the source URL holds body and the request had these
\* validators.  An answer that a redirect took to another origin (same is FALSE, the
\* code's validators_match_source) has its validators removed, and 304 from there is
\* no answer to ours, for they were not sent on.  Any of them may name an interval.
Answers(body, conditional) ==
  {Failed, Modified(body, None, None)}
    \cup {Modified(body, body, p) : p \in Intervals}
    \cup UNION {NotModifieds(body, conditional, p) : p \in Intervals \cup {None}}

\* update_snapshot: what an update compares with before it commits.
UpdateSnapshot(state, s) ==
  LET sub == state.subs[s]
  IN [url |-> sub.url, validators |-> sub.validators, policy |-> sub.policy, doc |-> sub.doc,
      nodes |-> UNION {NodesOf(state, p) : p \in ProvidersOf(state, s)}]

\* merge_metadata, for the validators.
MergeMetadata(previous, answer) ==
  IF answer.same /\ answer.validators = None THEN previous ELSE answer.validators

\* A request, by kind: a URL and a policy to import; a subscription to update, to
\* edit (None keeps the old value) or to delete; a document to save.
\* expected is the revision read_document gave the page, at some earlier time.
Request(kind, sub, url, policy, text, expected) ==
  [kind |-> kind, sub |-> sub, url |-> url, policy |-> policy, text |-> text, expected |-> expected]
Import(url, policy) == Request("import", None, url, policy, None, None)
ImportManual(text) == Request("importManual", None, None, ManualPolicy, text, None)
Update(s, text) == Request("update", s, None, ManualPolicy, text, None)
Edit(s, url, policy) == Request("edit", s, url, policy, None, None)
Delete(s) == Request("delete", s, None, ManualPolicy, None, None)
SaveDocument(s, text, expected) == Request("document", s, None, ManualPolicy, text, expected)

Requests ==
  {Import(u, ProfilePolicy) : u \in Urls}
    \cup {ImportManual(t) : t \in Conns}
    \cup {Update(s, t) : s \in Subs, t \in Conns \cup {None}}
    \cup {Edit(s, u, None) : s \in Subs, u \in Urls}
    \cup {Edit(s, None, p) : s \in Subs, p \in Policies}
    \cup {Edit(s, u, ProfilePolicy) : s \in Subs, u \in Urls}
    \cup {Delete(s) : s \in Subs}
    \cup {SaveDocument(s, t, e) : s \in Subs, t, e \in Conns}

\* phase: where the client is in its request; base: what it read; answer and at:
\* what was fetched, and when; next: the state it is about to save.
Doing(phase, request, base, answer, at, next) ==
  [phase |-> phase, request |-> request, base |-> base, answer |-> answer, at |-> at, next |-> next]
Asking(phase, request) == Doing(phase, request, None, None, 0, None)
Idle == Asking("idle", None)
Phases == {"idle", "admitted", "entered", "holding", "fetching", "ready", "failing", "saving"}
\* The write flag belongs to a client from the exchange to the drop of its guard.
Owning == Phases \ {"idle", "admitted"}

Sub(url, policy, body, validators, at) ==
  [remote |-> url # None, url |-> url, policy |-> policy, doc |-> DocumentFor(body),
   validators |-> IF url = None THEN None ELSE validators, attempt |-> at, success |-> at]

-----------------------------------------------------------------------------
(* The application starts with one subscription, selected and imported at time 0, *)
(* remote or manual.                                                              *)

Init ==
  \E body \in {b \in Bodies : b.format = "document"},
     source \in ({CHOOSE u \in Urls : TRUE} \X {p \in Policies : p.auto /\ p.interval # None})
                  \cup {<<None, ManualPolicy>>} :
    /\ st \in {[i EXCEPT !.active = First] :
                 i \in Imported(Empty, First, Sub(source[1], source[2], body, body, 0), Drafts(body.conn))}
    /\ server = [u \in Urls |-> body]
    /\ clock = 0
    /\ deadlines = NoFn
    /\ closing = FALSE /\ writing = FALSE /\ gate = None
    /\ op = [c \in Clients |-> Idle]
    /\ pass = "sleeping" /\ due = {}
    /\ quiet = FALSE
    /\ budget = [asks |-> 0, events |-> 0]
    /\ tried = NoFn
    /\ written = Follow

Spend(what, max) == budget[what] < max /\ budget' = [budget EXCEPT ![what] = @ + 1]

-----------------------------------------------------------------------------
(* begin_write_owned: closing is read, the flag is taken, closing is read again *)

Begin(c, request) ==
  /\ op[c].phase = "idle" /\ ~closing
  /\ op' = [op EXCEPT ![c] = Asking("admitted", request)]

\* The other client has the flag: Busy.
Enter(c) ==
  /\ op[c].phase = "admitted"
  /\ op' = [op EXCEPT ![c] = IF writing THEN Idle ELSE Asking("entered", op[c].request)]
  /\ writing' = TRUE
  /\ UNCHANGED <<st, server, clock, deadlines, closing, gate, pass, due, quiet, budget, tried, written>>

\* Mutant: closing is not read again once the flag is taken.
Recheck_Skipped(c) ==
  /\ op[c].phase = "entered"
  /\ op' = [op EXCEPT ![c] = Asking("holding", op[c].request)]
  /\ UNCHANGED <<st, server, clock, deadlines, closing, writing, gate, pass, due, quiet,
                 budget, tried, written>>

\* Mutant: the flag stays when the second look finds the manager closing.
Recheck_Leaks(c) ==
  /\ op[c].phase = "entered"
  /\ op' = [op EXCEPT ![c] = IF closing THEN Idle ELSE Asking("holding", op[c].request)]
  /\ UNCHANGED <<st, server, clock, deadlines, closing, writing, gate, pass, due, quiet,
                 budget, tried, written>>

Recheck(c) ==
  /\ op[c].phase = "entered"
  /\ op' = [op EXCEPT ![c] = IF closing THEN Idle ELSE Asking("holding", op[c].request)]
  /\ writing' = ~closing
  /\ UNCHANGED <<st, server, clock, deadlines, closing, gate, pass, due, quiet, budget, tried, written>>

\* The guard is dropped.
Released(c) == /\ op' = [op EXCEPT ![c] = Idle]
               /\ writing' = FALSE

\* Someone else has the gate: every try_lock may answer Busy.
GateBusy(c) ==
  /\ op[c].phase \in {"holding", "ready", "failing"}
  /\ Spend("events", MaxEvents)
  /\ Released(c)
  /\ UNCHANGED <<st, server, clock, deadlines, closing, gate, pass, due, quiet, tried, written>>

-----------------------------------------------------------------------------
(* What a request reads before it fetches *)

\* The subscription an edit asks for.
Edited(sub, request) ==
  [remote     |-> sub.remote,
   url        |-> IF request.url = None THEN sub.url ELSE request.url,
   policy     |-> IF request.policy = None THEN sub.policy ELSE request.policy,
   doc        |-> sub.doc,
   validators |-> sub.validators,
   attempt    |-> sub.attempt,
   success    |-> sub.success]

\* There is no unchanged content to keep: nothing was cached, or it was edited.
NothingCached(snapshot) == snapshot.nodes = {} \/ snapshot.doc = None \/ snapshot.doc.override

\* The validators an update sends.
Conditional(request, base) ==
  IF request.kind = "update" /\ ~NothingCached(base) THEN base.validators ELSE None

UrlOf(request, base) == IF request.kind = "update" THEN base.url ELSE request.url

Known(request) == request.sub \in DOMAIN st.subs

\* The request needs the network: a remote subscription is imported or updated, or
\* its URL changes.
Fetches(request) ==
  \/ request.kind = "import"
  \/ request.kind = "update" /\ Known(request) /\ st.subs[request.sub].remote /\ request.text = None
  \/ /\ request.kind = "edit" /\ Known(request) /\ st.subs[request.sub].remote
     /\ request.url \notin {None, st.subs[request.sub].url}

\* It does not: the content is in the request, or an edit leaves the URL alone.
Local(request) ==
  \/ request.kind = "importManual"
  \/ request.kind = "update" /\ Known(request) /\ ~st.subs[request.sub].remote /\ request.text # None
  \/ /\ request.kind = "edit" /\ Known(request)
     /\ st.subs[request.sub].remote \/ (request.url = None /\ request.policy = None)
     /\ request.url \in {None, st.subs[request.sub].url}

Reading(c) == op[c].phase = "holding" /\ gate = None

\* What the request will compare with before it commits.
BaseOf(request) ==
  CASE request.kind = "update" -> UpdateSnapshot(st, request.sub)
    [] request.kind = "edit" -> st
    [] OTHER -> None

StartFetch(c) ==
  LET request == op[c].request
  IN /\ Reading(c) /\ Fetches(request)
     /\ op' = [op EXCEPT ![c] = Doing("fetching", request, BaseOf(request), None, 0, None)]
     /\ UNCHANGED <<st, server, clock, deadlines, closing, writing, gate, pass, due, quiet,
                    budget, tried, written>>

\* Manual content is its own answer.
OwnAnswer(request) ==
  IF request.text = None THEN None
  ELSE Modified([conn |-> request.text, format |-> "document"], None, None)

StartLocal(c) ==
  LET request == op[c].request
  IN /\ Reading(c) /\ Local(request)
     /\ op' = [op EXCEPT ![c] = Doing("ready", request, BaseOf(request), OwnAnswer(request), clock, None)]
     /\ UNCHANGED <<st, server, clock, deadlines, closing, writing, gate, pass, due, quiet,
                    budget, tried, written>>

\* NotFound, InvalidInput, InvalidOptions.
Refuse(c) ==
  /\ Reading(c)
  /\ ~Fetches(op[c].request) /\ ~Local(op[c].request)
  /\ op[c].request.kind \in {"delete", "document"} => ~Known(op[c].request)
  /\ Released(c)
  /\ UNCHANGED <<st, server, clock, deadlines, closing, gate, pass, due, quiet, budget, tried, written>>

-----------------------------------------------------------------------------
(* The fetch ends *)

\* Mutant: what was tried is not remembered.
Remembered_Never(s, policy) == deadlines

\* remember_process_deadline
Remembered(s, policy) ==
  IF policy.interval = None THEN deadlines ELSE With(deadlines, s, clock + policy.interval)

Parses(answer) == answer.kind = "modified" /\ answer.body.format # "bad"

\* update_with_route: after an answer.
UpdateAnswered(request, base, answer) ==
  [phase  |-> IF Parses(answer) \/ (answer.kind = "notModified" /\ ~NothingCached(base))
              THEN "ready" ELSE "failing",
   policy |-> base.policy]

\* edit: only a new body is of use, and its policy is the edited one.
EditAnswered(request, base, answer) ==
  LET sub == base.subs[request.sub]
  IN [phase  |-> IF Parses(answer) THEN "ready" ELSE "failing",
      policy |-> IF answer.kind = "modified"
                 THEN AdoptProfileInterval(Edited(sub, request).policy, answer.profile)
                 ELSE sub.policy]

\* import: a failure leaves nothing behind.
ImportAnswered(request, base, answer) ==
  [phase |-> IF Parses(answer) THEN "ready" ELSE "idle", policy |-> ManualPolicy]

Answered(request, base, answer) ==
  CASE request.kind = "update" -> UpdateAnswered(request, base, answer)
    [] request.kind = "edit"   -> EditAnswered(request, base, answer)
    [] OTHER                   -> ImportAnswered(request, base, answer)

\* The scheduler may count on the shortest interval an attempt had since its own.
Attempted(c, s, interval) ==
  IF c = "scheduler" THEN With(tried, s, [at |-> clock, interval |-> interval])
  ELSE IF s \in DOMAIN tried /\ None \notin {interval, tried[s].interval} /\ interval < tried[s].interval
       THEN With(tried, s, [at |-> tried[s].at, interval |-> interval])
       ELSE tried

FetchEnds(c) ==
  LET request == op[c].request
      base == op[c].base
      url == UrlOf(request, base)
  IN /\ op[c].phase = "fetching" /\ ~closing
     /\ \E answer \in Answers(server[url], Conditional(request, base)) :
          LET then == Answered(request, base, answer)
          IN /\ op' = [op EXCEPT ![c] = IF then.phase = "idle" THEN Idle
                                        ELSE Doing(then.phase, request, base, answer, clock, None)]
             /\ writing' = (then.phase # "idle")
             /\ deadlines' = IF request.kind = "import" THEN deadlines ELSE Remembered(request.sub, then.policy)
             /\ tried' = Attempted(c, request.sub, then.policy.interval)
     /\ UNCHANGED <<st, server, clock, closing, gate, pass, due, quiet, budget, written>>

\* fetch_remote gives up once the manager is closing, and nothing is recorded.
FetchCancelled(c) ==
  /\ op[c].phase = "fetching" /\ closing
  /\ Released(c)
  /\ UNCHANGED <<st, server, clock, deadlines, closing, gate, pass, due, quiet, budget, tried, written>>

-----------------------------------------------------------------------------
(* Commit: compare and change under the gate *)

\* Mutant: the generation stays.
WithNodes_KeepsGeneration(state, s, conn, changed) ==
  UNION {ReplaceProvider(state, p, Drafts(conn)) : p \in ProvidersOf(state, s)}

\* The provider's nodes are replaced; the generation of the selected subscription
\* follows its nodes, and its document where that has changed.
WithNodes(state, s, conn, changed) ==
  UNION {UNION {BumpedIf(state.active = s /\ (changed \/ r.nodes # state.nodes), r) :
                  r \in ReplaceProvider(state, p, Drafts(conn))} : p \in ProvidersOf(state, s)}

\* What a new body leaves in the subscription.
WithBody(sub, answer, at) ==
  [remote     |-> sub.remote,
   url        |-> sub.url,
   policy     |-> AdoptProfileInterval(sub.policy, answer.profile),
   doc        |-> DocumentFor(answer.body),
   validators |-> IF sub.remote THEN answer.validators ELSE None,
   attempt    |-> at,
   success    |-> at]

\* What an answer without a body leaves in it.
Confirmed(sub, answer, at) ==
  [remote     |-> sub.remote,
   url        |-> sub.url,
   policy     |-> AdoptProfileInterval(sub.policy, answer.profile),
   doc        |-> sub.doc,
   validators |-> MergeMetadata(sub.validators, answer),
   attempt    |-> at,
   success    |-> at]

SetSub(state, s, sub) == [state EXCEPT !.subs = With(state.subs, s, sub)]

UpdateCandidates(state, s, answer, at) ==
  IF answer.kind = "modified"
  THEN {SetSub(n, s, WithBody(state.subs[s], answer, at)) : n \in WithNodes(state, s, answer.body.conn, FALSE)}
  ELSE {SetSub(state, s, Confirmed(state.subs[s], answer, at))}

EditCandidates(state, request, answer, at) ==
  LET s == request.sub
      edited == Edited(state.subs[s], request)
  IN IF answer = None THEN {SetSub(state, s, edited)}
     ELSE {SetSub(n, s, WithBody(edited, answer, at)) : n \in WithNodes(state, s, answer.body.conn, FALSE)}

\* commit_import, with a fresh id.
ImportCandidates(state, request, answer, at) ==
  LET sub == Sub(request.url, AdoptProfileInterval(request.policy, answer.profile), answer.body,
                 answer.validators, at)
  IN UNION {Imported(state, x, sub, Drafts(answer.body.conn)) : x \in Subs}

\* An edited text overrides what the server sent.
DocumentSaved(sub, text) ==
  [text |-> text, override |-> sub.doc.override \/ (text # sub.doc.text /\ sub.remote)]

WithDocument(sub, doc, validators) ==
  [remote |-> sub.remote, url |-> sub.url, policy |-> sub.policy, doc |-> doc,
   validators |-> validators, attempt |-> sub.attempt, success |-> sub.success]

\* Mutant: the validators of the server's document stay with the edited one.
DocumentSub_KeepsValidators(sub, text) ==
  WithDocument(sub, DocumentSaved(sub, text), sub.validators)

\* prepare_document_save: the validators are of the text before.
DocumentSub(sub, text) ==
  WithDocument(sub, DocumentSaved(sub, text), IF text # sub.doc.text THEN None ELSE sub.validators)

DocumentCandidates(state, s, text) ==
  {SetSub(n, s, DocumentSub(state.subs[s], text)) :
     n \in WithNodes(state, s, text, text # state.subs[s].doc.text)}

\* Mutant: the page may save over a document it has not read.
Unread_Allowed(request) == FALSE

\* DocumentConflict: the document is not the one the page read.
Unread(request) == st.subs[request.sub].doc.text # request.expected

\* prepare_document_save.  The write guard stays with what is prepared.
PrepareDocument(c) ==
  LET request == op[c].request
      s == request.sub
      prepared == IF st.subs[s].doc = None \/ Unread(request) THEN {}
                  ELSE {n \in DocumentCandidates(st, s, request.text) : Valid(n)}
  IN /\ Reading(c) /\ request.kind = "document" /\ Known(request)
     /\ \/ /\ \E next \in prepared :
                op' = [op EXCEPT ![c] = Doing("ready", request, st, None, 0, next)]
           /\ UNCHANGED writing
        \/ /\ prepared = {}
           /\ Released(c)
     /\ UNCHANGED <<st, server, clock, deadlines, closing, gate, pass, due, quiet, budget,
                    tried, written>>

\* The worker could not apply what is prepared, and drops it.
AbandonDocument(c) ==
  /\ op[c].phase = "ready" /\ op[c].request.kind = "document"
  /\ Released(c)
  /\ UNCHANGED <<st, server, clock, deadlines, closing, gate, pass, due, quiet, budget, tried, written>>

\* Mutant: an edit or a document is saved over whatever is there.
Unchanged_Unchecked(request, base) == TRUE

\* The state read before the fetch is the one that is there now, as far as the
\* request depends on it.
Unchanged(request, base) ==
  CASE request.kind = "update" -> Known(request) /\ UpdateSnapshot(st, request.sub) = base
    [] request.kind \in {"edit", "document"} -> st = base
    [] OTHER -> TRUE

Candidates(c) ==
  LET request == op[c].request
  IN CASE request.kind = "update" -> UpdateCandidates(st, request.sub, op[c].answer, op[c].at)
       [] request.kind = "edit" -> EditCandidates(st, request, op[c].answer, op[c].at)
       [] request.kind = "document" -> {op[c].next}
       [] OTHER -> ImportCandidates(st, request, op[c].answer, op[c].at)

\* validate, then ensure_commit_open: the gate stays taken over the save.
Committing(c, candidates) ==
  LET valid == {n \in candidates : Valid(n)}
  IN \/ /\ ~closing
        /\ \E next \in valid :
             op' = [op EXCEPT ![c] = Doing("saving", op[c].request, op[c].base, op[c].answer, op[c].at, next)]
        /\ gate' = c
        /\ UNCHANGED writing
     \/ /\ closing \/ valid = {}
        /\ Released(c)
        /\ UNCHANGED gate

Commit(c) ==
  /\ op[c].phase = "ready" /\ gate = None
  /\ IF Unchanged(op[c].request, op[c].base) THEN Committing(c, Candidates(c))
     ELSE Released(c) /\ UNCHANGED gate
  /\ UNCHANGED <<st, server, clock, deadlines, closing, pass, due, quiet, budget, tried, written>>

\* The attempt is all that is recorded of a failure.
AttemptedAt(sub, at) ==
  [remote |-> sub.remote, url |-> sub.url, policy |-> sub.policy, doc |-> sub.doc,
   validators |-> sub.validators, attempt |-> at, success |-> sub.success]

\* record_failed_attempt.  An edit that failed leaves the subscription as it was.
RecordFailedAttempt(c) ==
  LET s == op[c].request.sub
      snapshot == IF op[c].request.kind = "edit" THEN UpdateSnapshot(op[c].base, s) ELSE op[c].base
  IN /\ op[c].phase = "failing" /\ gate = None
     /\ IF s \in DOMAIN st.subs /\ UpdateSnapshot(st, s) = snapshot
        THEN Committing(c, {SetSub(st, s, AttemptedAt(st.subs[s], op[c].at))})
        ELSE Released(c) /\ UNCHANGED gate
     /\ UNCHANGED <<st, server, clock, deadlines, closing, pass, due, quiet, budget, tried, written>>

\* delete: the caller says whether the runtime is stopped.
DeleteSubscription(c) ==
  LET s == op[c].request.sub
  IN /\ Reading(c) /\ op[c].request.kind = "delete" /\ Known(op[c].request)
     /\ \E stopped \in BOOLEAN :
          Committing(c, IF st.active = s /\ ~stopped THEN {} ELSE Deleted(st, s))
     /\ UNCHANGED <<st, server, clock, deadlines, closing, pass, due, quiet, budget, tried, written>>

Save(c) ==
  /\ op[c].phase = "saving"
  /\ st' = op[c].next
  /\ gate' = None
  /\ Released(c)
  /\ UNCHANGED <<server, clock, deadlines, closing, pass, due, quiet, budget, tried, written>>

SaveFails(c) ==
  /\ op[c].phase = "saving"
  /\ Spend("events", MaxEvents)
  /\ gate' = None
  /\ Released(c)
  /\ UNCHANGED <<st, server, clock, deadlines, closing, pass, due, quiet, tried, written>>

-----------------------------------------------------------------------------
(* The page *)

\* It asks about what it lists.
Ask(request) ==
  /\ request.sub \in DOMAIN st.subs \cup {None}
  /\ Spend("asks", MaxAsks)
  /\ Begin("page", request)
  /\ UNCHANGED <<st, server, clock, deadlines, closing, writing, gate, pass, due, quiet, tried, written>>

-----------------------------------------------------------------------------
(* The scheduler *)

Later(a, b) == IF a > b THEN a ELSE b

\* due_subscription_ids: neither the persisted nor the remembered deadline is ahead.
Due(s) ==
  LET sub == st.subs[s]
  IN /\ sub.remote /\ sub.policy.auto /\ sub.policy.interval # None
     /\ clock >= Later(sub.attempt, sub.success) + sub.policy.interval
     /\ s \in DOMAIN deadlines => clock >= deadlines[s]

DueIds == {s \in DOMAIN st.subs : Due(s)}

\* The sleep is over.
StartPass ==
  /\ pass = "sleeping" /\ ~closing /\ gate = None
  /\ DueIds # {}
  /\ pass' = "passing" /\ due' = DueIds
  /\ UNCHANGED <<st, server, clock, deadlines, closing, writing, gate, op, quiet, budget, tried, written>>

\* run_scheduler_tick: each of them once, whatever came of the one before.
NextDue ==
  /\ pass = "passing" /\ op["scheduler"].phase = "idle"
  /\ \E s \in due : Begin("scheduler", Update(s, None)) /\ due' = due \ {s}
  /\ UNCHANGED <<st, server, clock, deadlines, closing, writing, gate, pass, quiet, budget, tried, written>>

\* Mutant: the loop ends with its first pass.
EndPass_EndsLoop ==
  /\ pass = "passing" /\ due = {} /\ op["scheduler"].phase = "idle" /\ ~closing
  /\ pass' = "done"
  /\ UNCHANGED <<st, server, clock, deadlines, closing, writing, gate, op, due, quiet, budget, tried, written>>

EndPass ==
  /\ pass = "passing" /\ due = {} /\ op["scheduler"].phase = "idle" /\ ~closing
  /\ pass' = "sleeping"
  /\ UNCHANGED <<st, server, clock, deadlines, closing, writing, gate, op, due, quiet, budget, tried, written>>

\* Mutant: only the sleep watches for closing.
Stop_FromSleepOnly ==
  /\ closing /\ pass = "sleeping" /\ op["scheduler"].phase = "idle"
  /\ pass' = "done"
  /\ UNCHANGED <<st, server, clock, deadlines, closing, writing, gate, op, due, quiet, budget, tried, written>>

\* scheduler_loop sees closing where it waits; a fetch it waits for is dropped.
Stop ==
  /\ closing /\ pass # "done" /\ op["scheduler"].phase \in {"idle", "fetching"}
  /\ pass' = "done" /\ due' = {}
  /\ op' = [op EXCEPT !["scheduler"] = Idle]
  /\ writing' = (writing /\ op["scheduler"].phase = "idle")
  /\ UNCHANGED <<st, server, clock, deadlines, closing, gate, quiet, budget, tried, written>>

-----------------------------------------------------------------------------
(* Shutdown *)

RequestStop ==
  /\ ~closing
  /\ closing' = TRUE
  /\ UNCHANGED <<st, server, clock, deadlines, writing, gate, op, pass, due, quiet, budget, tried, written>>

\* shutdown_quiescent: with the gate in hand, nobody owns the write flag.
Quiescent == ~writing /\ gate = None

\* SubscriptionScheduler::shutdown returns true.
ShutDown ==
  /\ closing /\ pass = "done" /\ ~quiet /\ Quiescent
  /\ quiet' = TRUE
  /\ UNCHANGED <<st, server, clock, deadlines, closing, writing, gate, op, pass, due, budget, tried, written>>

\* The application ends, in the middle of anything, and starts again.
Restart ==
  /\ Spend("events", MaxEvents)
  /\ deadlines' = NoFn /\ closing' = FALSE /\ writing' = FALSE /\ gate' = None
  /\ op' = [c \in Clients |-> Idle]
  /\ pass' = "sleeping" /\ due' = {} /\ quiet' = FALSE
  /\ tried' = NoFn
  /\ UNCHANGED <<st, server, clock, written>>

-----------------------------------------------------------------------------
(* The rest of the world *)

\* Another writer of state.json under the gate (the routing service sets the default).
OtherWrites ==
  /\ gate = None /\ ~quiet
  /\ Spend("events", MaxEvents)
  /\ \E t \in {Follow, Direct} \ {st.target} :
       st' = [st EXCEPT !.target = t] /\ written' = t
  /\ UNCHANGED <<server, clock, deadlines, closing, writing, gate, op, pass, due, quiet, tried>>

Serve ==
  /\ Spend("events", MaxEvents)
  /\ \E u \in Urls, b \in Bodies : b # server[u] /\ server' = [server EXCEPT ![u] = b]
  /\ UNCHANGED <<st, clock, deadlines, closing, writing, gate, op, pass, due, quiet, tried, written>>

Tick ==
  /\ clock < MaxClock
  /\ clock' = clock + 1
  /\ UNCHANGED <<st, server, deadlines, closing, writing, gate, op, pass, due, quiet, budget, tried, written>>

-----------------------------------------------------------------------------
Step(c) ==
  \/ Enter(c) \/ Recheck(c) \/ GateBusy(c)
  \/ StartFetch(c) \/ StartLocal(c) \/ Refuse(c)
  \/ FetchEnds(c) \/ FetchCancelled(c)
  \/ PrepareDocument(c) \/ AbandonDocument(c) \/ DeleteSubscription(c)
  \/ Commit(c) \/ RecordFailedAttempt(c) \/ Save(c) \/ SaveFails(c)

Next ==
  \/ \E c \in Clients : Step(c)
  \/ \E request \in Requests : Ask(request)
  \/ StartPass \/ NextDue \/ EndPass \/ Stop
  \/ RequestStop \/ ShutDown \/ Restart
  \/ OtherWrites \/ Serve \/ Tick

\* A client that holds the flag goes on: every fetch has a timeout, and nothing
\* else waits.  The scheduler and shutdown are threads of the runtime.
Fairness ==
  /\ \A c \in Clients : WF_vars(Step(c))
  /\ WF_vars(StartPass) /\ WF_vars(NextDue) /\ WF_vars(EndPass) /\ WF_vars(Stop)
  /\ WF_vars(ShutDown)

Spec == Init /\ [][Next]_vars
FairSpec == Spec /\ Fairness

-----------------------------------------------------------------------------
(* Properties *)

SubType(s) ==
  /\ s.remote \in BOOLEAN
  /\ s.url \in Urls \cup {None}
  /\ s.validators \in Bodies \cup {None}
  /\ s.policy \in Policies
  /\ s.doc = None \/ s.doc \in [text : Conns, override : BOOLEAN]
  /\ {s.attempt, s.success} \subseteq 0..MaxClock

Typed(state) == \A s \in DOMAIN state.subs : s \in Subs /\ SubType(state.subs[s])

\* The write flag is up exactly while one client owns it, and only that client has
\* the gate over a save; what is saved is valid.
TypeOK ==
  /\ Valid(st) /\ Typed(st)
  /\ server \in [Urls -> Bodies]
  /\ clock \in 0..MaxClock
  /\ DOMAIN deadlines \subseteq Subs /\ \A s \in DOMAIN deadlines : deadlines[s] \in Nat
  /\ closing \in BOOLEAN /\ writing \in BOOLEAN /\ quiet \in BOOLEAN
  /\ gate \in Clients \cup {None}
  /\ \A c \in Clients : op[c].phase \in Phases
  /\ pass \in {"sleeping", "passing", "done"} /\ due \subseteq Subs
  /\ writing <=> \E c \in Clients : op[c].phase \in Owning
  /\ \A c, d \in Clients : {op[c].phase, op[d].phase} \subseteq Owning => c = d
  /\ \A c \in Clients : gate = c <=> op[c].phase = "saving"

\* The validators, where there are any, are those of the content.
ConnsOf(nodes) == {n.conn : n \in nodes}
Names(sub, nodes) ==
  sub.validators # None =>
    /\ ConnsOf(nodes) = {sub.validators.conn}
    /\ sub.doc = DocumentFor(sub.validators)
Honest(state) == \A s \in DOMAIN state.subs : Names(state.subs[s], NodesOf(state, s))

\* The validators update_with_route will send name the very content that is stored
\* and come from the URL that is stored, so that a 304 may keep it: not after an
\* edit of the document, of the URL, or an answer without validators.
ValidatorsNameContent == Honest(st)

\* The routing service's writes survive every commit of the manager, whatever was
\* read before a fetch.
OthersSurvive == st.target = written

\* Once shutdown returned true nobody is past begin_write_owned, and so nothing is
\* fetched or saved any more.
QuietAfterShutdown ==
  quiet => \A c \in Clients : op[c].phase \in {"idle", "admitted", "entered"}

\* The write flag is set exactly while one client owns it, the gate is held exactly
\* over a save, and after a shutdown nobody owns either.
Consistent == TypeOK /\ QuietAfterShutdown

\* The scheduler's attempts at one subscription are an interval apart, also when the
\* earlier one failed and could not be recorded.  An attempt of the page in between may
\* have had a shorter interval, which is then the one that counts.
AttemptsAreSpaced ==
  [][\A s \in DOMAIN tried :
       /\ op["scheduler"].phase # "fetching" /\ op'["scheduler"].phase = "fetching"
       /\ op'["scheduler"].request.sub = s /\ tried[s].interval # None
       => clock >= tried[s].at + tried[s].interval]_vars

\* A step that changes the nodes of the selected subscription raises the generation.
GenerationFollowsNodes ==
  [][(st'.active = st.active /\ st.active # None /\ OwnNodes(st)' # OwnNodes(st)) => st'.gen > st.gen]_vars

\* A document is only ever replaced by one that was written after reading it.
DocumentsAreRead ==
  [][\A s \in DOMAIN st.subs \cap DOMAIN st'.subs :
       (st'.subs[s].doc # None /\ st'.subs[s].doc.override /\ st'.subs[s].doc # st.subs[s].doc)
         => st.subs[s].doc # None /\ op["page"].request.expected = st.subs[s].doc.text]_vars

\* What a commit may do to the selected subscription and to a document: no change of
\* nodes without a new generation, and no override of a text nobody read.
CommitsAreJustified == GenerationFollowsNodes /\ DocumentsAreRead

\* Shutdown returns true: whoever holds the flag lets go of it, unless the
\* application ends before.
ShutdownEnds == closing ~> (quiet \/ ~closing)

\* A subscription that is due is attempted, or is due no longer, or there is no
\* scheduler any more.
DueIsAttempted == \A s \in Subs : (s \in DueIds) ~> (s \notin DueIds \/ closing)

-----------------------------------------------------------------------------
(* The inductive invariant *)

\* What holds of a state that is stored or about to be.
Sound(state) == WellFormed(state) /\ Valid(state) /\ Typed(state) /\ Honest(state)

\* next may be saved over state: nobody else's target is lost, new nodes have a new
\* generation, and only a document that was read is overridden.
Overrides(state, next, s) ==
  /\ next.subs[s].doc # None /\ next.subs[s].doc.override
  /\ next.subs[s].doc # state.subs[s].doc
Justified(state, next, request) ==
  /\ next.target = state.target
  /\ next.active = state.active /\ state.active # None /\ OwnNodes(next) # OwnNodes(state)
     => next.gen > state.gen
  /\ \A s \in DOMAIN state.subs \cap DOMAIN next.subs : Overrides(state, next, s) =>
       /\ request.kind = "document" /\ state.subs[s].doc # None
       /\ request.expected = state.subs[s].doc.text

\* A request has what its kind needs.
Complete(request) ==
  /\ request.kind \in {"import", "importManual", "update", "edit", "delete", "document"}
  /\ request.url \in Urls \cup {None} /\ (request.kind = "import" => request.url \in Urls)
  /\ request.policy \in Policies \cup {None} /\ (request.kind # "edit" => request.policy \in Policies)
  /\ request.text \in Conns \cup {None}
  /\ request.kind \in {"importManual", "document"} => request.text \in Conns
  /\ request.kind \in {"import", "edit"} => request.text = None
  /\ request.sub \in Subs \cup {None}
  /\ request.kind \in {"update", "edit", "delete", "document"} => request.sub \in Subs

\* A fetch has a URL to ask, and a policy to wait by when it fails.
Fetchable(request, base) ==
  /\ request.kind \in {"import", "update", "edit"}
  /\ request.kind = "update" => base.url \in Urls /\ base.policy \in Policies
  /\ request.kind = "edit" => /\ request.url \in Urls /\ request.sub \in DOMAIN base.subs
                              /\ base.subs[request.sub].policy \in Policies

\* An answer is a body with its own validators, or confirms those that were sent.
Usable(answer) ==
  /\ answer.kind = "modified" /\ answer.body \in Bodies
  /\ answer.validators \in {answer.body, None}
  /\ answer.profile \in Intervals \cup {None}
Confirms(base, answer) ==
  /\ answer.kind = "notModified" /\ answer.validators \in {base.validators, None}
  /\ answer.profile \in Intervals \cup {None}

Committable(o) ==
  /\ o.at \in 0..MaxClock
  /\ o.request.kind \in {"import", "importManual", "update", "edit", "document"}
  /\ o.request.kind = "update" => Usable(o.answer) \/ Confirms(o.base, o.answer)
  /\ o.request.kind = "edit" => /\ o.request.sub \in DOMAIN o.base.subs
                                /\ o.answer = None \/ Usable(o.answer)
  /\ o.request.kind \in {"import", "importManual"} => Usable(o.answer)
  /\ o.request.kind = "document" => Sound(o.next) /\ Justified(o.base, o.next, o.request)

\* What a client knows where it is.
Kept(c, o, state) ==
  /\ o.phase # "idle" => Complete(o.request)
  /\ o.phase # "idle" /\ c = "scheduler" => o.request.kind = "update"
  /\ o.phase = "fetching" => Fetchable(o.request, o.base)
  /\ o.phase = "ready" => Committable(o)
  /\ o.phase = "failing" => o.request.kind \in {"update", "edit"} /\ o.at \in 0..MaxClock
  /\ o.phase = "saving" => Sound(o.next) /\ Justified(state, o.next, o.request)

\* The scheduler works off one pass after the other, and what it takes up in one is
\* over the interval its last attempt has to keep.
TakenUp(s) ==
  \/ s \in due
  \/ op["scheduler"].phase \in {"admitted", "entered", "holding"} /\ op["scheduler"].request.sub = s
Spaced ==
  \A s \in DOMAIN tried :
    /\ tried[s].at \in 0..clock /\ tried[s].interval \in Intervals \cup {None}
    /\ tried[s].interval # None =>
         /\ s \in DOMAIN deadlines /\ deadlines[s] >= tried[s].at + tried[s].interval
         /\ TakenUp(s) => clock >= tried[s].at + tried[s].interval
PassKept ==
  /\ pass # "passing" => due = {} /\ op["scheduler"].phase = "idle"
  /\ op["scheduler"].phase # "idle" => op["scheduler"].request.sub \notin due

IInv ==
  /\ TypeOK
  /\ op = [c \in Clients |-> op[c]]
  /\ Sound(st)
  /\ \A c \in Clients : Kept(c, op[c], st)
  /\ PassKept /\ Spaced
  /\ QuietAfterShutdown /\ (quiet => closing)
  /\ OthersSurvive
=============================================================================
