------------------------ MODULE SubscriptionEdgeProofs ------------------------
(***************************************************************************)
(* Proofs for the two edges of a subscription.                             *)
(*                                                                         *)
(* SubscriptionPipeline, where it comes from: whatever servers answer, a   *)
(* request stays with its source, and whatever callers do, the editor's    *)
(* flag, its threads and its callers fit together.  What the parser and    *)
(* the compiler make of a text is opaque here.                             *)
(*                                                                         *)
(* SubscriptionPage, where it is shown: however late answers are, the page *)
(* has one operation, one dialog or the editor, and nothing pending that   *)
(* has no end; what the editor shows of the core is what the observation   *)
(* says.  Who holds what is not inductive by itself: LocksIInv adds that   *)
(* what the worker has is waited for, that the record never tells the end  *)
(* of what is not over, and that no operation is recorded before it began. *)
(*                                                                         *)
(* What a dialog shows is what is stored, every answer can be read, and a  *)
(* write changes nothing that the user did not touch.  ShownIInv adds to   *)
(* LocksIInv what is under way: a request has no value for what was not    *)
(* touched, or the one that is stored, and what was read for the dialog    *)
(* that is open is what is stored.                                         *)
(***************************************************************************)
EXTENDS SubscriptionPage, SubscriptionPipeline, FiniteSetTheorems, SequenceTheorems, TLAPS

-----------------------------------------------------------------------------
(* The pipeline *)

(* A set of at most one element has at most one.                           *)
LEMMA SmallSet == ASSUME NEW S, AtMostOne(S) PROVE Cardinality(S) <= 1
<1>1. CASE S = {} BY <1>1, FS_EmptySet
<1>2. CASE S # {}
  <2>1. PICK x : x \in S BY <1>2
  <2>2. \A y : y \in S <=> y = x BY <2>1, Zenon DEF AtMostOne
  <2>3. S = {x} BY <2>2, Zenon
  <2>4. Cardinality({x}) = 1 BY FS_Singleton, Zenon
  <2> QED BY <2>3, <2>4
<1> QED BY <1>1, <1>2

(* What the client asks for: only https, or loopback.                      *)
LEMMA UrlFacts ==
  \A u \in Urls : u.scheme \in {"http", "https"} /\ origin(u) \in Urls
BY DEF Urls, origin

(* The fields of a request after a redirect that is followed.              *)
LEMMA RedirectFields ==
  ASSUME NEW u \in Urls, fetch \in FetchRecords
  PROVE  /\ Redirected(u) \in FetchRecords
         /\ Redirected(u).at = fetch.at /\ Redirected(u).source = fetch.source
         /\ Redirected(u).asked = fetch.asked \cup {u.scheme}
         /\ Redirected(u).kept = fetch.kept
         /\ Redirected(u).sent \subseteq fetch.sent \cup {origin(fetch.source)}
<1> DEFINE sent == IF fetch.conditional /\ origin(u) = origin(fetch.source)
                   THEN fetch.sent \cup {origin(u)} ELSE fetch.sent
           f1 == [fetch EXCEPT !.url = u]
           f2 == [f1 EXCEPT !.hops = fetch.hops + 1]
           f3 == [f2 EXCEPT !.asked = fetch.asked \cup {u.scheme}]
           f4 == [f3 EXCEPT !.sent = sent]
<1>0. Redirected(u) = f4 BY DEF Redirected
<1>s. sent \in SUBSET Urls /\ sent \subseteq fetch.sent \cup {origin(fetch.source)}
  BY UrlFacts DEF FetchRecords
<1> HIDE DEF sent
<1>1. /\ f1 \in FetchRecords /\ f1.at = fetch.at /\ f1.source = fetch.source
      /\ f1.kept = fetch.kept
  BY DEF FetchRecords
<1> HIDE DEF f1
<1>2. /\ f2 \in FetchRecords /\ f2.at = fetch.at /\ f2.source = fetch.source
      /\ f2.kept = fetch.kept
  BY <1>1 DEF FetchRecords
<1> HIDE DEF f2
<1>3. /\ f3 \in FetchRecords /\ f3.at = fetch.at /\ f3.source = fetch.source
      /\ f3.kept = fetch.kept /\ f3.asked = fetch.asked \cup {u.scheme}
  BY <1>2, UrlFacts DEF FetchRecords
<1> HIDE DEF f3
<1>4. /\ f4 \in FetchRecords /\ f4.at = fetch.at /\ f4.source = fetch.source
      /\ f4.kept = fetch.kept /\ f4.asked = fetch.asked \cup {u.scheme} /\ f4.sent = sent
  BY <1>3, <1>s DEF FetchRecords
<1> QED BY <1>0, <1>s, <1>4

LEMMA FetchStepInv == ASSUME IInv, FetchStep PROVE StaysWithSource' /\ FetchShape'
<1>0. StaysWithSource /\ FetchShape BY DEF IInv
<1> USE DEF StaysWithSource, ValidatorsBelongToSource, NeverDowngraded
<1>1. ASSUME NEW u \in Urls, NEW c \in BOOLEAN, StartFetch(u, c)
      PROVE  StaysWithSource' /\ FetchShape'
  <2>1. fetch' \in FetchRecords BY <1>1, UrlFacts DEF StartFetch, FetchRecords, None
  <2> QED BY <1>1, <2>1 DEF StartFetch, FetchShape, None
<1>2. ASSUME NEW u \in Urls, Redirect(u) PROVE StaysWithSource' /\ FetchShape'
  <2>0. fetch \in FetchRecords BY <1>0, <1>2 DEF Redirect, FetchShape, FetchRecords, Quiet
  <2>1. CASE fetch' = Redirected(u) /\ validate_url(u, fetch.source.scheme)
    <3>1. fetch.at = "asking" BY <1>2 DEF Redirect
    <3> QED BY <1>0, <2>0, <2>1, <3>1, RedirectFields DEF FetchShape, validate_url
  <2>2. CASE fetch' = [fetch EXCEPT !.at = "failed"]
    BY <1>0, <1>2, <2>0, <2>2 DEF Redirect, FetchShape, FetchRecords
  <2> QED BY <1>2, <2>1, <2>2 DEF Redirect
<1>3. ASSUME NEW at \in {"modified", "unchanged"}, NEW v \in BOOLEAN, Answer(at, v)
      PROVE  StaysWithSource' /\ FetchShape'
  <2>0. fetch \in FetchRecords BY <1>0, <1>3 DEF Answer, FetchShape, FetchRecords, Quiet
  <2> QED BY <1>0, <1>3, <2>0, UrlFacts DEF Answer, FetchShape, FetchRecords
<1>4. CASE ReadBody BY <1>4 DEF ReadBody, FetchShape
<1>5. CASE FetchFails
  <2>0. fetch \in FetchRecords BY <1>0, <1>5 DEF FetchFails, FetchShape, FetchRecords, Quiet
  <2> QED BY <1>0, <1>5, <2>0 DEF FetchFails, FetchShape, FetchRecords
<1> QED BY <1>1, <1>2, <1>3, <1>4, <1>5 DEF FetchStep

(* Everybody else leaves the request alone, or takes what it has received. *)
LEMMA FetchInv == ASSUME IInv, [Next]_vars PROVE StaysWithSource' /\ FetchShape'
<1>1. CASE FetchStep BY <1>1, FetchStepInv
<1>2. CASE Deliver
  BY <1>2 DEF Deliver, Quiet, FetchShape, StaysWithSource, ValidatorsBelongToSource, NeverDowngraded
<1>3. CASE UNCHANGED fetch
  BY <1>3 DEF IInv, FetchShape, StaysWithSource, ValidatorsBelongToSource, NeverDowngraded
<1> QED BY <1>1, <1>2, <1>3 DEF Next, vars, Read, Compile, Finalize, AskEditor, WorkDone,
                                WorkSent, TimeOut

(* The flag is taken before a thread starts and is dropped by the thread.  *)
LEMMA ThreadInv ==
  ASSUME IInv, [Next]_vars
  PROVE  /\ OneThread' /\ working' \in BOOLEAN
         /\ thread' \in [Editors -> {"none", "running", "done"}]
         /\ editor' \in [Editors -> SUBSET EditorTexts]
         /\ \A r \in Editors : (editor'[r] # None => thread'[r] # "none") /\ AtMostOne(editor'[r])
<1> DEFINE P == /\ OneThread' /\ working' \in BOOLEAN
                /\ thread' \in [Editors -> {"none", "running", "done"}]
                /\ editor' \in [Editors -> SUBSET EditorTexts]
                /\ \A r \in Editors :
                     (editor'[r] # None => thread'[r] # "none") /\ AtMostOne(editor'[r])
<1>0. /\ OneThread /\ working \in BOOLEAN
      /\ thread \in [Editors -> {"none", "running", "done"}]
      /\ editor \in [Editors -> SUBSET EditorTexts]
      /\ \A r \in Editors : (editor[r] # None => thread[r] # "none") /\ AtMostOne(editor[r])
  BY DEF IInv, Consistent, TypeOK
<1>s. AtMostOne(None) /\ \A t : AtMostOne({t}) BY Zenon DEF AtMostOne, None
<1> USE DEF OneThread
<1>1. ASSUME NEW r \in Editors, NEW t \in EditorTexts, AskEditor(r, t) PROVE P
  BY <1>0, <1>1, <1>s DEF AskEditor, Waiting, Some, None
<1>2. ASSUME NEW r \in Editors, WorkDone(r) PROVE P BY <1>0, <1>2 DEF WorkDone
<1>3. ASSUME NEW r \in Editors, WorkSent(r) PROVE P
  BY <1>0, <1>3, <1>s DEF WorkSent, None
<1>4. ASSUME NEW r \in Editors, TimeOut(r) PROVE P BY <1>0, <1>4, <1>s DEF TimeOut, None
<1>5. CASE UNCHANGED <<working, thread, editor>> BY <1>0, <1>5
<1> QED BY <1>1, <1>2, <1>3, <1>4, <1>5
        DEF Next, vars, FetchStep, StartFetch, Redirect, Answer, ReadBody, FetchFails, Deliver,
            Read, Compile, Finalize

(* A text that is there is of the server, of the user or of the editor.    *)
LEMMA TextInv ==
  ASSUME IInv, [Next]_vars
  PROVE  AtMostOne(body') /\ AtMostOne(nodes') /\ (\A d \in body' : DOMAIN d = TextFields)
<1>0. AtMostOne(body) /\ AtMostOne(nodes) /\ (\A d \in body : DOMAIN d = TextFields)
      /\ \A r \in Editors : editor[r] \subseteq EditorTexts /\ AtMostOne(editor[r])
  BY DEF IInv, Consistent, TypeOK
<1>1. CASE Deliver BY <1>0, <1>1, TextsAssumption DEF Deliver, AtMostOne, Some
<1>2. CASE Read BY <1>0, <1>2 DEF Read, AtMostOne, Some
<1>3. ASSUME NEW r \in Editors, WorkSent(r)
      PROVE  AtMostOne(body') /\ AtMostOne(nodes') /\ (\A d \in body' : DOMAIN d = TextFields)
  <2>1. CASE UNCHANGED <<body, nodes>> BY <1>0, <2>1
  <2>2. CASE body' = {t.doc : t \in editor[r]} /\ UNCHANGED nodes
    BY <1>0, <2>2, TextsAssumption DEF AtMostOne
  <2> QED BY <1>3, <2>1, <2>2 DEF WorkSent
<1>4. CASE UNCHANGED <<body, nodes>> BY <1>0, <1>4
<1> QED BY <1>1, <1>2, <1>3, <1>4
        DEF Next, vars, FetchStep, StartFetch, Redirect, Answer, ReadBody, FetchFails, Compile,
            Finalize, AskEditor, WorkDone, TimeOut

(* A plan is compiled once and finished once.                              *)
LEMMA PlanInv ==
  ASSUME IInv, [Next]_vars
  PROVE  PlanShape' /\ plan'.at \in {"none", "refused", "compiled", "unfinished", "final"}
<1>0. PlanShape /\ plan.at \in {"none", "refused", "compiled", "unfinished", "final"}
  BY DEF IInv, Consistent, TypeOK
<1>1. ASSUME NEW s \in Shapes, Compile(s)
      PROVE  PlanShape' /\ plan'.at \in {"none", "refused", "compiled", "unfinished", "final"}
  BY <1>1 DEF Compile, PlanShape
<1>2. CASE Finalize
  <2>0. DOMAIN plan = {"at", "shape", "doc"} BY <1>0, <1>2 DEF Finalize, PlanShape
  <2>1. CASE plan' = [plan EXCEPT !.at = "unfinished"] BY <2>0, <2>1 DEF PlanShape
  <2>2. CASE \E d : plan' = [plan EXCEPT !.at = "final", !.doc = d]
    <3>1. PICK d : plan' = [plan EXCEPT !.at = "final", !.doc = d] BY <2>2
    <3> DEFINE p1 == [plan EXCEPT !.at = "final"]
    <3>2. p1.at = "final" /\ DOMAIN p1 = {"at", "shape", "doc"} BY <2>0
    <3>3. plan' = [p1 EXCEPT !.doc = d] BY <3>1
    <3> HIDE DEF p1
    <3> QED BY <3>2, <3>3 DEF PlanShape
  <2> QED BY <1>2, <2>1, <2>2 DEF Finalize
<1>3. CASE UNCHANGED plan BY <1>0, <1>3 DEF PlanShape
<1> QED BY <1>1, <1>2, <1>3
        DEF Next, vars, FetchStep, StartFetch, Redirect, Answer, ReadBody, FetchFails, Deliver,
            Read, AskEditor, WorkDone, WorkSent, TimeOut

(* What the counts of Consistent are: one text, one result, one thread.    *)
LEMMA Counted ==
  ASSUME OneThread, AtMostOne(body), AtMostOne(nodes)
  PROVE  Cardinality(body) <= 1 /\ Cardinality(nodes) <= 1 /\ OneDocumentAtATime
<1>1. AtMostOne({r \in Editors : thread[r] = "running"}) BY DEF OneThread, AtMostOne
<1> QED BY <1>1, SmallSet DEF OneDocumentAtATime

LEMMA InitIInv == Init => IInv
<1> SUFFICES ASSUME Init PROVE IInv OBVIOUS
<1>1. AtMostOne(body) /\ AtMostOne(nodes) /\ \A r \in Editors : AtMostOne(editor[r])
  BY DEF Init, AtMostOne, None
<1>2. OneThread BY DEF Init, OneThread
<1>3. FetchShape /\ StaysWithSource /\ PlanShape
  BY DEF Init, FetchShape, Quiet, StaysWithSource, ValidatorsBelongToSource, NeverDowngraded, PlanShape
<1>4. TypeOK BY <1>1, <1>2, Counted DEF Init, TypeOK, Quiet, None
<1> QED BY <1>1, <1>2, <1>3, <1>4, Counted DEF IInv, Consistent

LEMMA StepIInv == IInv /\ [Next]_vars => IInv'
<1> SUFFICES ASSUME IInv, [Next]_vars PROVE IInv' OBVIOUS
<1>1. StaysWithSource' /\ FetchShape' BY FetchInv
<1>2. /\ OneThread' /\ working' \in BOOLEAN
      /\ thread' \in [Editors -> {"none", "running", "done"}]
      /\ editor' \in [Editors -> SUBSET EditorTexts]
      /\ \A r \in Editors : (editor'[r] # None => thread'[r] # "none") /\ AtMostOne(editor'[r])
  BY ThreadInv
<1>3. AtMostOne(body') /\ AtMostOne(nodes') /\ (\A d \in body' : DOMAIN d = TextFields) BY TextInv
<1>4. PlanShape' /\ plan'.at \in {"none", "refused", "compiled", "unfinished", "final"} BY PlanInv
<1>5. (Cardinality(body) <= 1 /\ Cardinality(nodes) <= 1 /\ OneDocumentAtATime)'
  <2>1. AtMostOne({r \in Editors : thread'[r] = "running"}) BY <1>2 DEF OneThread, AtMostOne
  <2> QED BY <1>3, <2>1, SmallSet DEF OneDocumentAtATime
<1>6. fetch'.at \in {"idle", "asking", "modified", "received", "unchanged", "failed"}
  BY <1>1 DEF FetchShape, FetchRecords, Quiet
<1>7. TypeOK' BY <1>2, <1>3, <1>4, <1>5, <1>6, Zenon DEF TypeOK
<1> QED BY <1>1, <1>2, <1>3, <1>4, <1>5, <1>7, Zenon DEF IInv, Consistent

(* The invariant of the pipeline holds in every behaviour.                 *)
THEOREM Invariance == Spec => []IInv
<1> QED BY InitIInv, StepIInv, PTL DEF Spec

(* The one worker of the editor: its flag, its thread and the callers who  *)
(* wait fit together, also after a caller gave up (document.rs,            *)
(* run_bounded), for any number of callers and any texts.                  *)
THEOREM ConsistentHolds == Spec => []Consistent
<1>1. IInv => Consistent BY DEF IInv
<1> QED BY <1>1, Invariance, PTL

(* Validators go to and come from the origin of the subscription only, and *)
(* what was asked over https stays on https, through any number of         *)
(* redirects (fetch.rs, fetch_with_redirects).                             *)
THEOREM StaysWithSourceHolds == Spec => []StaysWithSource
<1>1. IInv => StaysWithSource BY DEF IInv
<1> QED BY <1>1, Invariance, PTL

-----------------------------------------------------------------------------
(* The page *)

USE NilAssumption, BoundsAssumption, MaxGenAssumption

-----------------------------------------------------------------------------
(* What the commands make of the state *)

\* b has the subscriptions of a and what is selected.
SameState(a, b) ==
  DOMAIN b = DOMAIN a /\ b.subs = a.subs /\ b.active = a.active /\ b.gen = a.gen

\* b has the record of a.
SameRecord(a, b) == b.life = a.life /\ b.applied = a.applied /\ b.switch = a.switch

\* What is valid depends on the subscriptions, the selection and the generation alone.
LEMMA SameIsValid ==
  ASSUME NEW a, NEW b, SameState(a, b), StateValid(a) PROVE StateValid(b)
BY DEF SameState, StateValid

\* The writers of the record leave the rest.
LEMMA ReadyStep ==
  ASSUME NEW n \in Nat, NEW a, AppFormed(a, n), NEW i \in Ids, NEW g \in Nat, NEW x \in (0..n) \cup {Nil}
  PROVE  /\ SameState(a, Ready(a, i, g, x)) /\ AppFormed(Ready(a, i, g, x), n)
         /\ Ready(a, i, g, x).switch = IF x = Nil THEN Nil ELSE Switch(x, "ready")
<1> DEFINE s == IF x = Nil THEN Nil ELSE Switch(x, "ready")
           run == [id |-> i, gen |-> g]
<1>1. s \in Switches \cup {Nil} /\ (s # Nil => s.op <= n) /\ run \in Runs BY DEF Switch, Switches, Runs
<1>2. Ready(a, i, g, x) = [a EXCEPT !.life = "ready", !.applied = run, !.switch = s] BY DEF Ready
<1> HIDE DEF s, run
<1>3. SameState(a, Ready(a, i, g, x)) /\ AppFormed(Ready(a, i, g, x), n) /\ Ready(a, i, g, x).switch = s
  BY <1>1, <1>2 DEF AppFormed, RecordFormed, SameState
<1> QED BY <1>3 DEF s

\* So do those that tell of a core that stopped or is lost.
LEMMA StopSteps ==
  ASSUME NEW n, NEW a, AppFormed(a, n)
  PROVE  /\ SameState(a, Stopped(a)) /\ AppFormed(Stopped(a), n) /\ Stopped(a).switch = Nil
         /\ SameState(a, Lost(a)) /\ AppFormed(Lost(a), n) /\ Lost(a).switch \in {a.switch, Nil}
         /\ \A l \in {"stopped", "recovery"} :
              SameState(a, [Lost(a) EXCEPT !.life = l]) /\ AppFormed([Lost(a) EXCEPT !.life = l], n)
<1>1. SameState(a, Stopped(a)) /\ AppFormed(Stopped(a), n) /\ Stopped(a).switch = Nil
  BY DEF Stopped, AppFormed, RecordFormed, SameState
<1>2. SameState(a, Lost(a)) /\ AppFormed(Lost(a), n) /\ Lost(a).switch \in {a.switch, Nil}
  BY DEF Lost, AppFormed, RecordFormed, SameState
<1>3. ASSUME NEW l \in {"stopped", "recovery"}
      PROVE  SameState(a, [Lost(a) EXCEPT !.life = l]) /\ AppFormed([Lost(a) EXCEPT !.life = l], n)
  BY <1>2 DEF AppFormed, RecordFormed, SameState
<1> QED BY <1>1, <1>2, <1>3

\* And those that tell of an operation.
LEMMA SwitchStep ==
  ASSUME NEW n \in Nat, NEW a, AppFormed(a, n), NEW op \in Nat, op <= n,
         NEW status \in {"queued", "applying", "cancelled", "failed", "ready"}
  PROVE  LET b == [a EXCEPT !.switch = Switch(op, status)]
         IN SameState(a, b) /\ AppFormed(b, n) /\ b.switch = Switch(op, status)
<1> DEFINE s == Switch(op, status)
<1>1. s \in Switches /\ s.op <= n BY DEF Switch, Switches
<1> HIDE DEF s
<1>2. LET b == [a EXCEPT !.switch = s] IN SameState(a, b) /\ AppFormed(b, n) /\ b.switch = s
  BY <1>1 DEF AppFormed, RecordFormed, SameState
<1> QED BY <1>2 DEF s

\* What an operation may make of the state a.
OutcomeFits(a, o) ==
  /\ AppFormed(o.app, used) /\ StateValid(o.app)
  /\ o.answer.status \in {"ok", "error"}
  /\ o.answer.status = "error" => SameState(a, o.app)

\* A refusal leaves the state.
LEMMA RefusalsFit ==
  ASSUME NEW a, AppFormed(a, used), StateValid(a), NEW E, NEW o \in Refusals(a, E)
  PROVE  OutcomeFits(a, o) /\ o.app = a /\ o.answer.status = "error"
BY DEF Refusals, Err, OutcomeFits, SameState

\* So does a command that only reads.
LEMMA AnsweredFits ==
  ASSUME NEW a, AppFormed(a, used), StateValid(a), NEW v, NEW o \in Answered(a, v)
  PROVE  OutcomeFits(a, o) /\ o.app = a /\ o.answer.status = "ok" /\ o.answer.value = v
BY DEF Answered, Ok, OutcomeFits, SameState

\* A summary names its subscription.
LEMMA SummaryFacts ==
  ASSUME NEW a, NEW i
  PROVE  LET x == SubscriptionSummaryResponse(summary_for(a, i))
         IN x.id = i /\ x.active \in BOOLEAN /\ x.kind \in {"remote", "manual"}
<1>1. summary_for(a, i).kind \in {"Remote", "Manual"} /\ summary_for(a, i).id = i
      /\ summary_for(a, i).active \in BOOLEAN
      /\ DOMAIN summary_for(a, i) =
           {"id", "name", "desc", "kind", "auto", "interval", "active", "gen", "shareable"}
  BY DEF summary_for, SourceKind
<1> QED BY <1>1 DEF SubscriptionSummaryResponse, Kinds

\* A write answers with the subscription it saved.
LEMMA SavedFits ==
  ASSUME NEW a, AppFormed(a, used), StateValid(a), NEW n, AppFormed(n, used), NEW i, NEW o \in Saved(a, n, i)
  PROVE  OutcomeFits(a, o) /\ o.app \in {a, n} /\ (o.answer.status = "ok" => o.answer.value.id = i)
<1> DEFINE x == SubscriptionSummaryResponse(summary_for(n, i))
           saved == [app |-> n, answer |-> Ok(x), event |-> TRUE]
<1>1. x.id = i BY SummaryFacts
<1> HIDE DEF x
<1>2. CASE \E E : o \in Refusals(a, E) BY <1>2, RefusalsFit
<1>3. CASE StateValid(n) /\ o = saved BY <1>1, <1>3 DEF Ok, OutcomeFits
<1> QED BY <1>2, <1>3 DEF Saved, x

\* New subscriptions or another generation leave a state that is formed.
LEMMA SubsStep ==
  ASSUME NEW a, AppFormed(a, used), NEW s, DOMAIN s \subseteq Ids
  PROVE  AppFormed([a EXCEPT !.subs = s], used) /\ SameRecord(a, [a EXCEPT !.subs = s])
BY DEF AppFormed, RecordFormed, SameRecord

\* The same for one subscription.
LEMMA SubStep ==
  ASSUME NEW a, AppFormed(a, used), NEW i, NEW v
  PROVE  AppFormed([a EXCEPT !.subs[i] = v], used) /\ SameRecord(a, [a EXCEPT !.subs[i] = v])
<1> DEFINE s == [a.subs EXCEPT ![i] = v]
<1>1. DOMAIN s \subseteq Ids BY DEF AppFormed
<1>2. [a EXCEPT !.subs[i] = v] = [a EXCEPT !.subs = s] OBVIOUS
<1> HIDE DEF s
<1> QED BY <1>1, <1>2, SubsStep

\* The same for its update policy.
LEMMA PolicyStep ==
  ASSUME NEW a, AppFormed(a, used), NEW i, NEW v
  PROVE  AppFormed([a EXCEPT !.subs[i].policy = v], used) /\ SameRecord(a, [a EXCEPT !.subs[i].policy = v])
<1> DEFINE s == [a.subs EXCEPT ![i].policy = v]
<1>1. DOMAIN s \subseteq Ids BY DEF AppFormed
<1>2. [a EXCEPT !.subs[i].policy = v] = [a EXCEPT !.subs = s] OBVIOUS
<1> HIDE DEF s
<1> QED BY <1>1, <1>2, SubsStep

\* And for the next generation, after new content.
LEMMA GenerationStep ==
  ASSUME NEW a, AppFormed(a, used)
  PROVE  /\ AppFormed(next_generation(a), used) /\ next_generation(a).gen = a.gen + 1
         /\ next_generation(a).subs = a.subs /\ next_generation(a).active = a.active
         /\ \A i : \A n \in WithContent(a, i) : AppFormed(n, used) /\ SameRecord(a, n)
BY DEF AppFormed, RecordFormed, next_generation, WithContent, SameRecord

\* And for the selection.
LEMMA SelectStep ==
  ASSUME NEW a, AppFormed(a, used), NEW x
  PROVE  /\ AppFormed([a EXCEPT !.active = x], used) /\ [a EXCEPT !.active = x].gen = a.gen
         /\ [a EXCEPT !.active = x].subs = a.subs /\ [a EXCEPT !.active = x].active = x
BY DEF AppFormed, RecordFormed

-----------------------------------------------------------------------------
(* The commands *)

\* A write either is refused or saves a state.
WriteMade(a, o, i) == \/ \E E : o \in Refusals(a, E)
                    \/ \E n : AppFormed(n, used) /\ SameRecord(a, n) /\ o \in Saved(a, n, i)

\* A write that is carried out leaves the record of the core.
LEMMA WrittenFits ==
  ASSUME NEW a, AppFormed(a, used), StateValid(a), NEW i, NEW o, WriteMade(a, o, i)
  PROVE  OutcomeFits(a, o) /\ SameRecord(a, o.app) /\ (o.answer.status = "ok" => o.answer.value.id = i)
BY RefusalsFit, SavedFits DEF WriteMade, SameRecord

\* edit writes the subscription it is asked for, or refuses.
LEMMA EditFits ==
  ASSUME NEW a, AppFormed(a, used), NEW input, NEW o \in edit(a, input)
  PROVE  \/ \E E : o \in Refusals(a, E)
         \/ input.id \in DOMAIN a.subs /\ WriteMade(a, o, input.id)
<1> DEFINE i == input.id
           s == a.subs[i]
           Made(p) == [a EXCEPT !.subs[i] = [Edited(s, input) EXCEPT !.policy = adopt_profile_interval(@, p)]]
<1>1. ASSUME NEW p, NEW n \in WithContent(Made(p), i) PROVE AppFormed(n, used) /\ SameRecord(a, n)
  <2>1. AppFormed(Made(p), used) /\ SameRecord(a, Made(p)) BY SubStep
  <2> HIDE DEF Made
  <2>2. SameRecord(Made(p), n) /\ AppFormed(n, used) BY <2>1, GenerationStep
  <2> QED BY <2>1, <2>2 DEF SameRecord
<1>2. LET n == [a EXCEPT !.subs[i] = Edited(s, input)] IN AppFormed(n, used) /\ SameRecord(a, n) BY SubStep
<1>3. \/ \E E : o \in Refusals(a, E)
      \/ i \in DOMAIN a.subs /\ \E p \in Profiles : \E n \in WithContent(Made(p), i) : o \in Saved(a, n, i)
      \/ i \in DOMAIN a.subs /\ o \in Saved(a, [a EXCEPT !.subs[i] = Edited(s, input)], i)
  <2> HIDE DEF s
  <2>1. CASE i \notin DOMAIN a.subs BY <2>1, Zenon DEF edit, Entered
  <2>2. CASE i \in DOMAIN a.subs /\ o \notin Entered(a)
    <3> DEFINE remote == input.url # {} \/ input.request # {} \/ input.policy # {}
    <3>1. o \in IF ~NamesValid(input) THEN Refusals(a, {"InvalidInput"})
          ELSE IF s.url = Nil /\ remote THEN Refusals(a, {"InvalidOptions"})
          ELSE IF \E u \in input.url : ~UrlValid(u) THEN Refusals(a, map_url_error)
          ELSE IF remote /\ ~(RequestValid(Edited(s, input).request) /\ PolicyValid(Edited(s, input).policy))
          THEN Refusals(a, {"InvalidOptions"})
          ELSE IF Edited(s, input).url # s.url
          THEN Refusals(a, FetchErrors)
                 \cup UNION {Saved(a, next, i) : next \in UNION {WithContent(Made(p), i) : p \in Profiles}}
          ELSE Saved(a, [a EXCEPT !.subs[i] = Edited(s, input)], i)
      BY <2>2, Zenon DEF edit, s
    <3> HIDE DEF remote, Made
    <3> QED BY <2>2, <3>1
  <2> QED BY <2>1, <2>2 DEF Entered
<1> QED BY <1>1, <1>2, <1>3 DEF WriteMade

\* So does an update.
LEMMA UpdateFits ==
  ASSUME NEW a, AppFormed(a, used), NEW i, NEW text, NEW o \in update_with_route(a, i, text)
  PROVE  \/ \E E : o \in Refusals(a, E)
         \/ i \in DOMAIN a.subs /\ WriteMade(a, o, i)
<1> DEFINE Made(p) == [a EXCEPT !.subs[i].policy = adopt_profile_interval(@, p)]
<1>1. ASSUME NEW p, NEW n \in WithContent(Made(p), i) PROVE AppFormed(n, used) /\ SameRecord(a, n)
  <2>1. AppFormed(Made(p), used) /\ SameRecord(a, Made(p)) BY PolicyStep
  <2> HIDE DEF Made
  <2>2. SameRecord(Made(p), n) /\ AppFormed(n, used) BY <2>1, GenerationStep
  <2> QED BY <2>1, <2>2 DEF SameRecord
<1>2. \/ \E E : o \in Refusals(a, E)
      \/ i \in DOMAIN a.subs /\ \E p : \E n \in WithContent(Made(p), i) : o \in Saved(a, n, i)
  <2> HIDE DEF Made
  <2>1. \/ \E E : o \in Refusals(a, E)
        \/ /\ i \in DOMAIN a.subs
           /\ o \in UNION {Saved(a, next, i) : next \in UNION {WithContent(Made(p), i) :
                                p \in IF text = Nil THEN Profiles ELSE {Nil}}}
    BY Zenon DEF update_with_route, Entered, Made
  <2> QED BY <2>1
<1> QED BY <1>1, <1>2 DEF WriteMade

\* An import writes under its new id.
LEMMA ImportFits ==
  ASSUME NEW a, AppFormed(a, used), NEW input, NEW x \in Ids, NEW o \in import_with_options(a, input, x)
  PROVE  WriteMade(a, o, x)
<1> DEFINE Made(p) == [a EXCEPT !.subs = With(@, x, Imported(input, p))]
<1>1. ASSUME NEW p PROVE AppFormed(Made(p), used) /\ SameRecord(a, Made(p))
  <2>1. DOMAIN With(a.subs, x, Imported(input, p)) \subseteq Ids BY DEF AppFormed, With
  <2> QED BY <2>1, SubsStep
<1>2. (\E E : o \in Refusals(a, E)) \/ (\E p : o \in Saved(a, Made(p), x))
  BY DEF import_with_options, Entered
<1> QED BY <1>1, <1>2 DEF WriteMade

\* A deletion leaves a state that is formed, with nothing selected if it was this one.
LEMMA DeleteFits ==
  ASSUME NEW a, AppFormed(a, used), StateValid(a), NEW i, NEW o \in delete(a, i)
  PROVE  OutcomeFits(a, o)
<1> DEFINE left == Restrict(a.subs, DOMAIN a.subs \ {i})
           rest == [a EXCEPT !.subs = left]
<1>1. AppFormed(rest, used)
  <2>1. DOMAIN left \subseteq Ids BY DEF Restrict, AppFormed
  <2> QED BY <2>1, SubsStep
<1>2. Deleted(a, i) = IF a.active = i THEN next_generation([rest EXCEPT !.active = Nil]) ELSE rest
  BY DEF Deleted
<1> HIDE DEF rest
<1>3. AppFormed(Deleted(a, i), used) BY <1>1, <1>2, SelectStep, GenerationStep
<1>4. CASE \E E : o \in Refusals(a, E) BY <1>4, RefusalsFit
<1>5. CASE /\ StateValid(Deleted(a, i))
           /\ o = [app |-> Deleted(a, i), answer |-> Ok(i), event |-> TRUE]
  BY <1>3, <1>5 DEF Ok, OutcomeFits
<1> QED BY <1>4, <1>5 DEF delete

\* A document is read.
LEMMA ReadDocumentFits ==
  ASSUME NEW a, AppFormed(a, used), StateValid(a), NEW i, NEW o \in read_document(a, i)
  PROVE  OutcomeFits(a, o) /\ o.app = a
<1>1. CASE \E e : o = [app |-> a, answer |-> Err(DocumentOperationError, e), event |-> FALSE]
  BY <1>1 DEF Err, OutcomeFits, SameState
<1>2. CASE o \in Answered(a, i) BY <1>2, AnsweredFits
<1> QED BY <1>1, <1>2 DEF read_document

\* The running configuration is read.
LEMMA RunningFits ==
  ASSUME NEW a, AppFormed(a, used), StateValid(a), NEW o \in running_configuration(a)
  PROVE  OutcomeFits(a, o) /\ o.app = a
<1>1. CASE \E e : o = [app |-> a, answer |-> Err(RunningConfigurationError, e), event |-> FALSE]
  BY <1>1 DEF Err, OutcomeFits, SameState
<1>2. CASE o \in Answered(a, a.applied) BY <1>2, AnsweredFits
<1> QED BY <1>1, <1>2 DEF running_configuration

\* A document that is saved answers with its subscription.
LEMMA SavedWithFits ==
  ASSUME NEW a, NEW n, AppFormed(n, used), StateValid(n), NEW i, NEW x
  PROVE  LET o == SavedWith(n, i, x)
         IN OutcomeFits(a, o) /\ o.answer.status = "ok" /\ o.answer.value.subscription.id = i
<1> DEFINE s == SubscriptionSummaryResponse(summary_for(n, i))
<1>1. s.id = i BY SummaryFacts
<1>2. SavedWith(n, i, x) = [app |-> n, event |-> TRUE, answer |-> [status |-> "ok", value |-> [subscription |-> s, apply |-> x]]]
  BY DEF SavedWith, Ok
<1> HIDE DEF s
<1> QED BY <1>1, <1>2 DEF OutcomeFits

\* The failure of a document is written to the record, of the core too if it is lost.
LEMMA FailedFits ==
  ASSUME used \in Nat, NEW a, AppFormed(a, used), StateValid(a),
         NEW b \in {a, [a EXCEPT !.switch = Switch(0, "failed")], [Lost(a) EXCEPT !.switch = Switch(0, "failed")]}
  PROVE  AppFormed(b, used) /\ StateValid(b) /\ SameState(a, b)
<1>1. AppFormed(Lost(a), used) /\ SameState(a, Lost(a)) BY StopSteps
<1>2. ASSUME NEW x, AppFormed(x, used) PROVE LET y == [x EXCEPT !.switch = Switch(0, "failed")] IN AppFormed(y, used) /\ SameState(x, y)
  <2>1. 0 \in Nat /\ 0 <= used /\ "failed" \in {"queued", "applying", "cancelled", "failed", "ready"} OBVIOUS
  <2> QED BY <1>2, <2>1, SwitchStep, Zenon
<1>3. SameState(a, b) /\ AppFormed(b, used) BY <1>1, <1>2 DEF SameState
<1> QED BY <1>3, SameIsValid

\* A document that is not saved leaves the subscriptions.
LEMMA UnsavedFits ==
  ASSUME used \in Nat, NEW a, AppFormed(a, used), StateValid(a), NEW i, NEW o \in Unsaved(a, i)
  PROVE  OutcomeFits(a, o) /\ o.answer.status = "error"
<1>1. PICK b, e : /\ o = [app |-> b, answer |-> Err(DocumentSaveError, e), event |-> FALSE]
                  /\ b \in {a, [a EXCEPT !.switch = Switch(0, "failed")], [Lost(a) EXCEPT !.switch = Switch(0, "failed")]}
  BY DEF Unsaved
<1>2. AppFormed(b, used) /\ StateValid(b) /\ SameState(a, b) BY <1>1, FailedFits
<1> QED BY <1>1, <1>2 DEF Err, OutcomeFits

\* A save of a document, whatever becomes of the core.
LEMMA SaveFits ==
  ASSUME used \in Nat, NEW a, AppFormed(a, used), StateValid(a), NEW i, NEW o \in save_document(a, i)
  PROVE  OutcomeFits(a, o) /\ (o.answer.status = "ok" => o.answer.value.subscription.id \in Ids)
<1>1. CASE o \in Unsaved(a, i) BY <1>1, UnsavedFits
<1>2. CASE /\ i \in DOMAIN a.subs
           /\ \E n, x : AppFormed(n, used) /\ StateValid(n) /\ o = SavedWith(n, i, x)
  BY <1>2, SavedWithFits DEF AppFormed
<1>3. CASE o \notin Unsaved(a, i)
  <2>1. i \in DOMAIN a.subs BY <1>3 DEF save_document
  <2>2. CASE o = SavedWith(a, i, "notRequired") BY <1>2, <2>1, <2>2
  <2>3. ASSUME NEW n \in {a, next_generation(a)}, StateValid(n),
               \/ o = SavedWith(Ready(n, i, n.gen, 0), i, "ready")
               \/ o \in Unapplied(n, i)
        PROVE  \E m, x : AppFormed(m, used) /\ StateValid(m) /\ o = SavedWith(m, i, x)
    <3>1. AppFormed(n, used) /\ n.gen \in Nat /\ i \in Ids BY <2>1, GenerationStep DEF AppFormed
    <3>2. CASE o = SavedWith(Ready(n, i, n.gen, 0), i, "ready")
      <4>1. AppFormed(Ready(n, i, n.gen, 0), used) /\ SameState(n, Ready(n, i, n.gen, 0))
        <5>1. 0 \in (0..used) \cup {Nil} OBVIOUS
        <5> QED BY <3>1, <5>1, ReadyStep, Zenon
      <4> QED BY <3>2, <4>1, <2>3, SameIsValid
    <3>3. CASE o \in Unapplied(n, i)
      <4>1. PICK m, x : /\ m \in {n, [n EXCEPT !.switch = Switch(0, "failed")], [Lost(n) EXCEPT !.switch = Switch(0, "failed")]}
                        /\ o = SavedWith(m, i, x)
        BY <3>3 DEF Unapplied
      <4> QED BY <3>1, <4>1, <2>3, FailedFits
    <3> QED BY <2>3, <3>2, <3>3
  <2>4. \/ o = SavedWith(a, i, "notRequired")
        \/ \E n \in {a, next_generation(a)} :
             StateValid(n) /\ (o = SavedWith(Ready(n, i, n.gen, 0), i, "ready") \/ o \in Unapplied(n, i))
    BY <1>3, <2>1 DEF save_document
  <2> QED BY <1>2, <2>1, <2>2, <2>3, <2>4
<1> QED BY <1>1, <1>3

\* What Perform may do.
PerformFits(c, o) ==
  /\ OutcomeFits(app, o)
  /\ c.cmd \in Unguarded \cup {"running"} => o.app = app
  /\ o.answer.status = "ok" =>
       /\ c.cmd \in {"import", "edit", "update"} => o.answer.value.id \in Ids
       /\ c.cmd = "save" => o.answer.value.subscription.id \in Ids

\* Every command, but activate_subscription, does what Perform may do.
LEMMA OutcomesFit ==
  ASSUME used \in Nat, AppFormed(app, used), StateValid(app), NEW c, c.cmd \in Commands, c.cmd # "activate", NEW o \in Outcomes(c)
  PROVE  PerformFits(c, o)
<1> USE DEF PerformFits, Unguarded
<1>1. CASE \E E : o \in Refusals(app, E) BY <1>1, RefusalsFit
<1>2. CASE \E v : o \in Answered(app, v) /\ c.cmd \in {"settings", "share"} BY <1>2, AnsweredFits
<1>3. ASSUME NEW i, WriteMade(app, o, i), c.cmd \in {"import", "edit", "update"}, i \in Ids PROVE PerformFits(c, o)
  BY <1>3, WrittenFits
<1>4. CASE c.cmd = "settings" BY <1>1, <1>2, <1>4 DEF Outcomes, SubscriptionCommands, SubscriptionOutcomes, get_settings
<1>5. CASE c.cmd = "share" BY <1>1, <1>2, <1>5 DEF Outcomes, SubscriptionCommands, SubscriptionOutcomes, share_url
<1>6. CASE c.cmd = "import"
  <2>1. PICK x \in Ids : o \in import_with_options(app, c.arg, x)
    BY <1>6 DEF Outcomes, SubscriptionCommands, SubscriptionOutcomes
  <2> QED BY <1>3, <1>6, <2>1, ImportFits
<1>7. CASE c.cmd = "edit"
  <2>1. o \in edit(app, c.arg) BY <1>7 DEF Outcomes, SubscriptionCommands, SubscriptionOutcomes
  <2> QED BY <1>1, <1>3, <1>7, <2>1, EditFits DEF AppFormed
<1>8. CASE c.cmd = "update"
  <2>1. o \in update_with_route(app, c.id, c.arg) BY <1>8 DEF Outcomes, SubscriptionCommands, SubscriptionOutcomes
  <2> QED BY <1>1, <1>3, <1>8, <2>1, UpdateFits DEF AppFormed
<1>9. CASE c.cmd = "delete"
  <2>1. o \in delete(app, c.id) BY <1>9 DEF Outcomes, SubscriptionCommands, SubscriptionOutcomes
  <2> QED BY <1>9, <2>1, DeleteFits
<1>10. CASE c.cmd = "document"
  <2>1. o \in read_document(app, c.id) BY <1>10 DEF Outcomes, SubscriptionCommands, DocumentOutcomes
  <2> QED BY <1>10, <2>1, ReadDocumentFits
<1>11. CASE c.cmd = "save"
  <2>1. o \in save_document(app, c.id) BY <1>11 DEF Outcomes, SubscriptionCommands, DocumentOutcomes
  <2> QED BY <1>11, <2>1, SaveFits
<1>12. CASE c.cmd = "running"
  <2>1. o \in running_configuration(app) BY <1>12 DEF Outcomes, SubscriptionCommands, DocumentOutcomes
  <2> QED BY <1>12, <2>1, RunningFits
<1> QED BY <1>4, <1>5, <1>6, <1>7, <1>8, <1>9, <1>10, <1>11, <1>12 DEF Commands, Exclusive, Writes

\* The calls of list_subscriptions that are made and read.
LEMMA ListSteps ==
  ASSUME NEW l \in Seq(ListCalls)
  PROVE  /\ Append(l, ListCall(FALSE)) \in Seq(ListCalls) /\ Append(l, ListCall(TRUE)) \in Seq(ListCalls)
         /\ l # <<>> => Head(l) \in ListCalls /\ Tail(l) \in Seq(ListCalls)
<1>1. ListCall(FALSE) \in ListCalls /\ ListCall(TRUE) \in ListCalls BY DEF ListCall, ListCalls
<1>2. Append(l, ListCall(FALSE)) \in Seq(ListCalls) /\ Append(l, ListCall(TRUE)) \in Seq(ListCalls)
  <2>1. \A x \in ListCalls : Append(l, x) \in Seq(ListCalls) OBVIOUS
  <2> QED BY <1>1, <2>1
<1>3. l # <<>> => Head(l) \in ListCalls /\ Tail(l) \in Seq(ListCalls) OBVIOUS
<1> QED BY <1>2, <1>3

\* A notification adds one.
LEMMA NotifyFits ==
  ASSUME lists \in Seq(ListCalls), NEW changed, Notify(changed) PROVE lists' \in Seq(ListCalls)
BY ListSteps DEF Notify

\* What is formed stays so while more of the bound is used.
LEMMA UsedMore ==
  ASSUME used \in Nat, used' \in Nat, used <= used'
  PROVE  /\ \A o : RecordFormed(o, used) => RecordFormed(o, used')
         /\ \A a : AppFormed(a, used) => AppFormed(a, used')
         /\ \A c : CallFormed(c, used) => CallFormed(c, used')
<1>1. ASSUME NEW o, RecordFormed(o, used) PROVE RecordFormed(o, used')
  BY <1>1 DEF RecordFormed, Switches
<1>2. \A a : AppFormed(a, used) => AppFormed(a, used') BY <1>1 DEF AppFormed
<1>3. ASSUME NEW c, CallFormed(c, used) PROVE CallFormed(c, used') BY <1>3 DEF CallFormed, AnswerFormed
<1> QED BY <1>1, <1>2, <1>3

\* The worker's operation stays within the bound.
LEMMA WorkKeeps ==
  ASSUME WorkFits, UNCHANGED <<app, work>>, used \in Nat, used' \in Nat, used <= used' PROVE WorkFits'
<1>1. work # Nil => work.op \in Nat BY DEF WorkFits, Works
<1> QED BY <1>1 DEF WorkFits

\* The locks depend on the calls, the dialog, and four fields of the page.
LEMMA LocksFrame ==
  ASSUME LocksFit, UNCHANGED <<calls, dialog>>, page'.pending = page.pending, page'.rest = page.rest,
         page'.awaiting = page.awaiting, page'.doc = page.doc
  PROVE  LocksFit'
BY DEF LocksFit, isCurrentDialog

\* The activation depends on its calls, the worker, the record and what the page waits for.
LEMMA ActivationFrame ==
  ASSUME ActivationFits, \A c : c.cmd = "activate" => (c \in calls' <=> c \in calls),
         UNCHANGED <<work, seen, disturbed>>, page'.awaiting = page.awaiting,
         app'.life = app.life, app'.applied = app.applied, app'.switch = app.switch
  PROVE  ActivationFits'
<1>1. Observation(app)' = Observation(app) BY DEF Observation
<1>2. \A a : Ends(a)' <=> Ends(a) BY <1>1 DEF Ends, activationCompletion, isSubscriptionVisualActive
<1>3. WorkIsAwaited' BY DEF WorkIsAwaited, ActivationFits
<1>4. NotOver(app)' /\ NotOver(seen)' BY DEF NotOver, ActivationFits
<1> QED BY <1>2, <1>3, <1>4 DEF ActivationFits, AnsweredAwaiting

\* The list is asked for, made and read: no operation is touched.
LEMMA ListInv == ASSUME LocksIInv, PerformList \/ Load \/ AnswerList PROVE LocksIInv'
<1>i. StateValid(app) /\ Formed /\ WorkFits /\ LocksFit /\ ActivationFits BY DEF LocksIInv
<1>f. lists \in Seq(ListCalls) /\ used \in Nat /\ AppFormed(app, used) BY <1>i DEF Formed
<1>0. UNCHANGED <<app, work, calls, seen, dialog, epoch, disturbed>>
  BY DEF PerformList, Load, AnswerList
<1>1. /\ DOMAIN page' = DOMAIN page /\ page'.pending = page.pending /\ page'.rest = page.rest
      /\ page'.awaiting = page.awaiting /\ page'.doc = page.doc /\ page'.docEpoch = page.docEpoch
  BY <1>i DEF PerformList, Load, AnswerList, Formed, PageFormed
<1>2. page'.load \in {"idle", "loading", "ready", "error"} /\ DOMAIN page'.listed \subseteq Ids
  <2>1. CASE AnswerList
    <3>1. Head(lists) \in ListCalls BY <1>f, <2>1, ListSteps DEF AnswerList
    <3>2. Succeeded(Head(lists).answer) => Head(lists).answer.value \in Listings
      BY <2>1, <3>1 DEF AnswerList, ListCalls, Succeeded, Failure
    <3>3. \A f \in Listings : DOMAIN f \subseteq Ids BY DEF Listings
    <3> QED BY <1>i, <2>1, <3>2, <3>3 DEF AnswerList, Formed, PageFormed
  <2> QED BY <1>i, <2>1 DEF PerformList, Load, Formed, PageFormed
<1>3. lists' \in Seq(ListCalls) /\ used' \in Nat /\ used <= used'
  <2>1. CASE PerformList
    <3>1. PICK n \in DOMAIN lists, o \in list(app) :
            /\ lists' = [lists EXCEPT ![n].answer = Rows(Received("list", o.answer))]
            /\ used' \in {used, used + 1}
      BY <2>1 DEF PerformList
    <3>2. Rows(Received("list", o.answer)) \in {Failure} \cup [status : {"ok"}, value : Listings]
      <4>1. CASE Received("list", o.answer) = Failure BY <4>1 DEF Rows, Failure, Succeeded
      <4>2. CASE o.answer.status = "ok" /\ Received("list", o.answer) = o.answer
        <5> DEFINE v == [i \in DOMAIN app.subs |-> SubscriptionSummaryResponse(summary_for(app, i))]
                   r == [i \in DOMAIN app.subs |-> Row(v[i])]
        <5>1. o.answer = Ok(v)
          BY <1>i, <1>f, <4>2, RefusalsFit, AnsweredFits DEF list, Refusals, Err, Answered
        <5>2. r \in [DOMAIN app.subs -> [active : BOOLEAN, kind : {"remote", "manual"}]]
          <6>1. ASSUME NEW i \in DOMAIN app.subs PROVE r[i] \in [active : BOOLEAN, kind : {"remote", "manual"}]
            <7> DEFINE s == SubscriptionSummaryResponse(summary_for(app, i))
            <7>1. s.active \in BOOLEAN /\ s.kind \in {"remote", "manual"} BY SummaryFacts
            <7>2. r[i] = Row(s) OBVIOUS
            <7> HIDE DEF s, r
            <7> QED BY <7>1, <7>2 DEF Row
          <6> QED BY <6>1
        <5>3. DOMAIN app.subs \in SUBSET Ids BY <1>f DEF AppFormed
        <5>4. r \in Listings BY <5>2, <5>3 DEF Listings
        <5>5. Rows(o.answer) = [status |-> "ok", value |-> r] BY <5>1 DEF Rows, Ok, Succeeded
        <5> HIDE DEF r
        <5> QED BY <4>2, <5>4, <5>5
      <4> QED BY <4>1, <4>2 DEF Received, list, Refusals, Answered, Err, Ok
    <3> DEFINE x == Rows(Received("list", o.answer))
    <3> HIDE DEF x
    <3>3. lists \in Seq(ListCalls) /\ used \in Nat BY <1>f
    <3>4. lists[n] \in ListCalls BY <3>3
    <3>5. [lists[n] EXCEPT !.answer = x] \in ListCalls BY <3>2, <3>4 DEF ListCalls, x
    <3>6. lists' = [lists EXCEPT ![n] = [lists[n] EXCEPT !.answer = x]] BY <3>1 DEF x
    <3>7. lists' \in Seq(ListCalls) BY <3>3, <3>5, <3>6
    <3> QED BY <3>1, <3>3, <3>7
  <2>2. CASE Load
    <3>1. lists' \in Seq(ListCalls) BY <1>f, <2>2, ListSteps, Zenon DEF Load
    <3>2. used' = used BY <2>2, Zenon DEF Load
    <3> QED BY <1>f, <3>1, <3>2
  <2>3. CASE AnswerList BY <1>f, <2>3, ListSteps DEF AnswerList
  <2> QED BY <2>1, <2>2, <2>3
<1>4. Formed'
  <2>1. PageFormed' /\ DialogFormed' BY <1>i, <1>0, <1>1, <1>2 DEF Formed, PageFormed, DialogFormed
  <2>2. AppFormed(app, used)' /\ RecordFormed(seen, used)' BY <1>i, <1>0, <1>3, UsedMore DEF Formed
  <2>3. \A c \in calls' : CallFormed(c, used') BY <1>i, <1>0, <1>3, UsedMore DEF Formed
  <2> QED BY <1>3, <2>1, <2>2, <2>3 DEF Formed
<1>5. StateValid(app)' /\ WorkFits' BY <1>i, <1>f, <1>0, <1>3, WorkKeeps DEF StateValid
<1>6. LocksFit' BY <1>i, <1>0, <1>1, LocksFrame
<1>7. ActivationFits' BY <1>i, <1>0, <1>1, ActivationFrame
<1> QED BY <1>4, <1>5, <1>6, <1>7 DEF LocksIInv

\* A step that moves neither the activation nor what the record tells of it.
LEMMA StepFits ==
  ASSUME LocksIInv, UNCHANGED <<app, work, seen, disturbed>>, used' \in Nat, used <= used',
         lists' \in Seq(ListCalls), \A c \in calls' : CallFormed(c, used'),
         \A c : c.cmd = "activate" => (c \in calls' <=> c \in calls), page'.awaiting = page.awaiting,
         PageFormed', DialogFormed', LocksFit'
  PROVE  LocksIInv'
<1>i. StateValid(app) /\ Formed /\ WorkFits /\ ActivationFits BY DEF LocksIInv
<1>1. AppFormed(app, used)' /\ RecordFormed(seen, used)' BY <1>i, UsedMore DEF Formed
<1>2. Formed' BY <1>1 DEF Formed
<1>3. StateValid(app)' /\ WorkFits' BY <1>i, WorkKeeps DEF StateValid, Formed
<1>4. ActivationFits' BY <1>i, ActivationFrame
<1> QED BY <1>2, <1>3, <1>4 DEF LocksIInv

\* A new call waits for its answer.
LEMMA NewCallFormed ==
  ASSUME NEW n, NEW cmd \in Commands, NEW i, NEW owner \in Nat, NEW arg,
         cmd = "activate" => i \in Ids /\ owner <= n
  PROVE  LET c == Call(cmd, i, owner, arg)
         IN /\ CallFormed(c, n) /\ c.cmd = cmd /\ c.id = i /\ c.owner = owner /\ c.arg = arg
            /\ c.answer = NoAnswer /\ ~c.waits
BY DEF Call, CallFormed, AnswerFormed, NoAnswer

\* The user types.
LEMMA DialogEdit ==
  ASSUME LocksIInv, dialog # Nil, page.pending = Nil, DOMAIN dialog' = DOMAIN dialog,
         dialog'.epoch = dialog.epoch,
         UNCHANGED <<app, work, calls, lists, seen, page, epoch, used, disturbed>>
  PROVE  LocksIInv'
<1>i. Formed /\ LocksFit BY DEF LocksIInv
<1>1. PageFormed' /\ DialogFormed' BY <1>i DEF Formed, PageFormed, DialogFormed
<1>2. LocksFit' BY <1>i DEF LocksFit, Pendings
<1> QED BY <1>i, <1>1, <1>2, StepFits DEF Formed

\* What is typed leaves the dialog its identity.
LEMMA TypingInv ==
  ASSUME LocksIInv, TouchKind \/ TouchNames \/ TouchUrl \/ TouchContent \/ TouchOptions \/ ConfirmTls
  PROVE  LocksIInv'
<1>1. dialog # Nil => DOMAIN dialog = {"epoch", "mode", "id", "loading", "settings", "form", "original", "touched",
                           "confirmed", "share", "picked", "sent"}
  BY DEF LocksIInv, Formed, DialogFormed
<1>2. ASSUME NEW f, NEW s, patchForm(f, s), dialog # Nil, page.pending = Nil PROVE LocksIInv'
  <2>1. DOMAIN dialog' = DOMAIN dialog /\ dialog'.epoch = dialog.epoch BY <1>1, <1>2 DEF patchForm
  <2> QED BY <1>2, <2>1, DialogEdit DEF patchForm
<1>3. CASE ConfirmTls
  <2>1. DOMAIN dialog' = DOMAIN dialog /\ dialog'.epoch = dialog.epoch BY <1>1, <1>3 DEF ConfirmTls
  <2> QED BY <1>3, <2>1, DialogEdit DEF ConfirmTls
<1>4. CASE TouchKind BY <1>2, <1>4, Zenon DEF TouchKind, Typing
<1>5. CASE TouchNames BY <1>2, <1>5, Zenon DEF TouchNames, Typing
<1>6. CASE TouchUrl BY <1>2, <1>6, Zenon DEF TouchUrl, Typing
<1>7. CASE TouchContent BY <1>2, <1>7, Zenon DEF TouchContent, Typing
<1>8. CASE TouchOptions BY <1>2, <1>8, Zenon DEF TouchOptions, Typing
<1> QED BY <1>3, <1>4, <1>5, <1>6, <1>7, <1>8

-----------------------------------------------------------------------------
DialogFields == {"epoch", "mode", "id", "loading", "settings", "form", "original", "touched", "confirmed",
                 "share", "picked", "sent"}

\* A dialog that opens.
LEMMA DialogFacts ==
  ASSUME NEW mode, NEW i, NEW form
  PROVE  LET d == Dialog(mode, i, form)
         IN DOMAIN d = DialogFields /\ d.epoch = epoch + 1 /\ d.mode = mode /\ d.id = i
BY DEF Dialog, DialogFields

\* That of a QR code is one: Nil is not a dialog.
LEMMA QrIsDialog ==
  ASSUME epoch \in Nat, NEW i \in Ids PROVE Dialog("qr", i, defaultForm) # Nil
<1>1. Dialog("qr", i, defaultForm) \in QrDialogs BY DEF Dialog, QrDialogs
<1> QED BY <1>1

\* A dialog opens when nothing is pending, so that nothing that excludes it is under way.
LEMMA IdleFacts ==
  ASSUME LocksIInv, page.pending = Nil, page.doc = Nil
  PROVE  /\ page.awaiting = Nil /\ page.rest = {} /\ \A c \in calls : c.cmd \notin Exclusive
BY DEF LocksIInv, LocksFit, Pendings, WritePendings, Exclusive, ActivationFits

\* A dialog opens, with the calls it makes.
LEMMA BeginDialogInv ==
  ASSUME LocksIInv, NEW d, beginDialog(d), DOMAIN d = DialogFields, d.epoch = epoch + 1,
         UNCHANGED page, NEW new, calls' = calls \cup new,
         \A c \in new : CallFormed(c, used') /\ c.cmd \notin Exclusive
  PROVE  LocksIInv'
<1>i. Formed /\ LocksFit BY DEF LocksIInv
<1>u. used \in Nat /\ used' = used + 1 /\ epoch \in Nat BY <1>i DEF beginDialog, Formed, DialogFormed
<1>1. PageFormed' /\ DialogFormed'
  BY <1>i, <1>u DEF beginDialog, Formed, PageFormed, DialogFormed, DialogFields
<1>2. \A c \in calls' : CallFormed(c, used') BY <1>i, <1>u, UsedMore DEF Formed
<1>3. LocksFit'
  BY <1>i, IdleFacts DEF beginDialog, Idle, LocksFit, Pendings, Exclusive, Writes
<1>4. \A c : c.cmd = "activate" => (c \in calls' <=> c \in calls) BY DEF Exclusive
<1> QED BY <1>i, <1>u, <1>1, <1>2, <1>3, <1>4, StepFits DEF beginDialog, Formed

\* The dialogs that make the page pending later.
LEMMA OpenInv ==
  ASSUME LocksIInv, openCreateDialog \/ openReplaceDialog \/ openDeleteDialog \/ openSettingsDialog
  PROVE  LocksIInv'
<1>1. CASE openCreateDialog \/ openReplaceDialog \/ openDeleteDialog
  <2>1. PICK d : beginDialog(d) /\ DOMAIN d = DialogFields /\ d.epoch = epoch + 1
    <3> DEFINE Fits(d) == beginDialog(d) /\ DOMAIN d = DialogFields /\ d.epoch = epoch + 1
    <3>1. ASSUME NEW mode, NEW i, NEW form, beginDialog(Dialog(mode, i, form)) PROVE \E d : Fits(d)
      <4>1. DOMAIN Dialog(mode, i, form) = DialogFields /\ Dialog(mode, i, form).epoch = epoch + 1 BY DialogFacts
      <4> QED BY <3>1, <4>1, Zenon
    <3>2. ASSUME NEW p, beginDialog([Dialog("batchDelete", Nil, defaultForm) EXCEPT !.picked = p])
          PROVE  \E d : Fits(d)
      <4> DEFINE d == [Dialog("batchDelete", Nil, defaultForm) EXCEPT !.picked = p]
      <4>1. DOMAIN d = DialogFields /\ d.epoch = epoch + 1 BY DialogFacts DEF DialogFields
      <4> HIDE DEF d
      <4> QED BY <3>2, <4>1 DEF d
    <3>3. \E d : Fits(d)
      BY <1>1, <3>1, <3>2, Zenon DEF openCreateDialog, openReplaceDialog, openDeleteDialog
    <3> QED BY <3>3
  <2>2. UNCHANGED page /\ calls' = calls \cup {}
    BY <1>1 DEF openCreateDialog, openReplaceDialog, openDeleteDialog
  <2> DEFINE new == {}
  <2>3. \A c \in new : CallFormed(c, used') /\ c.cmd \notin Exclusive OBVIOUS
  <2>4. calls' = calls \cup new BY <2>2
  <2> HIDE DEF new
  <2> QED BY <2>1, <2>2, <2>3, <2>4, BeginDialogInv
<1>2. CASE openSettingsDialog
  <2>1. PICK i : /\ beginDialog([Dialog("edit", i, defaultForm) EXCEPT !.loading = TRUE])
                 /\ calls' = calls \cup {Call("settings", i, epoch + 1, Nil)}
                 /\ UNCHANGED page
    BY <1>2 DEF openSettingsDialog
  <2> DEFINE d == [Dialog("edit", i, defaultForm) EXCEPT !.loading = TRUE]
             c == Call("settings", i, epoch + 1, Nil)
  <2>2. DOMAIN d = DialogFields /\ d.epoch = epoch + 1 BY DialogFacts DEF DialogFields
  <2>3. epoch + 1 \in Nat BY DEF LocksIInv, Formed, DialogFormed
  <2>4. CallFormed(c, used') /\ c.cmd = "settings" BY <2>3, NewCallFormed DEF Commands
  <2>6. \A x \in {c} : CallFormed(x, used') /\ x.cmd \notin Exclusive BY <2>4 DEF Exclusive, Writes
  <2>5. beginDialog(d) /\ calls' = calls \cup {c} /\ UNCHANGED page BY <2>1
  <2> DEFINE new == {c}
  <2>7. calls' = calls \cup new /\ \A x \in new : CallFormed(x, used') /\ x.cmd \notin Exclusive BY <2>5, <2>6
  <2> HIDE DEF d, c, new
  <2> QED BY <2>2, <2>5, <2>7, BeginDialogInv
<1> QED BY <1>1, <1>2

\* The dialog of a QR code makes the page pending at once.
LEMMA OpenQrInv == ASSUME LocksIInv, openQrDialog PROVE LocksIInv'
<1>i. Formed /\ LocksFit BY DEF LocksIInv
<1>1. PICK i \in Shown : /\ beginDialog(Dialog("qr", i, defaultForm))
                         /\ page' = [page EXCEPT !.pending = "share"]
                         /\ calls' = calls \cup {Call("share", i, epoch + 1, Nil)}
  BY DEF openQrDialog
<1> DEFINE d == Dialog("qr", i, defaultForm)
           c == Call("share", i, epoch + 1, Nil)
<1>u. used \in Nat /\ used' = used + 1 /\ epoch \in Nat BY <1>i, <1>1 DEF beginDialog, Formed, DialogFormed
<1>2. i \in Ids BY <1>i DEF Shown, Formed, PageFormed
<1>3. DOMAIN d = DialogFields /\ d.epoch = epoch + 1 /\ d.mode = "qr" /\ d.id = i /\ d # Nil
  BY <1>2, <1>u, DialogFacts, QrIsDialog
<1>4. CallFormed(c, used') /\ c.cmd = "share" /\ c.arg = Nil /\ c.owner = epoch + 1 /\ c.id = i
  BY <1>u, NewCallFormed DEF Commands
<1>5. beginDialog(d) /\ calls' = calls \cup {c} BY <1>1
<1> HIDE DEF d, c
<1>6. PageFormed' /\ DialogFormed'
  BY <1>i, <1>u, <1>1, <1>3, <1>5 DEF beginDialog, Formed, PageFormed, DialogFormed, DialogFields, Pendings
<1>7. \A x \in calls' : CallFormed(x, used') BY <1>i, <1>u, <1>4, <1>5, UsedMore DEF Formed
<1>8. page.awaiting = page'.awaiting /\ page'.pending = "share" /\ page'.rest = page.rest /\ page'.doc = page.doc
  BY <1>i, <1>1 DEF Formed, PageFormed
<1>9. LocksFit'
  BY <1>i, <1>3, <1>4, <1>5, <1>8, IdleFacts DEF beginDialog, Idle, LocksFit, Pendings, WritePendings, Exclusive, Writes, isCurrentDialog
<1>10. \A x : x.cmd = "activate" => (x \in calls' <=> x \in calls) BY <1>4, <1>5
<1> QED BY <1>i, <1>u, <1>5, <1>6, <1>7, <1>8, <1>9, <1>10, StepFits DEF beginDialog, Formed

\* The calls that lock stay; others go, or come.
SameLocks(old, new) ==
  /\ \A c \in old : c.cmd \in Exclusive => c \in new
  /\ \A c \in new : c.cmd \in Exclusive => c \in old

\* An answer is dropped, and no dialog waits for it.
LEMMA DropInv ==
  ASSUME LocksIInv, UNCHANGED <<app, work, lists, seen, page, dialog, epoch, used, disturbed>>,
         SameLocks(calls, calls'), \A c \in calls' : CallFormed(c, used),
         \A c \in calls : page.pending = "share" /\ c.cmd = "share" /\ c.arg = Nil /\ isCurrentDialog(c, "qr")
                            => c \in calls'
  PROVE  LocksIInv'
<1>i. Formed /\ LocksFit BY DEF LocksIInv
<1>1. PageFormed' /\ DialogFormed' BY <1>i DEF Formed, PageFormed, DialogFormed
<1>2. LocksFit' BY <1>i DEF LocksFit, SameLocks, Exclusive, Writes, isCurrentDialog
<1>3. \A c : c.cmd = "activate" => (c \in calls' <=> c \in calls) BY DEF SameLocks, Exclusive
<1> QED BY <1>i, <1>1, <1>2, <1>3, StepFits DEF Formed

\* A dialog closes.
LEMMA ResetInv ==
  ASSUME LocksIInv, UNCHANGED <<app, work, lists, seen, used, disturbed>>, resetDialog(page),
         SameLocks(calls, calls'), calls' \subseteq calls
  PROVE  LocksIInv'
<1>i. Formed /\ LocksFit BY DEF LocksIInv
<1>1. /\ DOMAIN page' = DOMAIN page /\ page'.load = page.load /\ page'.listed = page.listed
      /\ page'.rest = page.rest /\ page'.awaiting = page.awaiting /\ page'.doc = page.doc
      /\ page'.docEpoch = page.docEpoch
      /\ page'.pending = IF page.pending = "share" THEN Nil ELSE page.pending
  BY <1>i DEF resetDialog, Freed, Formed, PageFormed
<1>2. PageFormed' /\ DialogFormed' BY <1>i, <1>1 DEF resetDialog, Formed, PageFormed, DialogFormed
<1>3. LocksFit'
  BY <1>i, <1>1 DEF resetDialog, LocksFit, SameLocks, Exclusive, Writes, Pendings, WritePendings
<1>4. \A c : c.cmd = "activate" => (c \in calls' <=> c \in calls) BY DEF SameLocks, Exclusive
<1> QED BY <1>i, <1>1, <1>2, <1>3, <1>4, StepFits DEF Formed

\* The form is filled.
LEMMA FillInv ==
  ASSUME LocksIInv, UNCHANGED <<app, work, lists, seen, page, epoch, used, disturbed>>,
         NEW c \in calls, isCurrentDialog(c, "edit"), NEW x, NEW url, dialog' = Filled(dialog, x, url),
         SameLocks(calls, calls'), calls' \subseteq calls
  PROVE  LocksIInv'
<1>i. Formed /\ LocksFit BY DEF LocksIInv
<1>1. dialog # Nil /\ dialog.mode = "edit" BY DEF isCurrentDialog
<1>2. DOMAIN dialog' = DOMAIN dialog /\ dialog'.epoch = dialog.epoch /\ dialog'.mode = "edit"
  <2>1. DOMAIN dialog = DialogFields BY <1>i, <1>1 DEF Formed, DialogFormed, DialogFields
  <2> QED BY <1>1, <2>1 DEF Filled, DialogFields
<1>3. PageFormed' /\ DialogFormed' BY <1>i, <1>1, <1>2 DEF Formed, PageFormed, DialogFormed
<1>4. page.pending # "share" /\ page.doc = Nil /\ page.pending \notin {"document", "running"}
  BY <1>i, <1>1 DEF LocksFit, isCurrentDialog
<1>5. LocksFit' BY <1>i, <1>2, <1>4 DEF LocksFit, SameLocks, Exclusive, Writes
<1>6. \A d : d.cmd = "activate" => (d \in calls' <=> d \in calls) BY DEF SameLocks, Exclusive
<1> QED BY <1>i, <1>3, <1>5, <1>6, StepFits DEF Formed

\* The user closes a dialog.
LEMMA CloseDialogInv == ASSUME LocksIInv, CloseDialog PROVE LocksIInv'
BY ResetInv DEF CloseDialog, SameLocks

\* The settings arrive, for the dialog or for none.
LEMMA AnswerSettingsInv == ASSUME LocksIInv, AnswerSettings PROVE LocksIInv'
<1>i. Formed BY DEF LocksIInv
<1>1. PICK c \in calls :
        /\ c.cmd = "settings" /\ UNCHANGED <<app, work, lists, seen, used, stale, disturbed>>
        /\ \/ calls' = calls \ {c} /\ UNCHANGED <<dialog, epoch, page>>
           \/ calls' = calls \ {c} /\ resetDialog(page)
           \/ /\ calls' = (calls \ {c}) \cup {Call("share", c.id, c.owner, c.answer.value)}
              /\ UNCHANGED <<dialog, epoch, page>>
           \/ /\ calls' = calls \ {c} /\ isCurrentDialog(c, "edit")
              /\ dialog' = Filled(dialog, c.answer.value, Blank) /\ UNCHANGED <<epoch, page>>
  BY DEF AnswerSettings
<1>2. CASE calls' = calls \ {c}
  <2>1. SameLocks(calls, calls') /\ calls' \subseteq calls BY <1>1, <1>2 DEF SameLocks, Exclusive, Writes
  <2>2. CASE UNCHANGED <<dialog, epoch, page>> BY <1>i, <1>1, <1>2, <2>1, <2>2, DropInv DEF Formed
  <2>3. CASE resetDialog(page) BY <1>1, <2>1, <2>3, ResetInv
  <2>4. CASE /\ isCurrentDialog(c, "edit")
             /\ dialog' = Filled(dialog, c.answer.value, Blank) /\ UNCHANGED <<epoch, page>>
    BY <1>1, <2>1, <2>4, FillInv
  <2> QED BY <1>1, <2>2, <2>3, <2>4
<1>3. CASE /\ calls' = (calls \ {c}) \cup {Call("share", c.id, c.owner, c.answer.value)}
           /\ UNCHANGED <<dialog, epoch, page>>
  <2> DEFINE d == Call("share", c.id, c.owner, c.answer.value)
  <2>0. c.owner \in Nat BY <1>i DEF Formed, CallFormed
  <2>1. CallFormed(d, used) /\ d.cmd = "share" 
    <3>1. "share" \in Commands /\ "share" # "activate" BY DEF Commands
    <3> DEFINE i == c.id
               o == c.owner
               v == c.answer.value
    <3>3. o \in Nat BY <2>0
    <3> HIDE DEF i, o, v
    <3>4. CallFormed(Call("share", i, o, v), used) /\ Call("share", i, o, v).cmd = "share"
      BY <3>1, <3>3, NewCallFormed
    <3> QED BY <3>4 DEF i, o, v
  <2>2. calls' = (calls \ {c}) \cup {d} BY <1>3
  <2> HIDE DEF d
  <2>3. SameLocks(calls, calls') BY <1>1, <2>1, <2>2 DEF SameLocks, Exclusive, Writes
  <2>4. \A x \in calls' : CallFormed(x, used) BY <1>i, <2>1, <2>2 DEF Formed
  <2>5. \A x \in calls : x.cmd = "share" => x \in calls' BY <1>1, <2>2
  <2> QED BY <1>1, <1>3, <2>3, <2>4, <2>5, DropInv
<1> QED BY <1>1, <1>2, <1>3

\* The URL arrives, for the form.
LEMMA AnswerShareInv == ASSUME LocksIInv, AnswerShare PROVE LocksIInv'
<1>i. Formed BY DEF LocksIInv
<1>1. PICK c \in calls :
        /\ c.cmd = "share" /\ c.arg # Nil /\ UNCHANGED <<app, work, lists, seen, used, stale, disturbed>>
        /\ calls' = calls \ {c}
        /\ \/ UNCHANGED <<dialog, epoch, page>>
           \/ resetDialog(page)
           \/ /\ isCurrentDialog(c, "edit")
              /\ dialog' = Filled(dialog, c.arg, c.answer.value) /\ UNCHANGED <<epoch, page>>
  BY DEF AnswerShare
<1>2. SameLocks(calls, calls') /\ calls' \subseteq calls BY <1>1 DEF SameLocks, Exclusive, Writes
<1>3. CASE UNCHANGED <<dialog, epoch, page>> BY <1>i, <1>1, <1>2, <1>3, DropInv DEF Formed
<1>4. CASE resetDialog(page) BY <1>1, <1>2, <1>4, ResetInv
<1>5. CASE /\ isCurrentDialog(c, "edit")
           /\ dialog' = Filled(dialog, c.arg, c.answer.value) /\ UNCHANGED <<epoch, page>>
  BY <1>1, <1>2, <1>5, FillInv
<1> QED BY <1>1, <1>3, <1>4, <1>5

\* The URL arrives, for the QR code.
LEMMA AnswerQrInv == ASSUME LocksIInv, AnswerQr PROVE LocksIInv'
<1>i. Formed /\ LocksFit BY DEF LocksIInv
<1>1. PICK c \in calls :
        /\ c.cmd = "share" /\ UNCHANGED <<app, work, lists, seen, used, stale, disturbed>>
        /\ calls' = calls \ {c}
        /\ \/ ~isCurrentDialog(c, "qr") /\ UNCHANGED <<dialog, epoch, page>>
           \/ resetDialog(page)
           \/ /\ isCurrentDialog(c, "qr") /\ dialog' = [dialog EXCEPT !.share = c.answer.value]
              /\ page' = [page EXCEPT !.pending = Nil] /\ UNCHANGED epoch
  BY DEF AnswerQr
<1>2. SameLocks(calls, calls') /\ calls' \subseteq calls BY <1>1 DEF SameLocks, Exclusive, Writes
<1>3. CASE ~isCurrentDialog(c, "qr") /\ UNCHANGED <<dialog, epoch, page>>
  BY <1>i, <1>1, <1>2, <1>3, DropInv DEF Formed
<1>4. CASE resetDialog(page) BY <1>1, <1>2, <1>4, ResetInv
<1>5. CASE /\ isCurrentDialog(c, "qr") /\ dialog' = [dialog EXCEPT !.share = c.answer.value]
           /\ page' = [page EXCEPT !.pending = Nil] /\ UNCHANGED epoch
  <2>1. dialog # Nil /\ dialog.mode = "qr" /\ page.doc = Nil BY <1>i, <1>5 DEF isCurrentDialog, LocksFit
  <2>2. page.pending \in {Nil, "share"} BY <1>i, <2>1 DEF LocksFit
  <2>3. DOMAIN dialog' = DOMAIN dialog /\ dialog'.epoch = dialog.epoch
    BY <1>i, <1>5, <2>1 DEF Formed, DialogFormed
  <2>4. PageFormed' /\ DialogFormed' BY <1>i, <1>5, <2>1, <2>3 DEF Formed, PageFormed, DialogFormed
  <2>5. page'.pending = Nil /\ page'.rest = page.rest /\ page'.awaiting = page.awaiting /\ page'.doc = page.doc
    BY <1>i, <1>5 DEF Formed, PageFormed
  <2>6. LocksFit'
    BY <1>i, <1>1, <1>2, <2>1, <2>2, <2>5 DEF LocksFit, SameLocks, Exclusive, Writes, Pendings, WritePendings
  <2>7. \A d : d.cmd = "activate" => (d \in calls' <=> d \in calls) BY <1>2 DEF SameLocks, Exclusive
  <2>8. \A d \in calls' : CallFormed(d, used') BY <1>i, <1>1, <1>2 DEF Formed
  <2> QED BY <1>i, <1>1, <1>5, <2>4, <2>5, <2>6, <2>7, <2>8, StepFits DEF Formed
<1> QED BY <1>1, <1>3, <1>4, <1>5

-----------------------------------------------------------------------------
\* The fields of the page that an operation leaves.
PageKept(p) ==
  /\ DOMAIN p = DOMAIN page /\ p.load = page.load /\ DOMAIN p.listed \subseteq Ids
  /\ p.doc = page.doc /\ p.docEpoch = page.docEpoch

\* An operation that writes begins, and the page is pending for it.
LEMMA WriteBegins ==
  ASSUME LocksIInv, page.pending = Nil, page.doc = Nil,
         NEW c, CallFormed(c, used'), c.cmd \in Writes, calls' = calls \cup {c},
         used' \in {used, used + 1}, UNCHANGED <<app, work, lists, seen, disturbed>>,
         DialogFormed', dialog' # Nil => dialog'.mode # "qr",
         PageKept(page'), page'.awaiting = page.awaiting, page'.pending \in WritePendings,
         page'.rest # {} => page'.pending \in {"all", "selected"}
  PROVE  LocksIInv'
<1>i. Formed /\ LocksFit BY DEF LocksIInv
<1>u. used \in Nat /\ used' \in Nat /\ used <= used' BY <1>i DEF Formed
<1>1. PageFormed' BY <1>i DEF Formed, PageFormed, PageKept, Pendings, WritePendings
<1>2. \A x \in calls' : CallFormed(x, used') BY <1>i, <1>u, UsedMore DEF Formed
<1>3. LocksFit'
  BY <1>i, IdleFacts DEF LocksFit, PageKept, Pendings, WritePendings, Exclusive, Writes
<1>4. \A x : x.cmd = "activate" => (x \in calls' <=> x \in calls) BY DEF Writes
<1> QED BY <1>i, <1>u, <1>1, <1>2, <1>3, <1>4, StepFits DEF Formed

\* What Begin makes.
LEMMA BeginFacts ==
  ASSUME LocksIInv, NEW cmd, NEW i, NEW arg, Begin(cmd, i, arg), cmd \in Writes \cup {"activate"},
         cmd = "activate" => i \in Ids
  PROVE  /\ page.pending = Nil /\ page.doc = Nil /\ dialog' = Nil /\ DialogFormed'
         /\ used \in Nat /\ used' = used + 1 /\ UNCHANGED <<app, work, lists, seen, disturbed>>
         /\ \E c : /\ CallFormed(c, used') /\ c.cmd = cmd /\ calls' = calls \cup {c} /\ c.answer = NoAnswer
                   /\ c.owner = used + 1 /\ ~c.waits
<1>1. used \in Nat /\ used' = used + 1 BY DEF Begin, LocksIInv, Formed
<1>2. DialogFormed' BY DEF Begin, LocksIInv, Formed, DialogFormed
<1> DEFINE c == Call(cmd, i, used + 1, arg)
<1>3. CallFormed(c, used') /\ c.cmd = cmd /\ c.answer = NoAnswer /\ c.owner = used + 1 /\ ~c.waits
  <2>1. cmd \in Commands /\ used + 1 \in Nat /\ (cmd = "activate" => used + 1 <= used') BY <1>1 DEF Commands, Exclusive
  <2> QED BY <2>1, NewCallFormed
<1>4. calls' = calls \cup {c} BY DEF Begin
<1> HIDE DEF c
<1> QED BY <1>1, <1>2, <1>3, <1>4 DEF Begin, Idle

\* What Pending changes.
LEMMA PendingKeeps ==
  ASSUME Formed, NEW kind, Pending(kind)
  PROVE  PageKept(page') /\ page'.awaiting = page.awaiting /\ page'.pending = kind /\ page'.rest = page.rest
BY DEF Formed, PageFormed, Pending, PageKept

\* The operations of the page itself.
LEMMA BeginInv ==
  ASSUME LocksIInv, submitQuickImport \/ updateOne \/ updateAll PROVE LocksIInv'
<1>i. Formed BY DEF LocksIInv
<1>1. CASE submitQuickImport \/ updateOne
  <2>0. PICK cmd \in {"import", "update"} : \E i, arg : Begin(cmd, i, arg)
    BY <1>1 DEF submitQuickImport, updateOne
  <2>1. PICK i, arg : Begin(cmd, i, arg) BY <2>0
  <2>2. PICK kind \in {"import", "update"} : Pending(kind) BY <1>1 DEF submitQuickImport, updateOne
  <2>3. PICK c : CallFormed(c, used') /\ c.cmd = cmd /\ calls' = calls \cup {c}
    BY <2>1, BeginFacts DEF Writes
  <2>4. c.cmd \in Writes BY <2>3 DEF Writes
  <2>5. /\ page.pending = Nil /\ page.doc = Nil /\ dialog' = Nil /\ DialogFormed'
        /\ used' \in {used, used + 1} /\ UNCHANGED <<app, work, lists, seen, disturbed>>
    BY <2>1, BeginFacts DEF Writes
  <2>6. /\ PageKept(page') /\ page'.awaiting = page.awaiting /\ page'.pending = kind /\ page'.rest = page.rest
    BY <1>i, <2>2, PendingKeeps
  <2>7. page.rest = {} BY <2>5, IdleFacts
  <2>8. kind \in WritePendings BY DEF WritePendings
  <2> QED BY <2>3, <2>4, <2>5, <2>6, <2>7, <2>8, WriteBegins
<1>2. CASE updateAll
  <2>1. PICK i, rest : Begin("update", i, Nil) /\ page' = [page EXCEPT !.pending = "all", !.rest = rest]
    BY <1>2 DEF updateAll
  <2>3. PICK c : CallFormed(c, used') /\ c.cmd = "update" /\ calls' = calls \cup {c}
    BY <2>1, BeginFacts DEF Writes
  <2>4. c.cmd \in Writes BY <2>3 DEF Writes
  <2>5. /\ page.pending = Nil /\ page.doc = Nil /\ dialog' = Nil /\ DialogFormed'
        /\ used' \in {used, used + 1} /\ UNCHANGED <<app, work, lists, seen, disturbed>>
    BY <2>1, BeginFacts DEF Writes
  <2>6. PageKept(page') /\ page'.awaiting = page.awaiting /\ page'.pending = "all"
    BY <1>i, <2>1 DEF Formed, PageFormed, PageKept
  <2> QED BY <2>3, <2>4, <2>5, <2>6, WriteBegins DEF WritePendings
<1> QED BY <1>1, <1>2

\* What Send makes.
LEMMA SendFacts ==
  ASSUME LocksIInv, dialog # Nil, NEW cmd \in Writes, NEW i, NEW arg, NEW fields, Send(cmd, i, arg, fields)
  PROVE  /\ page.pending = Nil /\ page.doc = Nil /\ DialogFormed' /\ dialog'.mode = dialog.mode
         /\ used \in Nat /\ used' = used /\ UNCHANGED <<app, work, lists, seen, disturbed>>
         /\ \E c : CallFormed(c, used') /\ c.cmd = cmd /\ calls' = calls \cup {c}
<1>i. Formed /\ LocksFit BY DEF LocksIInv
<1>1. used \in Nat /\ used' = used BY <1>i DEF Send, Formed
<1>2. DialogFormed' /\ dialog'.mode = dialog.mode BY <1>i DEF Send, Formed, DialogFormed
<1> DEFINE c == Call(cmd, i, used + 1, arg)
           d == [c EXCEPT !.touched = fields]
<1>3. CallFormed(c, used') /\ c.cmd = cmd /\ cmd # "activate"
  <2>1. cmd \in Commands /\ used + 1 \in Nat /\ cmd # "activate" BY <1>1 DEF Commands, Exclusive, Writes
  <2> QED BY <2>1, NewCallFormed
<1>4. calls' = calls \cup {d} BY DEF Send
<1> HIDE DEF c
<1>5. CallFormed(d, used') /\ d.cmd = cmd BY <1>3 DEF CallFormed, AnswerFormed
<1> HIDE DEF d
<1> QED BY <1>i, <1>1, <1>2, <1>4, <1>5 DEF Send, LocksFit

\* The operations of a dialog.
LEMMA SendInv ==
  ASSUME LocksIInv, submitDialog \/ confirmDelete \/ deleteSelected PROVE LocksIInv'
<1>i. Formed BY DEF LocksIInv
<1>0. PICK cmd \in Writes : \E i, arg, fields : Send(cmd, i, arg, fields)
  BY Zenon DEF submitDialog, confirmDelete, deleteSelected, Writes
<1>1. PICK i, arg, fields : Send(cmd, i, arg, fields) BY <1>0
<1>2. dialog # Nil /\ dialog.mode # "qr" BY DEF submitDialog, confirmDelete, deleteSelected
<1>3. PICK c : CallFormed(c, used') /\ c.cmd = cmd /\ calls' = calls \cup {c} BY <1>1, <1>2, SendFacts
<1>4. /\ page.pending = Nil /\ page.doc = Nil /\ DialogFormed' /\ dialog'.mode # "qr"
      /\ used' \in {used, used + 1} /\ UNCHANGED <<app, work, lists, seen, disturbed>>
  BY <1>1, <1>2, SendFacts
<1>5. page.rest = {} BY <1>4, IdleFacts
<1>6. /\ PageKept(page') /\ page'.awaiting = page.awaiting /\ page'.pending \in WritePendings
      /\ page'.rest # {} => page'.pending \in {"all", "selected"}
  <2>1. CASE deleteSelected
    <3>1. PICK rest : page' = [page EXCEPT !.pending = "selected", !.rest = rest] BY <2>1 DEF deleteSelected
    <3> QED BY <1>i, <3>1 DEF Formed, PageFormed, PageKept, WritePendings
  <2>2. CASE submitDialog \/ confirmDelete
    <3>1. PICK kind \in {"dialog", "delete"} : Pending(kind) BY <2>2 DEF submitDialog, confirmDelete
    <3> QED BY <1>i, <1>5, <3>1, PendingKeeps DEF WritePendings
  <2> QED BY <2>1, <2>2
<1> QED BY <1>1, <1>3, <1>4, <1>6, WriteBegins

\* A write is over, and the page is no longer pending for it.
LEMMA WriteEnds ==
  ASSUME LocksIInv, NEW c \in calls, c.cmd \in Writes, calls' = calls \ {c},
         UNCHANGED <<app, work, lists, seen, used, disturbed>>,
         DOMAIN page' = DOMAIN page, page'.load \in {page.load, "ready"}, DOMAIN page'.listed \subseteq Ids,
         page'.doc = page.doc, page'.docEpoch = page.docEpoch, page'.awaiting = page.awaiting,
         page'.pending = Nil, page'.rest = {},
         (dialog' = Nil /\ epoch' = epoch + 1) \/ UNCHANGED <<dialog, epoch>>
  PROVE  LocksIInv'
<1>i. Formed /\ LocksFit BY DEF LocksIInv
<1>1. PageFormed' BY <1>i DEF Formed, PageFormed
<1>2. DialogFormed' BY <1>i DEF Formed, DialogFormed
<1>3. page.pending \in WritePendings BY <1>i DEF LocksFit
<1>4. \A x \in calls : x.cmd \in Exclusive => x = c BY <1>i DEF LocksFit, Exclusive
<1>5. LocksFit' BY <1>i, <1>3, <1>4 DEF LocksFit, Exclusive, Writes, Pendings, WritePendings
<1>6. \A x : x.cmd = "activate" => (x \in calls' <=> x \in calls) BY DEF Writes
<1> QED BY <1>i, <1>1, <1>2, <1>5, <1>6, StepFits DEF Formed

\* What an operation changes in the list.
Relisted(p) ==
  /\ PageKept(p) /\ p.rest = page.rest /\ p.pending = page.pending
  /\ p.awaiting = page.awaiting /\ p.removed = page.removed

\* A row that changes leaves the rest of the page.
LEMMA RelistedSteps ==
  ASSUME Formed
  PROVE  /\ Relisted(page)
         /\ \A x : x.id \in Ids => Relisted(upsert(page, x))
         /\ \A s : Relisted([page EXCEPT !.listed = Restrict(@, DOMAIN @ \ s)])
<1>1. ASSUME NEW l, DOMAIN l \subseteq Ids PROVE Relisted([page EXCEPT !.listed = l])
  BY <1>1 DEF Formed, PageFormed, PageKept, Relisted
<1>2. DOMAIN page.listed \subseteq Ids BY DEF Formed, PageFormed
<1>3. ASSUME NEW x, x.id \in Ids PROVE Relisted(upsert(page, x))
  <2> DEFINE l == With(page.listed, x.id, Row(x))
  <2>1. DOMAIN l \subseteq Ids BY <1>2, <1>3 DEF With
  <2>2. upsert(page, x) = [page EXCEPT !.listed = l] BY DEF upsert
  <2> HIDE DEF l
  <2> QED BY <1>1, <2>1, <2>2
<1>4. ASSUME NEW s PROVE Relisted([page EXCEPT !.listed = Restrict(@, DOMAIN @ \ s)])
  <2> DEFINE l == Restrict(page.listed, DOMAIN page.listed \ s)
  <2>1. DOMAIN l \subseteq Ids BY <1>2 DEF Restrict
  <2>2. [page EXCEPT !.listed = Restrict(@, DOMAIN @ \ s)] = [page EXCEPT !.listed = l] OBVIOUS
  <2> HIDE DEF l
  <2> QED BY <1>1, <2>1, <2>2
<1>5. Relisted(page) BY DEF Formed, PageFormed, PageKept, Relisted
<1> QED BY <1>3, <1>4, <1>5

\* The answer of one write.
LEMMA AnswerOneInv == ASSUME LocksIInv, AnswerOne PROVE LocksIInv'
<1>i. Formed /\ LocksFit BY DEF LocksIInv
<1>1. PICK c, shown, load :
        /\ c \in calls
        /\ c.cmd \in Writes /\ c.answer # NoAnswer
        /\ \/ shown = page
           \/ shown = [page EXCEPT !.listed = Restrict(@, DOMAIN @ \ {c.answer.value})]
           \/ Succeeded(c.answer) /\ c.cmd # "delete" /\ shown = upsert(page, c.answer.value)
        /\ load \in {shown.load, "ready"}
        /\ page.pending \notin {"all", "selected"}
        /\ calls' = calls \ {c}
        /\ LET done == [shown EXCEPT !.pending = Nil, !.load = load]
           IN resetDialog(done) \/ (page' = done /\ UNCHANGED <<dialog, epoch>>)
        /\ UNCHANGED <<app, work, lists, seen, used, stale, disturbed>>
  BY DEF AnswerOne
<1>2. Succeeded(c.answer) /\ c.cmd # "delete" => c.answer.value.id \in Ids
  BY <1>i, <1>1 DEF Formed, CallFormed, AnswerFormed, Succeeded, Writes
<1>3. PageKept(shown) /\ shown.awaiting = page.awaiting /\ shown.rest = page.rest
  <2>1. Relisted(shown)
    <3>1. CASE shown = page BY <1>i, <3>1, RelistedSteps
    <3>2. CASE shown = [page EXCEPT !.listed = Restrict(@, DOMAIN @ \ {c.answer.value})]
      BY <1>i, <3>2, RelistedSteps
    <3>3. CASE Succeeded(c.answer) /\ c.cmd # "delete" /\ shown = upsert(page, c.answer.value)
      BY <1>i, <1>2, <3>3, RelistedSteps
    <3> QED BY <1>1, <3>1, <3>2, <3>3
  <2> QED BY <2>1 DEF Relisted
<1> DEFINE done == [shown EXCEPT !.pending = Nil, !.load = load]
<1>4. /\ DOMAIN done = DOMAIN page /\ done.load \in {page.load, "ready"} /\ DOMAIN done.listed \subseteq Ids
      /\ done.doc = page.doc /\ done.docEpoch = page.docEpoch /\ done.awaiting = page.awaiting
      /\ done.pending = Nil /\ done.rest = {}
  <2>1. page.rest = {} BY <1>i, <1>1 DEF LocksFit
  <2> QED BY <1>i, <1>1, <1>3, <2>1 DEF PageKept, Formed, PageFormed
<1>5. page' = done BY <1>1, <1>4 DEF resetDialog, Freed, Pendings
<1>6. (dialog' = Nil /\ epoch' = epoch + 1) \/ UNCHANGED <<dialog, epoch>> BY <1>1 DEF resetDialog
<1> HIDE DEF done
<1> QED BY <1>1, <1>4, <1>5, <1>6, WriteEnds

\* The answer of a write of a batch: the next is sent, or the batch is over.
LEMMA AnswerNextInv == ASSUME LocksIInv, AnswerNext PROVE LocksIInv'
<1>i. Formed /\ LocksFit BY DEF LocksIInv
<1>1. PICK c, shown, removed :
        /\ c \in calls
        /\ c.cmd \in Writes /\ c.answer # NoAnswer
        /\ \/ shown = page
           \/ Succeeded(c.answer) /\ c.cmd = "update" /\ shown = upsert(page, c.answer.value)
        /\ page.pending \in {"all", "selected"}
        /\ \/ \E i \in page.rest :
                /\ calls' = (calls \ {c}) \cup {Call(c.cmd, i, c.owner, Nil)}
                /\ page' = [shown EXCEPT !.rest = @ \ {i}, !.removed = removed]
                /\ UNCHANGED <<dialog, epoch>>
           \/ /\ page.rest = {} /\ calls' = calls \ {c}
              /\ LET done == [shown EXCEPT !.pending = Nil, !.removed = {},
                                           !.listed = Restrict(@, DOMAIN @ \ removed)]
                 IN resetDialog(done) \/ (page' = done /\ UNCHANGED <<dialog, epoch>>)
        /\ UNCHANGED <<app, work, lists, seen, used, stale, disturbed>>
  BY DEF AnswerNext
<1>2. Succeeded(c.answer) /\ c.cmd = "update" => c.answer.value.id \in Ids
  BY <1>i, <1>1 DEF Formed, CallFormed, AnswerFormed, Succeeded, Writes
<1>3. PageKept(shown) /\ shown.awaiting = page.awaiting /\ shown.rest = page.rest /\ shown.pending = page.pending
  <2>1. Relisted(shown)
    <3>1. CASE shown = page BY <1>i, <3>1, RelistedSteps
    <3>2. CASE Succeeded(c.answer) /\ c.cmd = "update" /\ shown = upsert(page, c.answer.value)
      BY <1>i, <1>2, <3>2, RelistedSteps
    <3> QED BY <1>1, <3>1, <3>2
  <2> QED BY <2>1 DEF Relisted
<1>4. CASE page.rest = {} /\ calls' = calls \ {c}
  <2> DEFINE l == Restrict(shown.listed, DOMAIN shown.listed \ removed)
             done == [shown EXCEPT !.pending = Nil, !.removed = {}, !.listed = l]
  <2>1. DOMAIN l \subseteq Ids BY <1>3 DEF PageKept, Restrict
  <2>2. [shown EXCEPT !.pending = Nil, !.removed = {}, !.listed = Restrict(@, DOMAIN @ \ removed)] = done
    OBVIOUS
  <2> HIDE DEF l
  <2>3. /\ DOMAIN done = DOMAIN page /\ done.load = page.load /\ DOMAIN done.listed \subseteq Ids
        /\ done.doc = page.doc /\ done.docEpoch = page.docEpoch /\ done.awaiting = page.awaiting
        /\ done.pending = Nil /\ done.rest = {}
    BY <1>i, <1>3, <1>4, <2>1 DEF PageKept, Formed, PageFormed
  <2>4. resetDialog(done) \/ (page' = done /\ UNCHANGED <<dialog, epoch>>) BY <1>1, <1>4, <2>2
  <2> HIDE DEF done
  <2>5. page' = done BY <2>3, <2>4 DEF resetDialog, Freed, Pendings
  <2>6. (dialog' = Nil /\ epoch' = epoch + 1) \/ UNCHANGED <<dialog, epoch>> BY <2>4 DEF resetDialog
  <2> QED BY <1>1, <1>4, <2>3, <2>5, <2>6, WriteEnds
<1>5. ASSUME NEW i \in page.rest,
             calls' = (calls \ {c}) \cup {Call(c.cmd, i, c.owner, Nil)},
             page' = [shown EXCEPT !.rest = @ \ {i}, !.removed = removed],
             UNCHANGED <<dialog, epoch>>
      PROVE  LocksIInv'
  <2> DEFINE d == Call(c.cmd, i, c.owner, Nil)
  <2>1. CallFormed(d, used) /\ d.cmd = c.cmd
    <3> DEFINE cmd == c.cmd
               o == c.owner
    <3>1. cmd \in Commands /\ o \in Nat /\ cmd # "activate" BY <1>i, <1>1 DEF Formed, CallFormed, Writes
    <3> HIDE DEF cmd, o
    <3>2. CallFormed(Call(cmd, i, o, Nil), used) /\ Call(cmd, i, o, Nil).cmd = cmd BY <3>1, NewCallFormed
    <3> QED BY <3>2 DEF cmd, o
  <2>2. calls' = (calls \ {c}) \cup {d} BY <1>5
  <2> HIDE DEF d
  <2>3. /\ PageKept(page') /\ page'.awaiting = page.awaiting /\ page'.pending = page.pending
        /\ page'.rest \subseteq page.rest
    BY <1>i, <1>3, <1>5 DEF PageKept, Formed, PageFormed
  <2>4. PageFormed' BY <1>i, <2>3 DEF PageKept, Formed, PageFormed
  <2>5. DialogFormed' BY <1>i, <1>5 DEF Formed, DialogFormed
  <2>6. \A x \in calls' : CallFormed(x, used') BY <1>i, <1>1, <2>1, <2>2 DEF Formed
  <2>7. LocksFit'
    <3>1. \A x \in calls : x.cmd \in Exclusive => x = c BY <1>i, <1>1 DEF LocksFit, Exclusive
    <3>2. page.pending \in WritePendings BY <1>i, <1>1 DEF WritePendings
    <3> QED BY <1>i, <1>1, <1>5, <2>1, <2>2, <2>3, <3>1, <3>2 DEF PageKept, LocksFit, Exclusive, Writes, Pendings, WritePendings
  <2>8. \A x : x.cmd = "activate" => (x \in calls' <=> x \in calls) BY <1>1, <2>1, <2>2 DEF Writes
  <2>9. /\ UNCHANGED <<app, work, seen, disturbed>> /\ used' \in Nat /\ used <= used'
        /\ lists' \in Seq(ListCalls)
    <3>1. UNCHANGED <<app, work, lists, seen, used, disturbed>> BY <1>1
    <3> QED BY <1>i, <3>1 DEF Formed
  <2> QED BY <2>3, <2>4, <2>5, <2>6, <2>7, <2>8, <2>9, StepFits
<1> QED BY <1>1, <1>4, <1>5

-----------------------------------------------------------------------------
\* A document or the running configuration is asked for.
LEMMA OpenDocInv ==
  ASSUME LocksIInv, NEW cmd \in {"document", "running"}, NEW i, OpenDoc(cmd, cmd, i) PROVE LocksIInv'
<1>i. Formed /\ LocksFit BY DEF LocksIInv
<1>1. /\ page.pending = Nil /\ dialog = Nil /\ page.doc = Nil
      /\ page' = [page EXCEPT !.pending = cmd, !.docEpoch = @ + 1]
      /\ calls' = calls \cup {Call(cmd, i, page.docEpoch + 1, Nil)}
      /\ UNCHANGED <<app, work, lists, seen, dialog, epoch, stale, disturbed>>
      /\ used \in Nat /\ used' = used + 1
  BY <1>i DEF OpenDoc, Idle, Formed
<1> DEFINE c == Call(cmd, i, page.docEpoch + 1, Nil)
<1>2. CallFormed(c, used') /\ c.cmd = cmd
  <2>1. cmd \in Commands /\ cmd # "activate" BY DEF Commands, Exclusive
  <2>2. page.docEpoch + 1 \in Nat BY <1>i DEF Formed, PageFormed
  <2> QED BY <2>1, <2>2, NewCallFormed
<1>3. calls' = calls \cup {c} BY <1>1
<1> HIDE DEF c
<1>4. /\ PageFormed' /\ page'.awaiting = page.awaiting /\ page'.pending = cmd /\ page'.rest = page.rest
      /\ page'.doc = page.doc
  BY <1>i, <1>1 DEF Formed, PageFormed, Pendings
<1>5. DialogFormed' BY <1>i, <1>1 DEF Formed, DialogFormed
<1>6. \A x \in calls' : CallFormed(x, used') BY <1>i, <1>1, <1>2, <1>3, UsedMore DEF Formed
<1>7. LocksFit'
  BY <1>i, <1>1, <1>2, <1>3, <1>4, IdleFacts DEF LocksFit, Pendings, WritePendings, Exclusive, Writes
<1>8. \A x : x.cmd = "activate" => (x \in calls' <=> x \in calls) BY <1>2, <1>3
<1>9. lists' \in Seq(ListCalls) BY <1>i, <1>1 DEF Formed
<1> QED BY <1>1, <1>4, <1>5, <1>6, <1>7, <1>8, <1>9, StepFits

\* The user turns away from the document, or closes it: no operation is touched.
LEMMA LeaveInv == ASSUME LocksIInv, LeavePage \/ closeDocument PROVE LocksIInv'
<1>i. Formed /\ LocksFit BY DEF LocksIInv
<1>1. UNCHANGED <<app, work, calls, lists, seen, dialog, epoch, used, disturbed>> BY DEF LeavePage, closeDocument
<1>2. /\ PageFormed' /\ page'.awaiting = page.awaiting /\ page'.pending = page.pending /\ page'.rest = page.rest
      /\ page'.doc \in {page.doc, Nil} /\ (closeDocument \/ page'.doc = page.doc)
  <2>1. PICK doc \in {page.doc, Nil} : /\ page' = [page EXCEPT !.doc = doc, !.docEpoch = page.docEpoch + 1]
                                       /\ closeDocument \/ doc = page.doc
    <3>1. CASE closeDocument BY <3>1 DEF closeDocument
    <3>2. CASE LeavePage
      <4>1. page' = [page EXCEPT !.doc = page.doc, !.docEpoch = page.docEpoch + 1]
        BY <1>i, <3>2 DEF LeavePage, Formed, PageFormed
      <4> QED BY <4>1
    <3> QED BY <3>1, <3>2
  <2> QED BY <1>i, <2>1 DEF Formed, PageFormed
<1>3. closeDocument => ~Saving BY DEF closeDocument
<1>4. LocksFit' BY <1>i, <1>1, <1>2, <1>3 DEF LocksFit, Saving, isCurrentDialog
<1>5. DialogFormed' BY <1>i, <1>1 DEF Formed, DialogFormed
<1>6. lists' \in Seq(ListCalls) /\ used' \in Nat /\ used <= used' /\ \A c \in calls' : CallFormed(c, used')
  BY <1>i, <1>1 DEF Formed
<1> QED BY <1>1, <1>2, <1>4, <1>5, <1>6, StepFits

\* It is there, for the session that asked or for none.
LEMMA AnswerDocInv == ASSUME LocksIInv, AnswerDocument \/ AnswerRunning PROVE LocksIInv'
<1>i. Formed /\ LocksFit BY DEF LocksIInv
<1>1. PICK c, doc :
        /\ c \in calls
        /\ c.cmd \in {"document", "running"} /\ calls' = calls \ {c}
        /\ page' = [page EXCEPT !.pending = Nil, !.doc = doc]
        /\ UNCHANGED <<app, work, lists, seen, dialog, epoch, used, disturbed>>
  BY Zenon DEF AnswerDocument, AnswerRunning
<1>2. page.pending \in {"document", "running"} /\ dialog = Nil BY <1>i, <1>1 DEF LocksFit
<1>3. PageFormed' /\ page'.awaiting = page.awaiting /\ page'.pending = Nil /\ page'.rest = page.rest
  BY <1>i, <1>1 DEF Formed, PageFormed
<1>4. \A x \in calls : x.cmd \in Exclusive => x = c BY <1>i, <1>1 DEF LocksFit, Exclusive
<1>5. LocksFit'
  BY <1>i, <1>1, <1>2, <1>3, <1>4 DEF LocksFit, Exclusive, Writes, Pendings, WritePendings
<1>6. DialogFormed' BY <1>i, <1>1 DEF Formed, DialogFormed
<1>7. lists' \in Seq(ListCalls) /\ used' \in Nat /\ used <= used' /\ \A x \in calls' : CallFormed(x, used')
  BY <1>i, <1>1 DEF Formed
<1>8. \A x : x.cmd = "activate" => (x \in calls' <=> x \in calls) BY <1>1
<1>9. UNCHANGED <<app, work, seen, disturbed>> BY <1>1
<1> QED BY <1>3, <1>5, <1>6, <1>7, <1>8, <1>9, StepFits

\* The editor saves.
LEMMA SaveInv == ASSUME LocksIInv, saveDocument PROVE LocksIInv'
<1>i. Formed /\ LocksFit BY DEF LocksIInv
<1>1. /\ page.doc # Nil /\ page.doc.kind = "subscription" /\ ~Saving
      /\ calls' = calls \cup {Call("save", page.doc.id, page.docEpoch, Nil)}
      /\ UNCHANGED <<app, work, lists, seen, page, dialog, epoch, stale, disturbed>>
      /\ used \in Nat /\ used' = used + 1
  BY <1>i DEF saveDocument, Formed
<1> DEFINE i == page.doc.id
           c == Call("save", i, page.docEpoch, Nil)
<1>2. calls' = calls \cup {c} BY <1>1
<1> HIDE DEF i
<1>3. CallFormed(c, used') /\ c.cmd = "save"
  <2>1. "save" \in Commands /\ "save" # "activate" BY DEF Commands, Exclusive
  <2>2. page.docEpoch \in Nat BY <1>i DEF Formed, PageFormed
  <2> QED BY <2>1, <2>2, NewCallFormed
<1> HIDE DEF c
<1>4. \A x \in calls : x.cmd \notin Exclusive
  <2>1. page.pending = Nil BY <1>i, <1>1 DEF LocksFit
  <2> QED BY <1>i, <1>1, <2>1 DEF LocksIInv, LocksFit, ActivationFits, Exclusive, Pendings, WritePendings, Saving
<1>5. LocksFit' BY <1>i, <1>1, <1>2, <1>3, <1>4 DEF LocksFit, Exclusive, Writes, isCurrentDialog
<1>6. PageFormed' /\ DialogFormed' BY <1>i, <1>1 DEF Formed, PageFormed, DialogFormed
<1>7. \A x \in calls' : CallFormed(x, used') BY <1>i, <1>1, <1>2, <1>3, UsedMore DEF Formed
<1>8. \A x : x.cmd = "activate" => (x \in calls' <=> x \in calls) BY <1>2, <1>3
<1>9. lists' \in Seq(ListCalls) BY <1>i, <1>1 DEF Formed
<1> QED BY <1>1, <1>5, <1>6, <1>7, <1>8, <1>9, StepFits

\* It has saved.
LEMMA AnswerSaveInv == ASSUME LocksIInv, AnswerSave PROVE LocksIInv'
<1>i. Formed /\ LocksFit BY DEF LocksIInv
<1>1. PICK c, shown :
        /\ c \in calls
        /\ c.cmd = "save" /\ c.answer # NoAnswer /\ calls' = calls \ {c}
        /\ \/ shown = page
           \/ Succeeded(c.answer) /\ shown = upsert(page, c.answer.value.subscription)
        /\ page' \in {shown, [shown EXCEPT !.doc = Nil, !.docEpoch = @ + 1]}
        /\ UNCHANGED <<app, work, lists, seen, dialog, epoch, used, stale, disturbed>>
  BY DEF AnswerSave
<1>2. Succeeded(c.answer) => c.answer.value.subscription.id \in Ids
  BY <1>i, <1>1 DEF Formed, CallFormed, AnswerFormed, Succeeded
<1>3. Relisted(shown)
  <2>1. CASE shown = page BY <1>i, <2>1, RelistedSteps
  <2>2. CASE Succeeded(c.answer) /\ shown = upsert(page, c.answer.value.subscription)
    BY <1>i, <1>2, <2>2, RelistedSteps
  <2> QED BY <1>1, <2>1, <2>2
<1>4. /\ PageFormed' /\ page'.awaiting = page.awaiting /\ page'.pending = page.pending /\ page'.rest = page.rest
      /\ page'.doc \in {page.doc, Nil}
  <2>1. CASE page' = shown BY <1>i, <2>1, <1>3 DEF Relisted, PageKept, Formed, PageFormed
  <2>2. CASE page' = [shown EXCEPT !.doc = Nil, !.docEpoch = @ + 1]
    BY <1>i, <2>2, <1>3 DEF Relisted, PageKept, Formed, PageFormed
  <2> QED BY <1>1, <2>1, <2>2
<1>5. \A x \in calls : x.cmd \in Exclusive => x = c BY <1>i, <1>1 DEF LocksFit, Exclusive
<1>6. UNCHANGED <<app, work, lists, seen, dialog, epoch, used, disturbed>> /\ calls' = calls \ {c} /\ c.cmd = "save"
  BY <1>1
<1>7. LocksFit' BY <1>i, <1>4, <1>5, <1>6 DEF LocksFit, Exclusive, Writes, Pendings, WritePendings, isCurrentDialog
<1>8. DialogFormed' BY <1>i, <1>6 DEF Formed, DialogFormed
<1>9. lists' \in Seq(ListCalls) /\ used' \in Nat /\ used <= used' /\ \A x \in calls' : CallFormed(x, used')
  BY <1>i, <1>6 DEF Formed
<1>10. \A x : x.cmd = "activate" => (x \in calls' <=> x \in calls) BY <1>6
<1> QED BY <1>4, <1>6, <1>7, <1>8, <1>9, <1>10, StepFits

-----------------------------------------------------------------------------
\* What the effects of an observation change.
LEMMA SettledFacts ==
  ASSUME NEW p, DOMAIN p = DOMAIN page, Formed, NEW o
  PROVE  LET q == Settled(p, o)
         IN /\ DOMAIN q = DOMAIN page /\ q.load = p.load /\ q.listed = p.listed /\ q.rest = p.rest
            /\ q.docEpoch = p.docEpoch
            /\ q.doc = IF Mismatch(p.doc, o) THEN Nil ELSE p.doc
            /\ q.awaiting = IF activationCompletion(p.awaiting, o) THEN Nil ELSE p.awaiting
            /\ q.pending = IF activationCompletion(p.awaiting, o) THEN Nil ELSE p.pending
BY DEF Settled, Formed, PageFormed

\* What is not over is not taken as over.
LEMMA NotOverFacts ==
  ASSUME NEW o, NotOver(o), RecordFormed(o, used), work # Nil, NEW a, a.op = work.op, ~a.current
  PROVE  ~activationCompletion(a, Observation(o)) /\ ~activationCompletion(a, o)
BY DEF activationCompletion, NotOver, Observation

\* The observation arrives.
LEMMA ObserveInv == ASSUME LocksIInv, Observe PROVE LocksIInv'
<1>i. StateValid(app) /\ Formed /\ WorkFits /\ LocksFit /\ ActivationFits BY DEF LocksIInv
<1> DEFINE o == Observation(app)
           over == activationCompletion(page.awaiting, o)
<1>1. /\ seen' = o /\ page' = Settled(page, o)
      /\ lists' = IF over THEN Append(lists, ListCall(FALSE)) ELSE lists
      /\ disturbed' = (disturbed /\ page'.awaiting # Nil)
      /\ UNCHANGED <<app, work, calls, dialog, epoch, used, stale>>
  BY Zenon DEF Observe, Settle
<1>2. /\ DOMAIN page' = DOMAIN page /\ page'.load = page.load /\ page'.listed = page.listed
      /\ page'.rest = page.rest /\ page'.docEpoch = page.docEpoch
      /\ page'.doc = IF Mismatch(page.doc, o) THEN Nil ELSE page.doc
      /\ page'.awaiting = IF over THEN Nil ELSE page.awaiting
      /\ page'.pending = IF over THEN Nil ELSE page.pending
  BY <1>i, <1>1, SettledFacts
<1>3. over => page.awaiting # Nil /\ page.awaiting.op # Nil BY DEF activationCompletion
<1>4. over => /\ page.pending = "activate" /\ page.doc = Nil
              /\ \A c \in calls : c.cmd # "activate"
  BY <1>i, <1>3 DEF LocksFit, ActivationFits, Pendings
<1>5. PageFormed' BY <1>i, <1>2 DEF Formed, PageFormed
<1>6. DialogFormed' BY <1>i, <1>1 DEF Formed, DialogFormed
<1>7. o.applied = app.applied /\ o.switch = app.switch /\ o.life = app.life BY DEF Observation
<1>8. RecordFormed(seen, used)' BY <1>i, <1>1, <1>7 DEF Formed, AppFormed, RecordFormed
<1>9. lists' \in Seq(ListCalls) /\ used' \in Nat /\ (\A c \in calls : CallFormed(c, used))' /\ AppFormed(app, used)'
  BY <1>i, <1>1, ListSteps DEF Formed
<1>10. Formed' BY <1>5, <1>6, <1>8, <1>9 DEF Formed
<1>11. Mismatch(page.doc, o) => page.doc.kind = "runtime" BY DEF Mismatch
<1> HIDE DEF o, over
<1>12. LocksFit'
  BY <1>i, <1>1, <1>2, <1>4, <1>11 DEF LocksFit, Pendings, WritePendings, isCurrentDialog
<1>13. StateValid(app)' /\ WorkFits' BY <1>i, <1>1 DEF StateValid, WorkFits
<1>14. NotOver(app)' /\ NotOver(seen)'
  <2>1. NotOver(app)' BY <1>i, <1>1 DEF ActivationFits, NotOver
  <2> QED BY <2>1, <1>1, <1>7 DEF NotOver
<1>15. WorkIsAwaited'
  <2>1. ASSUME work # Nil, page.awaiting # Nil, page.awaiting.op = work.op, ~page.awaiting.current
        PROVE  ~over
    <3>1. NotOver(app) /\ RecordFormed(app, used) BY <1>i DEF ActivationFits, Formed, AppFormed
    <3> QED BY <2>1, <3>1, NotOverFacts DEF over, o
  <2> QED BY <1>i, <1>1, <1>2, <2>1 DEF ActivationFits, WorkIsAwaited
<1>16. \A a : Ends(a) /\ (disturbed => disturbed') => Ends(a)'
  BY <1>1 DEF Ends, activationCompletion, isSubscriptionVisualActive, Observation
<1>17. page'.awaiting # Nil => (disturbed => disturbed') /\ page'.awaiting = page.awaiting
  BY <1>1, <1>2
<1>18. ActivationFits'
  BY <1>i, <1>1, <1>2, <1>4, <1>14, <1>15, <1>16, <1>17 DEF ActivationFits, AnsweredAwaiting
<1> QED BY <1>10, <1>12, <1>13, <1>18 DEF LocksIInv

\* An activation begins: its operation is newer than all that are recorded.
LEMMA ActivateInv == ASSUME LocksIInv, activate PROVE LocksIInv'
<1>i. StateValid(app) /\ Formed /\ WorkFits /\ LocksFit /\ ActivationFits BY DEF LocksIInv
<1>1. PICK i, arg :
        /\ i \in Ids
        /\ Begin("activate", i, arg)
        /\ page' = [page EXCEPT !.pending = "activate", !.awaiting = Awaiting(i, Nil, FALSE, 0)]
  BY <1>i DEF activate, Shown, Formed, PageFormed
<1>2. /\ page.pending = Nil /\ page.doc = Nil /\ dialog' = Nil /\ DialogFormed'
      /\ used \in Nat /\ used' = used + 1 /\ UNCHANGED <<app, work, lists, seen, disturbed>>
  BY <1>1, BeginFacts
<1>3. PICK c : /\ CallFormed(c, used') /\ c.cmd = "activate" /\ calls' = calls \cup {c} /\ c.answer = NoAnswer
               /\ c.owner = used + 1 /\ ~c.waits
  BY <1>1, BeginFacts
<1>4. page.awaiting = Nil /\ page.rest = {} /\ \A x \in calls : x.cmd \notin Exclusive
  BY <1>2, IdleFacts
<1> DEFINE w == Awaiting(i, Nil, FALSE, 0)
<1>5. w \in Awaitings /\ w # Nil /\ w.op = Nil
  <2>1. w \in Awaitings /\ w.op = Nil BY <1>1 DEF Awaiting, Awaitings
  <2> QED BY <2>1
<1>6. page' = [page EXCEPT !.pending = "activate", !.awaiting = w] BY <1>1
<1> HIDE DEF w
<1>7. /\ PageFormed' /\ page'.pending = "activate" /\ page'.awaiting = w /\ page'.rest = page.rest
      /\ page'.doc = page.doc
  BY <1>i, <1>5, <1>6 DEF Formed, PageFormed, Pendings
<1>8. \A x \in calls' : CallFormed(x, used') BY <1>i, <1>2, <1>3, UsedMore DEF Formed
<1>9. AppFormed(app, used)' /\ RecordFormed(seen, used)' BY <1>i, <1>2, UsedMore DEF Formed
<1>10. Formed' BY <1>i, <1>2, <1>7, <1>8, <1>9 DEF Formed
<1>11. StateValid(app)' /\ WorkFits' BY <1>i, <1>2, WorkKeeps DEF StateValid
<1>12. LocksFit'
  BY <1>i, <1>2, <1>3, <1>4, <1>5, <1>7 DEF LocksFit, Pendings, WritePendings, Exclusive, Writes
<1>13. work = Nil BY <1>i, <1>4 DEF ActivationFits, WorkIsAwaited, Exclusive
<1>14. NotOver(app)' /\ NotOver(seen)'
  <2>1. ASSUME NEW o, RecordFormed(o, used), o.switch # Nil PROVE o.switch.op \in Nat /\ o.switch.op <= used
    BY <2>1 DEF RecordFormed, Switches
  <2>2. RecordFormed(app, used) /\ RecordFormed(seen, used) BY <1>i DEF Formed, AppFormed
  <2>3. app.switch # Nil => app.switch.op # used + 1 BY <1>2, <2>1, <2>2
  <2>4. seen.switch # Nil => seen.switch.op # used + 1 BY <1>2, <2>1, <2>2
  <2> QED BY <1>2, <1>3, <1>4, <1>13, <2>3, <2>4 DEF NotOver, Exclusive
<1>15. ActivationFits'
  BY <1>2, <1>3, <1>4, <1>5, <1>7, <1>13, <1>14 DEF ActivationFits, WorkIsAwaited, Exclusive, NoAnswer
<1> QED BY <1>10, <1>11, <1>12, <1>15 DEF LocksIInv

\* The answer of the activation, good or bad, is read.
LEMMA AnswerActivateInv == ASSUME LocksIInv, AnswerActivate PROVE LocksIInv'
<1>i. StateValid(app) /\ Formed /\ WorkFits /\ LocksFit /\ ActivationFits BY DEF LocksIInv
<1>1. PICK c \in calls :
        /\ c.cmd = "activate" /\ c.answer # NoAnswer /\ calls' = calls \ {c}
        /\ UNCHANGED <<app, work, seen, dialog, epoch, used, stale>>
        /\ \/ /\ ~Succeeded(c.answer) /\ page' = [page EXCEPT !.pending = Nil, !.awaiting = Nil]
              /\ disturbed' = FALSE /\ UNCHANGED lists
           \/ /\ c.answer.status = "pending"
              /\ Settle([page EXCEPT !.awaiting = Awaiting(c.id, c.owner, FALSE, 0)], seen, lists)
           \/ /\ Succeeded(c.answer) /\ c.answer.status # "pending"
              /\ Settle([upsert(page, c.answer.value.subscription) EXCEPT
                           !.awaiting = Awaiting(c.id, c.answer.value.op, c.answer.value.current, c.answer.value.gen)],
                        seen, Append(lists, ListCall(FALSE)))
  BY DEF AnswerActivate
<1>2. CallFormed(c, used) /\ c.id \in Ids /\ c.owner \in Nat /\ c.answer.status \in {"error", "pending", "ok"}
  BY <1>i, <1>1 DEF Formed, CallFormed, AnswerFormed
<1>3. \A x \in calls : x.cmd \in Exclusive => x = c BY <1>i, <1>1 DEF LocksFit, Exclusive
<1>4. page.pending = "activate" /\ page.awaiting # Nil /\ page.awaiting.op = Nil /\ page.doc = Nil
  BY <1>i, <1>1 DEF LocksFit, ActivationFits, Pendings
<1>5. work # Nil => /\ c.waits /\ c.owner = work.op /\ c.answer.status \in {"none", "pending"}
  <2>1. work # Nil => work.op \in Nat BY <1>i DEF WorkFits, Works
  <2> QED BY <1>i, <1>3, <1>4, <2>1 DEF ActivationFits, WorkIsAwaited, Exclusive
<1>6. DialogFormed' /\ AppFormed(app, used)' /\ RecordFormed(seen, used)' /\ used' \in Nat
      /\ StateValid(app)' /\ WorkFits'
  <2>1. UNCHANGED <<app, work, seen, dialog, epoch, used>> BY <1>1
  <2> QED BY <1>i, <2>1 DEF Formed, DialogFormed, StateValid, WorkFits
<1>7. \A x \in calls' : CallFormed(x, used') BY <1>i, <1>1 DEF Formed
<1>8. NotOver(app)' /\ NotOver(seen)'
  <2>1. UNCHANGED <<app, work, seen>> /\ calls' \subseteq calls BY <1>1
  <2> QED BY <1>i, <2>1 DEF ActivationFits, NotOver
<1>9. ASSUME lists' \in Seq(ListCalls), DOMAIN page' = DOMAIN page, page'.load = page.load,
             DOMAIN page'.listed \subseteq Ids, page'.rest = page.rest, page'.doc = Nil,
             page'.docEpoch = page.docEpoch,
             \/ page'.awaiting = Nil /\ page'.pending = Nil /\ work = Nil
             \/ /\ page'.awaiting # Nil /\ page'.pending = "activate" /\ page'.awaiting = AnsweredAwaiting(c)
                /\ page'.awaiting \in Awaitings /\ page'.awaiting.op = c.owner
                /\ c.answer.status \in {"pending", "ok"} /\ (disturbed => disturbed')
                /\ work # Nil => ~page'.awaiting.current
      PROVE  LocksIInv'
  <2>1. PageFormed' BY <1>i, <1>9 DEF Formed, PageFormed, Pendings
  <2>2. Formed' BY <1>6, <1>7, <1>9, <2>1 DEF Formed
  <2>3. UNCHANGED <<app, work, dialog>> /\ calls' = calls \ {c} BY <1>1
  <2>4. LocksFit'
    BY <1>i, <1>1, <1>3, <1>4, <1>9, <2>3 DEF LocksFit, Exclusive, Writes, Pendings, WritePendings
  <2>5. WorkIsAwaited' BY <1>5, <1>9, <2>3 DEF WorkIsAwaited
  <2>6. \A x \in calls' : x.cmd # "activate" BY <1>3, <2>3 DEF Exclusive
  <2>7. ASSUME page'.awaiting # Nil PROVE Ends(page.awaiting)' /\ page'.awaiting.op # Nil
    <3>1. Ends(AnsweredAwaiting(c)) BY <1>i, <1>1, <1>9, <2>7 DEF ActivationFits
    <3> DEFINE w == AnsweredAwaiting(c)
    <3>2. page'.awaiting = w /\ (disturbed => disturbed') BY <1>9, <2>7
    <3> HIDE DEF w
    <3>3. Ends(w) BY <3>1 DEF w
    <3>4. Ends(page.awaiting)'
      BY <2>3, <3>2, <3>3 DEF Ends, activationCompletion, isSubscriptionVisualActive, Observation
    <3> QED BY <1>2, <1>9, <2>7, <3>4
  <2>8. ActivationFits' BY <1>8, <2>5, <2>6, <2>7 DEF ActivationFits
  <2> QED BY <1>6, <2>2, <2>4, <2>8 DEF LocksIInv
<1>10. CASE /\ ~Succeeded(c.answer) /\ page' = [page EXCEPT !.pending = Nil, !.awaiting = Nil]
            /\ disturbed' = FALSE /\ UNCHANGED lists
  <2>1. work = Nil BY <1>5, <1>10 DEF Succeeded
  <2>2. /\ DOMAIN page' = DOMAIN page /\ page'.load = page.load /\ DOMAIN page'.listed \subseteq Ids
        /\ page'.rest = page.rest /\ page'.doc = Nil /\ page'.docEpoch = page.docEpoch
        /\ page'.awaiting = Nil /\ page'.pending = Nil
    BY <1>i, <1>4, <1>10 DEF Formed, PageFormed
  <2>3. lists' \in Seq(ListCalls) BY <1>i, <1>10 DEF Formed
  <2> QED BY <1>9, <2>1, <2>2, <2>3
\* Both ways that it goes on: w is what the page waits for then.
<1>11. ASSUME NEW p, NEW l \in Seq(ListCalls), NEW w, w = AnsweredAwaiting(c), w \in Awaitings, w.op = c.owner,
              p.awaiting = w, DOMAIN p = DOMAIN page, p.rest = page.rest, p.pending = page.pending,
              p.load = page.load, p.doc = page.doc, DOMAIN p.listed \subseteq Ids, p.docEpoch = page.docEpoch,
              c.answer.status \in {"pending", "ok"}, work # Nil => ~w.current, Settle(p, seen, l)
       PROVE  LocksIInv'
  <2> DEFINE over == activationCompletion(p.awaiting, seen)
  <2>2. /\ page' = Settled(p, seen) /\ lists' = IF over THEN Append(l, ListCall(FALSE)) ELSE l
        /\ disturbed' = (disturbed /\ page'.awaiting # Nil)
    BY <1>11, Zenon DEF Settle
  <2>3. /\ DOMAIN page' = DOMAIN page /\ page'.load = p.load /\ page'.listed = p.listed /\ page'.rest = p.rest
        /\ page'.docEpoch = p.docEpoch
        /\ page'.doc = IF Mismatch(p.doc, seen) THEN Nil ELSE p.doc
        /\ page'.awaiting = IF over THEN Nil ELSE p.awaiting
        /\ page'.pending = IF over THEN Nil ELSE p.pending
    BY <1>i, <1>11, <2>2, SettledFacts
  <2>4. over => work = Nil
    <3>1. NotOver(seen) /\ RecordFormed(seen, used) BY <1>i DEF ActivationFits, Formed
    <3>2. work # Nil => w.op = work.op /\ ~w.current BY <1>5, <1>11
    <3> QED BY <1>11, <3>1, <3>2, NotOverFacts
  <2>5. lists' \in Seq(ListCalls) BY <2>2, ListSteps
  <2>6. w # Nil BY <1>11
  <2> HIDE DEF over
  <2>7. page'.doc = Nil BY <1>4, <1>11, <2>3
  <2>8. ~over => (disturbed => disturbed') BY <1>11, <2>2, <2>3, <2>6
  <2> QED BY <1>4, <1>9, <1>11, <2>3, <2>4, <2>5, <2>6, <2>7, <2>8
<1>12. CASE /\ c.answer.status = "pending"
            /\ Settle([page EXCEPT !.awaiting = Awaiting(c.id, c.owner, FALSE, 0)], seen, lists)
  <2> DEFINE w == Awaiting(c.id, c.owner, FALSE, 0)
             p == [page EXCEPT !.awaiting = w]
  <2>1. w \in Awaitings /\ w.op = c.owner /\ ~w.current BY <1>2 DEF Awaiting, Awaitings
  <2>2. w = AnsweredAwaiting(c) BY <1>12 DEF AnsweredAwaiting
  <2>3. Settle(p, seen, lists) BY <1>12
  <2> HIDE DEF w
  <2>4. /\ p.awaiting = w /\ DOMAIN p = DOMAIN page /\ p.rest = page.rest /\ p.pending = page.pending
        /\ p.load = page.load /\ p.doc = page.doc /\ DOMAIN p.listed \subseteq Ids
        /\ p.docEpoch = page.docEpoch /\ lists \in Seq(ListCalls)
    BY <1>i DEF Formed, PageFormed
  <2> HIDE DEF p
  <2> QED BY <1>11, <1>12, <2>1, <2>2, <2>3, <2>4
<1>13. CASE /\ Succeeded(c.answer) /\ c.answer.status # "pending"
            /\ Settle([upsert(page, c.answer.value.subscription) EXCEPT
                           !.awaiting = Awaiting(c.id, c.answer.value.op, c.answer.value.current, c.answer.value.gen)],
                        seen, Append(lists, ListCall(FALSE)))
  <2> DEFINE v == c.answer.value
             w == Awaiting(c.id, v.op, v.current, v.gen)
             u == upsert(page, v.subscription)
             p == [u EXCEPT !.awaiting = w]
  <2>1. /\ c.answer.status = "ok" /\ v.op = c.owner /\ v.current \in BOOLEAN /\ v.gen \in Nat
        /\ v.subscription.id \in Ids
    BY <1>2, <1>1, <1>13 DEF Succeeded, CallFormed, AnswerFormed
  <2>2. Settle(p, seen, Append(lists, ListCall(FALSE))) BY <1>13
  <2>3. w = AnsweredAwaiting(c) BY <2>1 DEF AnsweredAwaiting
  <2>4. Relisted(u) BY <1>i, <2>1, RelistedSteps
  <2> HIDE DEF v, u
  <2>5. w \in Awaitings /\ w.op = c.owner BY <1>2, <2>1 DEF Awaiting, Awaitings
  <2> HIDE DEF w
  <2>6. /\ p.awaiting = w /\ DOMAIN p = DOMAIN page /\ p.rest = page.rest /\ p.pending = page.pending
        /\ p.load = page.load /\ p.doc = page.doc /\ DOMAIN p.listed \subseteq Ids
        /\ p.docEpoch = page.docEpoch
    BY <1>i, <2>4 DEF Relisted, PageKept, Formed, PageFormed
  <2> HIDE DEF p
  <2>7. Append(lists, ListCall(FALSE)) \in Seq(ListCalls) BY <1>i, ListSteps DEF Formed
  <2>8. work = Nil BY <1>5, <2>1
  <2> DEFINE l == Append(lists, ListCall(FALSE))
  <2>9. l \in Seq(ListCalls) /\ Settle(p, seen, l) BY <2>2, <2>7
  <2> HIDE DEF l
  <2> QED BY <1>11, <2>1, <2>3, <2>5, <2>6, <2>8, <2>9
<1> QED BY <1>1, <1>10, <1>12, <1>13

-----------------------------------------------------------------------------
\* A call goes on, with what it asked for.
LEMMA CallMoved ==
  ASSUME LocksFit, NEW c \in calls, NEW d, d.cmd = c.cmd, d.id = c.id, d.owner = c.owner, d.arg = c.arg,
         calls' = (calls \ {c}) \cup {d}, UNCHANGED <<page, dialog>>
  PROVE  LocksFit'
<1>1. \A x \in calls' : \E y \in calls : x.cmd = y.cmd /\ x.id = y.id /\ x.owner = y.owner /\ x.arg = y.arg
  OBVIOUS
<1>2. \A y \in calls : \E x \in calls' : x.cmd = y.cmd /\ x.id = y.id /\ x.owner = y.owner /\ x.arg = y.arg
  OBVIOUS
<1>3. \A x, y \in calls' : x.cmd \in Exclusive /\ y.cmd \in Exclusive => x = y
  BY DEF LocksFit
<1>4. \A x : isCurrentDialog(x, "qr")' <=> isCurrentDialog(x, "qr") BY DEF isCurrentDialog
<1>5. \A x, y : x.owner = y.owner /\ x.id = y.id => (isCurrentDialog(x, "qr") <=> isCurrentDialog(y, "qr"))
  BY DEF isCurrentDialog
<1>6. page.pending = "share" =>
        \E x \in calls' : x.cmd = "share" /\ x.arg = Nil /\ isCurrentDialog(x, "qr")
  BY <1>2, <1>5 DEF LocksFit
<1> QED BY <1>1, <1>2, <1>3, <1>4, <1>6 DEF LocksFit

\* What an answer, or the wait for the worker, changes of a call.
LEMMA CallFields ==
  ASSUME NEW n, NEW c, CallFormed(c, n), NEW x
  PROVE  /\ LET d == [c EXCEPT !.answer = x]
            IN /\ DOMAIN d = DOMAIN c /\ d.cmd = c.cmd /\ d.id = c.id /\ d.owner = c.owner /\ d.arg = c.arg
               /\ d.waits = c.waits /\ d.answer = x
         /\ LET d == [c EXCEPT !.waits = TRUE]
            IN /\ CallFormed(d, n) /\ d.cmd = c.cmd /\ d.id = c.id /\ d.owner = c.owner /\ d.arg = c.arg
               /\ d.waits /\ d.answer = c.answer
BY DEF CallFormed, AnswerFormed

\* An activation that is refused, or that has nothing to do: the worker was not asked.
LEMMA NotSent ==
  ASSUME LocksIInv, NEW c \in calls, c.cmd = "activate", ~c.waits
  PROVE  work = Nil
<1>i. WorkFits /\ LocksFit /\ ActivationFits BY DEF LocksIInv
<1>1. \A x \in calls : x.cmd \in Exclusive => x = c BY <1>i DEF LocksFit, Exclusive
<1>2. work # Nil => work.op \in Nat BY <1>i DEF WorkFits, Works
<1> QED BY <1>i, <1>1, <1>2 DEF ActivationFits, WorkIsAwaited, Exclusive

\* Its call is answered without the worker.
LEMMA UnsentAnswered ==
  ASSUME LocksIInv, NEW c \in calls, c.cmd = "activate", ~c.waits, c.answer = NoAnswer, NEW x,
         \/ x = Failure
         \/ /\ x.status = "ok" /\ x.value.subscription.id \in Ids /\ x.value.op = c.owner
            /\ x.value.current \in BOOLEAN /\ x.value.gen \in Nat
            /\ activationCompletion(Awaiting(c.id, c.owner, x.value.current, x.value.gen), Observation(app)),
         calls' = (calls \ {c}) \cup {[c EXCEPT !.answer = x]},
         UNCHANGED <<app, work, lists, seen, page, dialog, epoch, used, disturbed>>
  PROVE  LocksIInv'
<1>i. StateValid(app) /\ Formed /\ WorkFits /\ LocksFit /\ ActivationFits BY DEF LocksIInv
<1> DEFINE d == [c EXCEPT !.answer = x]
<1>1. CallFormed(c, used) BY <1>i DEF Formed
<1>2. /\ DOMAIN d = DOMAIN c /\ d.cmd = c.cmd /\ d.id = c.id /\ d.owner = c.owner /\ d.arg = c.arg
      /\ d.waits = c.waits /\ d.answer = x
  BY <1>1, CallFields
<1>3. calls' = (calls \ {c}) \cup {d} OBVIOUS
<1> HIDE DEF d
<1>4. CallFormed(d, used) BY <1>1, <1>2 DEF CallFormed, AnswerFormed, Failure
<1>5. LocksFit' BY <1>i, <1>2, <1>3, CallMoved
<1>6. work = Nil BY NotSent
<1>7. StateValid(app)' /\ WorkFits' /\ PageFormed' /\ DialogFormed' /\ AppFormed(app, used)' /\ RecordFormed(seen, used)'
      /\ lists' \in Seq(ListCalls) /\ used' \in Nat
  BY <1>i DEF StateValid, WorkFits, Formed, PageFormed, DialogFormed
<1>8. \A y \in calls' : CallFormed(y, used') BY <1>i, <1>3, <1>4 DEF Formed
<1>9. Formed' BY <1>7, <1>8 DEF Formed
<1>10. \A y \in calls : y.cmd \in Exclusive => y = c BY <1>i DEF LocksFit, Exclusive
<1>11. NotOver(app)' /\ NotOver(seen)' BY <1>i, <1>2, <1>3, <1>6 DEF ActivationFits, NotOver
<1>12. x.status = "ok" => Ends(AnsweredAwaiting(d)) BY <1>2 DEF Ends, AnsweredAwaiting, Failure
<1>13. \A a : Ends(a) => Ends(a)' BY DEF Ends, activationCompletion, isSubscriptionVisualActive, Observation
<1>14. AnsweredAwaiting(d)' = AnsweredAwaiting(d) BY DEF AnsweredAwaiting
<1>15. x.status \in {"error", "ok"} /\ (d.waits = FALSE \/ ~d.waits) BY <1>2 DEF Failure
<1>16. \A y \in calls' : y.cmd = "activate" => y = d BY <1>3, <1>10 DEF Exclusive
<1>17. page.awaiting # Nil /\ page.awaiting.op = Nil BY <1>i DEF ActivationFits
<1>18. ActivationFits'
  BY <1>2, <1>3, <1>6, <1>11, <1>12, <1>13, <1>15, <1>16, <1>17 DEF ActivationFits, WorkIsAwaited, AnsweredAwaiting
<1> QED BY <1>5, <1>7, <1>9, <1>18 DEF LocksIInv

\* The state with the subscription of c selected, and its generation.
LEMMA SelectingFacts ==
  ASSUME AppFormed(app, used), NEW c
  PROVE  /\ AppFormed(Selecting(c), used)
         /\ app.active = c.id => Selecting(c) = app
         /\ app.active # c.id => Selecting(c).gen = app.gen + 1
<1>1. app.active # c.id => Selecting(c) = next_generation([app EXCEPT !.active = c.id]) BY DEF Selecting
<1>2. app.active = c.id => Selecting(c) = app BY DEF Selecting
<1> DEFINE a == [app EXCEPT !.active = c.id]
<1>3. AppFormed(a, used) /\ a.gen = app.gen BY SelectStep
<1> HIDE DEF a
<1>4. AppFormed(next_generation(a), used) /\ next_generation(a).gen = app.gen + 1 BY <1>3, GenerationStep
<1> QED BY <1>1, <1>2, <1>4 DEF a

\* It is refused.
LEMMA RefuseInv == ASSUME LocksIInv, RefuseActivation PROVE LocksIInv'
<1>1. PICK c, a :
        /\ c \in calls
        /\ c.cmd = "activate" /\ c.answer = NoAnswer /\ ~c.waits /\ a.status = "error"
        /\ calls' = (calls \ {c}) \cup {[c EXCEPT !.answer = Received("activate", a)]}
        /\ UNCHANGED <<app, work, lists, seen, page, dialog, epoch, used, stale, disturbed>>
  <2>1. PICK c \in calls :
          /\ c.cmd = "activate" /\ c.answer = NoAnswer /\ ~c.waits
          /\ \E a \in Rejections(c) : AnswerCall(c, a)
          /\ UNCHANGED <<app, work, lists, seen, page, dialog, epoch, used, stale, disturbed>>
    BY DEF RefuseActivation, Activations
  <2>2. PICK a : a.status = "error" /\ AnswerCall(c, a)
    <3>1. Err(ActivationError, "IdentityFailed").status = "error" BY DEF Err
    <3>2. \A e : activation_error(c.owner, e).status = "error" BY DEF activation_error
    <3> QED BY <2>1, <3>1, <3>2 DEF Rejections
  <2> QED BY <2>1, <2>2 DEF AnswerCall
<1>2. Received("activate", a) = Failure BY <1>1 DEF Received
<1> DEFINE x == Received("activate", a)
<1>3. x = Failure /\ calls' = (calls \ {c}) \cup {[c EXCEPT !.answer = x]} BY <1>1, <1>2
<1> HIDE DEF x
<1> QED BY <1>1, <1>3, UnsentAnswered

\* What an activation that is done says.
LEMMA ActivatedFacts ==
  ASSUME NEW op, NEW i, NEW a, NEW current \in BOOLEAN
  PROVE  LET x == Activated(op, i, a, current)
         IN /\ x.status = "ok" /\ x.value.subscription.id = i /\ x.value.op = op
            /\ x.value.current = current /\ x.value.gen = a.gen
            /\ Received("activate", x) \in {x, Failure}
<1> DEFINE s == SubscriptionSummaryResponse(summary_for(a, i))
<1>1. s.id = i BY SummaryFacts
<1>2. Activated(op, i, a, current) =
        [status |-> "ok", value |-> [subscription |-> s, gen |-> a.gen, current |-> current, op |-> op]]
  BY DEF Activated, Ok
<1> HIDE DEF s
<1> QED BY <1>1, <1>2 DEF Received

\* The core runs what is asked for: the record tells that the activation is over.
LEMMA AlreadyCurrentInv == ASSUME LocksIInv, AlreadyCurrent PROVE LocksIInv'
<1>i. Formed BY DEF LocksIInv
<1>1. PICK c \in calls :
        /\ c.cmd = "activate" /\ c.answer = NoAnswer /\ ~c.waits
        /\ app.life = "ready" /\ app.applied = [id |-> c.id, gen |-> Selecting(c).gen]
        /\ calls' = (calls \ {c}) \cup {[c EXCEPT !.answer =
             Received("activate", Activated(c.owner, c.id, Selecting(c), TRUE))]}
        /\ UNCHANGED <<app, work, lists, seen, page, dialog, epoch, used, stale, disturbed>>
  BY DEF AlreadyCurrent, Activations, AnswerCall, IsCurrent, CurrentAnswer, should_return_already_current
<1> DEFINE y == Activated(c.owner, c.id, Selecting(c), TRUE)
           x == Received("activate", y)
           g == Selecting(c).gen
<1>2. c.id \in Ids /\ c.owner \in Nat /\ g \in Nat
  BY <1>i, <1>1, SelectingFacts DEF Formed, CallFormed, AppFormed
<1>3. /\ y.status = "ok" /\ y.value.subscription.id = c.id /\ y.value.op = c.owner
      /\ y.value.current = TRUE /\ y.value.gen = g /\ x \in {y, Failure}
  BY ActivatedFacts
<1>4. activationCompletion(Awaiting(c.id, c.owner, TRUE, g), Observation(app))
  <2>1. app.applied \in Runs BY <1>1, <1>2 DEF Runs
  <2>2. app.applied # Nil /\ app.applied.id = c.id /\ app.applied.gen = g BY <1>1, <2>1
  <2>3. c.owner # Nil BY <1>2
  <2>4. Awaiting(c.id, c.owner, TRUE, g) \in Awaitings BY <1>2 DEF Awaiting, Awaitings
  <2> HIDE DEF g
  <2> QED BY <1>1, <1>2, <2>2, <2>3, <2>4 DEF activationCompletion, isSubscriptionVisualActive, Observation, Awaiting
<1>5. calls' = (calls \ {c}) \cup {[c EXCEPT !.answer = x]} BY <1>1
<1> HIDE DEF y, g
<1>6. \/ x = Failure
      \/ /\ x.status = "ok" /\ x.value.subscription.id \in Ids /\ x.value.op = c.owner
         /\ x.value.current \in BOOLEAN /\ x.value.gen \in Nat
         /\ activationCompletion(Awaiting(c.id, c.owner, x.value.current, x.value.gen), Observation(app))
  BY <1>2, <1>3, <1>4
<1> HIDE DEF x
<1> QED BY <1>1, <1>5, <1>6, UnsentAnswered

\* The worker is asked.
LEMMA SendActivationInv == ASSUME LocksIInv, SendActivation PROVE LocksIInv'
<1>i. StateValid(app) /\ Formed /\ WorkFits /\ LocksFit /\ ActivationFits BY DEF LocksIInv
<1>1. PICK c \in calls :
        /\ c.cmd = "activate" /\ c.answer = NoAnswer /\ ~c.waits
        /\ c.id \in DOMAIN app.subs /\ StateValid(Selecting(c))
        /\ work' = [op |-> c.owner, id |-> c.id, cancel |-> FALSE, stage |-> "sent"]
        /\ calls' = (calls \ {c}) \cup {[c EXCEPT !.waits = TRUE]}
        /\ UNCHANGED <<app, lists, seen, page, dialog, epoch, used, stale, disturbed>>
  BY DEF SendActivation, Activations
<1> DEFINE d == [c EXCEPT !.waits = TRUE]
<1>2. CallFormed(c, used) /\ c.id \in Ids /\ c.owner \in Nat BY <1>i, <1>1 DEF Formed, CallFormed
<1>3. /\ CallFormed(d, used) /\ d.cmd = c.cmd /\ d.id = c.id /\ d.owner = c.owner /\ d.arg = c.arg
      /\ d.waits /\ d.answer = c.answer
  BY <1>2, CallFields
<1>4. calls' = (calls \ {c}) \cup {d} BY <1>1
<1> HIDE DEF d
<1>5. LocksFit' BY <1>i, <1>1, <1>3, <1>4, CallMoved
<1>6. work' \in Works /\ work' # Nil /\ work'.op = c.owner /\ work'.id = c.id /\ work'.stage = "sent"
  <2>1. work' \in Works /\ work'.op = c.owner /\ work'.id = c.id /\ work'.stage = "sent" BY <1>1, <1>2 DEF Works
  <2> QED BY <2>1
<1>7. app.active # c.id => app.gen < MaxGen
  <2>1. app.active # c.id => Selecting(c).gen = app.gen + 1 BY <1>i, SelectingFacts DEF Formed
  <2>2. Selecting(c).gen <= MaxGen BY <1>1 DEF StateValid
  <2> QED BY <1>i, <2>1, <2>2 DEF Formed, AppFormed
<1>8. WorkFits'
  <2>1. c.owner <= used BY <1>1, <1>2 DEF CallFormed
  <2> QED BY <1>1, <1>6, <1>7, <2>1 DEF WorkFits
<1>9. StateValid(app)' /\ PageFormed' /\ DialogFormed' /\ AppFormed(app, used)' /\ RecordFormed(seen, used)'
      /\ lists' \in Seq(ListCalls) /\ used' \in Nat
  <2>1. UNCHANGED <<app, lists, seen, page, dialog, epoch, used>> BY <1>1
  <2> QED BY <1>i, <2>1 DEF StateValid, Formed, PageFormed, DialogFormed
<1>10. \A y \in calls' : CallFormed(y, used') BY <1>i, <1>1, <1>3, <1>4 DEF Formed
<1>11. Formed' BY <1>9, <1>10 DEF Formed
<1>12. \A y \in calls' : y.cmd = "activate" => y = d
  BY <1>i, <1>1, <1>3, <1>4 DEF LocksFit, Exclusive
<1>14. NotOver(app)' /\ NotOver(seen)'
  <2>1. UNCHANGED <<app, seen>> BY <1>1
  <2>2. NotOver(app) /\ NotOver(seen) BY <1>i DEF ActivationFits
  <2>3. (app.switch # Nil => app.switch.op # c.owner) /\ (seen.switch # Nil => seen.switch.op # c.owner)
    BY <1>1, <2>2 DEF NotOver
  <2> QED BY <1>3, <1>6, <1>12, <2>1, <2>3 DEF NotOver
<1>15. page'.awaiting # Nil /\ page'.awaiting.op = Nil BY <1>i, <1>1 DEF ActivationFits
<1>16. ActivationFits'
  BY <1>1, <1>3, <1>4, <1>6, <1>12, <1>14, <1>15 DEF ActivationFits, WorkIsAwaited, NoAnswer
<1> QED BY <1>5, <1>8, <1>9, <1>11, <1>16 DEF LocksIInv

\* The command stops waiting, and the page goes on waiting for the worker.
LEMMA ResponseTimeoutInv == ASSUME LocksIInv, ResponseTimeout PROVE LocksIInv'
<1>i. StateValid(app) /\ Formed /\ WorkFits /\ LocksFit /\ ActivationFits BY DEF LocksIInv
<1>1. PICK c \in calls :
        /\ c.cmd = "activate" /\ c.answer = NoAnswer /\ c.waits /\ work # Nil
        /\ calls' = (calls \ {c}) \cup
             {[c EXCEPT !.answer = Received("activate", StillPending(c.owner))]}
        /\ work' = [work EXCEPT !.cancel = TRUE]
        /\ UNCHANGED <<app, lists, seen, page, dialog, epoch, used, stale, disturbed>>
  BY DEF ResponseTimeout, Activations, AnswerCall
<1> DEFINE x == Received("activate", StillPending(c.owner))
           d == [c EXCEPT !.answer = x]
<1>2. x.status = "pending" BY DEF Received, Reads, parseActivateResult, StillPending
<1>3. CallFormed(c, used) BY <1>i, <1>1 DEF Formed
<1>4. calls' = (calls \ {c}) \cup {d} BY <1>1
<1> HIDE DEF x
<1>5. /\ DOMAIN d = DOMAIN c /\ d.cmd = c.cmd /\ d.id = c.id /\ d.owner = c.owner /\ d.arg = c.arg
      /\ d.waits = c.waits /\ d.answer = x
  BY <1>3, CallFields
<1> HIDE DEF d
<1>6. CallFormed(d, used) BY <1>1, <1>2, <1>3, <1>5 DEF CallFormed, AnswerFormed
<1>7. LocksFit' BY <1>i, <1>1, <1>4, <1>5, CallMoved
<1>8. work.op = c.owner /\ work \in Works BY <1>i, <1>1 DEF ActivationFits, WorkFits
<1>9. /\ work' \in Works /\ work' # Nil /\ work'.op = work.op /\ work'.id = work.id /\ work'.stage = work.stage
  <2>1. /\ work' \in Works /\ work'.op = work.op /\ work'.id = work.id /\ work'.stage = work.stage
    BY <1>1, <1>8 DEF Works
  <2> QED BY <2>1
<1>10. WorkFits' BY <1>i, <1>1, <1>9 DEF WorkFits
<1>11. StateValid(app)' /\ PageFormed' /\ DialogFormed' /\ AppFormed(app, used)' /\ RecordFormed(seen, used)'
      /\ lists' \in Seq(ListCalls) /\ used' \in Nat
  <2>1. UNCHANGED <<app, lists, seen, page, dialog, epoch, used>> BY <1>1
  <2> QED BY <1>i, <2>1 DEF StateValid, Formed, PageFormed, DialogFormed
<1>12. \A y \in calls' : CallFormed(y, used') BY <1>i, <1>1, <1>4, <1>6 DEF Formed
<1>13. Formed' BY <1>11, <1>12 DEF Formed
<1>14. \A y \in calls' : y.cmd = "activate" => y = d
  BY <1>i, <1>1, <1>4, <1>5 DEF LocksFit, Exclusive
<1>15. NotOver(app)' /\ NotOver(seen)'
  BY <1>i, <1>1, <1>5, <1>9, <1>14 DEF ActivationFits, NotOver
<1>16. page'.awaiting # Nil /\ page'.awaiting.op = Nil BY <1>i, <1>1 DEF ActivationFits
<1>17. Ends(AnsweredAwaiting(d))' BY <1>2, <1>5, <1>8, <1>9 DEF Ends, AnsweredAwaiting, Awaiting
<1>18. ActivationFits'
  BY <1>1, <1>2, <1>4, <1>5, <1>8, <1>9, <1>14, <1>15, <1>16, <1>17 DEF ActivationFits, WorkIsAwaited, NoAnswer
<1> QED BY <1>7, <1>10, <1>11, <1>13, <1>18 DEF LocksIInv
-----------------------------------------------------------------------------
\* While the worker has an activation, it is the one that is called or waited for.
LEMMA WorkHeld ==
  ASSUME LocksIInv, work # Nil
  PROVE  /\ work \in Works /\ work.op \in Nat /\ work.op <= used
         /\ \A c \in calls : c.cmd = "activate" =>
              c.waits /\ c.owner = work.op /\ c.owner \in Nat /\ c.answer.status # "ok"
         /\ page.awaiting # Nil /\ page.awaiting.op # Nil => page.awaiting.op = work.op
<1>i. WorkFits /\ LocksFit /\ ActivationFits /\ Formed BY DEF LocksIInv
<1>1. work \in Works /\ work.op \in Nat /\ work.op <= used BY <1>i DEF WorkFits, Works
<1>2. work.op # Nil BY <1>1
<1>3. ASSUME NEW c \in calls, c.cmd = "activate"
      PROVE  c.waits /\ c.owner = work.op /\ c.answer.status \in {"none", "pending"}
  <2>1. page.awaiting # Nil /\ page.awaiting.op = Nil BY <1>i, <1>3 DEF ActivationFits
  <2>2. PICK d \in calls : d.cmd = "activate" /\ d.owner = work.op /\ d.waits /\ d.answer.status \in {"none", "pending"}
    BY <1>2, <1>i, <2>1 DEF ActivationFits, WorkIsAwaited
  <2>3. c = d BY <1>i, <1>3, <2>2 DEF LocksFit, Exclusive
  <2> QED BY <2>2, <2>3
<1>4. ASSUME page.awaiting # Nil, page.awaiting.op # Nil PROVE page.awaiting.op = work.op
  BY <1>i, <1>4 DEF ActivationFits, WorkIsAwaited
<1> QED BY <1>1, <1>3, <1>4

\* The result goes to the one call that still waits for it, or to none.
LEMMA RespondCases ==
  ASSUME LocksIInv, work # Nil, NEW a, Respond(a)
  PROVE  \/ calls' = calls /\ \A c \in calls : c.cmd = "activate" => c.answer # NoAnswer
         \/ \E c \in calls : /\ c.cmd = "activate" /\ c.answer = NoAnswer /\ c.waits
                             /\ calls' = (calls \ {c}) \cup {[c EXCEPT !.answer = Received("activate", a)]}
<1>i. LocksFit BY DEF LocksIInv
<1> DEFINE Waits(c) == c \in Activations /\ c.waits /\ c.owner = work.op
           Done(c) == [c EXCEPT !.answer = Received("activate", a)]
<1>1. calls' = {IF Waits(c) THEN Done(c) ELSE c : c \in calls} BY DEF Respond
<1>2. \A c \in calls : Waits(c) <=> c.cmd = "activate" /\ c.answer = NoAnswer
  BY WorkHeld DEF Activations
<1>3. CASE \A c \in calls : ~Waits(c)
  <2> HIDE DEF Waits, Done
  <2>1. calls' = calls BY <1>1, <1>3
  <2> QED BY <1>2, <1>3, <2>1
<1>4. ASSUME NEW c \in calls, Waits(c)
      PROVE  calls' = (calls \ {c}) \cup {Done(c)}
  <2>1. \A d \in calls : Waits(d) <=> d = c BY <1>i, <1>2, <1>4 DEF LocksFit, Exclusive
  <2> HIDE DEF Waits, Done
  <2> QED BY <1>1, <1>4, <2>1
<1> QED BY <1>2, <1>3, <1>4 DEF Activations

\* The worker is done: the record tells how, and so does the answer.
LEMMA ActivationOver ==
  ASSUME LocksIInv, work # Nil, work' = Nil, AppFormed(app', used), StateValid(app'),
         NEW status \in {"cancelled", "failed", "ready"}, app'.switch = Switch(work.op, status),
         NEW a, Respond(a), NEW x, x = Received("activate", a),
         \/ x = Failure
         \/ x.status = "pending"
         \/ /\ x.status = "ok" /\ x.value.subscription.id \in Ids /\ x.value.op = work.op
            /\ x.value.current \in BOOLEAN /\ x.value.gen \in Nat,
         UNCHANGED <<lists, seen, page, dialog, epoch, used, disturbed>>
  PROVE  LocksIInv'
<1>i. Formed /\ WorkFits /\ LocksFit /\ ActivationFits BY DEF LocksIInv
<1> DEFINE CallsFit ==
             /\ \A c \in calls' : CallFormed(c, used)
             /\ \A c \in calls' : c.cmd = "activate" => c.waits /\ c.owner = work.op /\ c.answer # NoAnswer
             /\ (\E c \in calls' : c.cmd = "activate") <=> (\E c \in calls : c.cmd = "activate")
<1>1. /\ work.op \in Nat
      /\ \A c \in calls : c.cmd = "activate" => c.waits /\ c.owner = work.op /\ c.owner \in Nat
      /\ page.awaiting # Nil /\ page.awaiting.op # Nil => page.awaiting.op = work.op
  BY WorkHeld
<1>2. LocksFit' /\ CallsFit
  <2>1. CASE calls' = calls /\ \A c \in calls : c.cmd = "activate" => c.answer # NoAnswer
    <3>1. LocksFit' BY <1>i, <2>1, LocksFrame
    <3> QED BY <1>i, <1>1, <2>1, <3>1 DEF Formed
  <2>2. ASSUME NEW c \in calls, c.cmd = "activate", c.answer = NoAnswer, c.waits,
               calls' = (calls \ {c}) \cup {[c EXCEPT !.answer = x]}
        PROVE  LocksFit' /\ CallsFit
    <3> DEFINE d == [c EXCEPT !.answer = x]
    <3>1. CallFormed(c, used) BY <1>i DEF Formed
    <3>2. /\ DOMAIN d = DOMAIN c /\ d.cmd = c.cmd /\ d.id = c.id /\ d.owner = c.owner /\ d.arg = c.arg
          /\ d.waits = c.waits /\ d.answer = x
      BY <3>1, CallFields
    <3>3. calls' = (calls \ {c}) \cup {d} BY <2>2
    <3> HIDE DEF d
    <3>4. CallFormed(d, used)
      BY <1>1, <2>2, <3>1, <3>2 DEF CallFormed, AnswerFormed, Failure
    <3>5. LocksFit' BY <1>i, <2>2, <3>2, <3>3, CallMoved
    <3>6. \A y \in calls : y.cmd = "activate" => y = c BY <1>i, <2>2 DEF LocksFit, Exclusive
    <3>7. x # NoAnswer BY DEF NoAnswer, Failure
    <3> QED BY <1>i, <1>1, <2>2, <3>2, <3>3, <3>4, <3>5, <3>6, <3>7 DEF Formed
  <2>3. \/ calls' = calls /\ \A c \in calls : c.cmd = "activate" => c.answer # NoAnswer
        \/ \E c \in calls : /\ c.cmd = "activate" /\ c.answer = NoAnswer /\ c.waits
                            /\ calls' = (calls \ {c}) \cup {[c EXCEPT !.answer = x]}
    BY RespondCases
  <2> QED BY <2>1, <2>2, <2>3
<1>3. Formed' /\ WorkFits'
  <2>1. PageFormed' /\ DialogFormed' BY <1>i DEF Formed, PageFormed, DialogFormed
  <2> QED BY <1>i, <1>2, <2>1 DEF Formed, WorkFits
<1>4. NotOver(app)' /\ NotOver(seen)' /\ WorkIsAwaited'
  BY <1>1, <1>2 DEF NotOver, WorkIsAwaited
<1>5. \A b : b.op = work.op /\ b # Nil => Ends(b)'
  <2>1. app'.switch # Nil /\ app'.switch.op = work.op /\ app'.switch.status = status
    <3>1. Switch(work.op, status) \in Switches BY <1>1 DEF Switch, Switches
    <3> QED BY <3>1 DEF Switch
  <2>2. work.op # Nil BY <1>1
  <2> QED BY <2>1, <2>2 DEF Ends, activationCompletion, Observation
<1>6. ASSUME NEW c \in calls', c.cmd = "activate", c.answer.status \in {"pending", "ok"}
      PROVE  Ends(AnsweredAwaiting(c))'
  <2> DEFINE b == AnsweredAwaiting(c)
  <2>1. CallFormed(c, used) /\ c.owner = work.op BY <1>2, <1>6
  <2>2. b \in Awaitings /\ b.op = work.op
    BY <1>6, <2>1 DEF CallFormed, AnswerFormed, NoAnswer, AnsweredAwaiting, Awaiting, Awaitings
  <2> HIDE DEF b
  <2>3. b # Nil BY <2>2
  <2>4. Ends(b)' BY <1>5, <2>2, <2>3 DEF b, AnsweredAwaiting
  <2> QED BY <2>4 DEF b, AnsweredAwaiting
<1>7. (\E c \in calls' : c.cmd = "activate") => page.awaiting # Nil /\ page.awaiting.op = Nil
  BY <1>i, <1>2 DEF ActivationFits
<1>8. page.awaiting # Nil =>
        IF page.awaiting.op = Nil THEN \E c \in calls' : c.cmd = "activate" ELSE Ends(page.awaiting)'
  BY <1>i, <1>1, <1>2, <1>5 DEF ActivationFits
<1>9. ActivationFits'
  BY <1>2, <1>4, <1>6, <1>7, <1>8 DEF ActivationFits
<1> QED BY <1>2, <1>3, <1>9 DEF LocksIInv
\* The worker goes on, and the record tells how far it is.
LEMMA WorkGoesOn ==
  ASSUME LocksIInv, work # Nil, work' \in Works, work'.op = work.op, WorkFits',
         AppFormed(app', used), StateValid(app'),
         NEW status \in {"queued", "applying"}, app'.switch = Switch(work.op, status),
         lists' \in Seq(ListCalls), UNCHANGED <<calls, seen, page, dialog, epoch, used, disturbed>>
  PROVE  LocksIInv'
<1>i. Formed /\ LocksFit /\ ActivationFits BY DEF LocksIInv
<1>1. /\ work.op \in Nat
      /\ \A c \in calls : c.cmd = "activate" => c.waits /\ c.owner = work.op /\ c.answer.status # "ok"
      /\ page.awaiting # Nil /\ page.awaiting.op # Nil => page.awaiting.op = work.op
  BY WorkHeld
<1>2. work' # Nil OBVIOUS
<1>3. Formed'
  <2>1. PageFormed' /\ DialogFormed' BY <1>i DEF Formed, PageFormed, DialogFormed
  <2> QED BY <1>i, <2>1 DEF Formed
<1>4. LocksFit' BY <1>i, LocksFrame
<1>5. NotOver(app)' /\ NotOver(seen)'
  <2>1. NotOver(app)' BY <1>1, <1>2 DEF NotOver, Switch
  <2> QED BY <1>i, <1>2, <2>1 DEF ActivationFits, NotOver
<1>6. WorkIsAwaited' BY <1>i, <1>2 DEF ActivationFits, WorkIsAwaited
<1>7. \A b : b.op = work.op => Ends(b)' BY <1>2 DEF Ends
<1>8. ASSUME NEW c \in calls, c.cmd = "activate", c.answer.status \in {"pending", "ok"}
      PROVE  Ends(AnsweredAwaiting(c))'
  BY <1>1, <1>7, <1>8 DEF AnsweredAwaiting, Awaiting
<1>9. ActivationFits'
  BY <1>i, <1>1, <1>2, <1>5, <1>6, <1>7, <1>8 DEF ActivationFits
<1> QED BY <1>3, <1>4, <1>9 DEF LocksIInv

\* The record tells of the operation the worker has.
LEMMA SwitchToStep ==
  ASSUME used \in Nat, work.op \in Nat, work.op <= used, NEW a, AppFormed(a, used),
         NEW status \in {"queued", "applying", "cancelled", "failed", "ready"}
  PROVE  /\ SameState(a, SwitchTo(a, status)) /\ AppFormed(SwitchTo(a, status), used)
         /\ SwitchTo(a, status).switch = Switch(work.op, status)
<1> DEFINE s == Switch(work.op, status)
<1>1. s \in Switches /\ s.op <= used BY DEF Switch, Switches
<1>2. SwitchTo(a, status) = [a EXCEPT !.switch = s] BY DEF SwitchTo
<1> HIDE DEF s
<1>3. LET b == [a EXCEPT !.switch = s] IN SameState(a, b) /\ AppFormed(b, used) /\ b.switch = s
  BY <1>1 DEF AppFormed, RecordFormed, SameState
<1> QED BY <1>2, <1>3 DEF s

\* The worker has seen the activation.
LEMMA WorkQueuedInv == ASSUME LocksIInv, WorkQueued PROVE LocksIInv'
<1>i. StateValid(app) /\ Formed /\ WorkFits BY DEF LocksIInv
<1>1. /\ work # Nil /\ app' = SwitchTo(app, "queued") /\ work' = [work EXCEPT !.stage = "queued"]
      /\ work.stage = "sent" /\ UNCHANGED <<calls, lists, seen, page, dialog, epoch, used, disturbed>>
  BY DEF WorkQueued
<1>2. work \in Works /\ work.op \in Nat /\ work.op <= used BY <1>1, WorkHeld
<1>3. SameState(app, app') /\ AppFormed(app', used) /\ app'.switch = Switch(work.op, "queued")
  BY <1>i, <1>1, <1>2, SwitchToStep DEF Formed
<1>4. /\ work' \in Works /\ work'.op = work.op /\ work'.id = work.id /\ work'.stage = "queued"
  BY <1>1, <1>2 DEF Works
<1>5. WorkFits' BY <1>i, <1>1, <1>2, <1>3, <1>4 DEF WorkFits, SameState
<1>6. StateValid(app') BY <1>i, <1>3, SameIsValid
<1>7. lists' \in Seq(ListCalls) BY <1>i, <1>1 DEF Formed
<1> QED BY <1>1, <1>3, <1>4, <1>5, <1>6, <1>7, WorkGoesOn

\* It has saved the selection.
LEMMA WorkPersistedInv == ASSUME LocksIInv, WorkPersisted PROVE LocksIInv'
<1>i. StateValid(app) /\ Formed /\ WorkFits BY DEF LocksIInv
<1> DEFINE next == IF app.active = work.id THEN app ELSE next_generation([app EXCEPT !.active = work.id])
<1>1. /\ work # Nil /\ app' = SwitchTo(next, "applying") /\ work' = [work EXCEPT !.stage = "applying"]
      /\ Notify(app.active # work.id) /\ UNCHANGED <<calls, seen, page, dialog, epoch, used, disturbed>>
      /\ work.stage = "queued"
  BY DEF WorkPersisted
<1>2. work \in Works /\ work.op \in Nat /\ work.op <= used BY <1>1, WorkHeld
<1>3. /\ AppFormed(next, used) /\ next.active = work.id /\ next.subs = app.subs
      /\ next.gen = IF app.active = work.id THEN app.gen ELSE app.gen + 1
  <2>1. CASE app.active = work.id BY <1>i, <2>1 DEF Formed
  <2>2. CASE app.active # work.id
    <3> DEFINE a == [app EXCEPT !.active = work.id]
    <3>1. AppFormed(a, used) /\ a.gen = app.gen /\ a.subs = app.subs /\ a.active = work.id
      BY <1>i, SelectStep DEF Formed
    <3> HIDE DEF a
    <3>2. next = next_generation(a) BY <2>2 DEF a
    <3> QED BY <2>2, <3>1, <3>2, GenerationStep
  <2> QED BY <2>1, <2>2
<1>4. StateValid(next)
  <2>1. work.id \in DOMAIN app.subs /\ (app.active # work.id => app.gen < MaxGen) /\ app.gen \in Nat
    BY <1>i, <1>1 DEF WorkFits, Formed, AppFormed
  <2> QED BY <1>i, <1>3, <2>1 DEF StateValid
<1> HIDE DEF next
<1>5. SameState(next, app') /\ AppFormed(app', used) /\ app'.switch = Switch(work.op, "applying")
  BY <1>i, <1>1, <1>2, <1>3, SwitchToStep DEF Formed
<1>6. /\ work' \in Works /\ work'.op = work.op /\ work'.id = work.id /\ work'.stage = "applying"
  BY <1>1, <1>2 DEF Works
<1>7. WorkFits' BY <1>i, <1>1, <1>2, <1>3, <1>5, <1>6 DEF WorkFits, SameState
<1>8. StateValid(app') BY <1>4, <1>5, SameIsValid
<1>9. lists' \in Seq(ListCalls) BY <1>i, <1>1, NotifyFits DEF Formed
<1> QED BY <1>1, <1>5, <1>6, <1>7, <1>8, <1>9, WorkGoesOn

\* It gives up.
LEMMA WorkGivenUpInv == ASSUME LocksIInv, WorkGivenUp PROVE LocksIInv'
<1>i. StateValid(app) /\ Formed /\ WorkFits BY DEF LocksIInv
<1>1. /\ work # Nil /\ work' = Nil /\ UNCHANGED <<lists, seen, page, dialog, epoch, used, disturbed>>
      /\ \/ /\ app' \in {SwitchTo(app, "failed"), SwitchTo(Lost(app), "failed")} /\ \E e : Fail(e)
         \/ /\ app' = SwitchTo(app, "cancelled") /\ Respond(StillPending(work.op))
  BY DEF WorkGivenUp
<1>2. work.op \in Nat /\ work.op <= used BY <1>1, WorkHeld
<1>3. /\ \E a \in {app, Lost(app)}, status \in {"failed", "cancelled"} : app' = SwitchTo(a, status)
      /\ \/ \E e : Respond(activation_error(work.op, e))
         \/ Respond(StillPending(work.op))
  <2>1. CASE app' \in {SwitchTo(app, "failed"), SwitchTo(Lost(app), "failed")} /\ \E e : Fail(e)
    <3>1. PICK e : Fail(e) BY <2>1
    <3>2. Respond(activation_error(work.op, e)) BY <3>1 DEF Fail
    <3> QED BY <2>1, <3>2
  <2>2. CASE app' = SwitchTo(app, "cancelled") /\ Respond(StillPending(work.op)) BY <2>2
  <2> QED BY <1>1, <2>1, <2>2
<1> DEFINE lost == Lost(app)
<1>10. PICK a \in {app, lost}, status \in {"failed", "cancelled"} : app' = SwitchTo(a, status) BY <1>3, Zenon
<1>4. AppFormed(a, used) /\ SameState(app, a)
  <2>1. AppFormed(lost, used) /\ SameState(app, lost) BY <1>i, StopSteps DEF Formed
  <2> HIDE DEF lost
  <2> QED BY <1>i, <2>1 DEF Formed, SameState
<1>5. SameState(a, app') /\ AppFormed(app', used) /\ app'.switch = Switch(work.op, status)
  BY <1>i, <1>2, <1>10, <1>4, SwitchToStep DEF Formed
<1>6. StateValid(app') BY <1>i, <1>4, <1>5, SameIsValid
<1>7. PICK y : Respond(y) /\ (Received("activate", y) = Failure \/ Received("activate", y).status = "pending")
  <2> DEFINE Fits(y) == Received("activate", y) = Failure \/ Received("activate", y).status = "pending"
             pending == StillPending(work.op)
  <2>1. ASSUME NEW e PROVE Fits(activation_error(work.op, e)) BY DEF Received, activation_error
  <2>2. Fits(pending)
    <3>1. pending.status = "pending" BY DEF StillPending
    <3> HIDE DEF pending
    <3> QED BY <3>1 DEF Received, Reads, parseActivateResult
  <2>3. (\E e : Respond(activation_error(work.op, e))) \/ Respond(pending) BY <1>3
  <2> HIDE DEF Fits, pending
  <2>4. \E y : Respond(y) /\ Fits(y) BY <2>1, <2>2, <2>3
  <2> QED BY <2>4 DEF Fits
<1> DEFINE x == Received("activate", y)
<1>8. x = Failure \/ x.status = "pending" BY <1>7
<1>9. Respond(y) /\ x = Received("activate", y) BY <1>7
<1> HIDE DEF x
<1> QED BY <1>1, <1>5, <1>6, <1>8, <1>9, ActivationOver

\* It has started the core, or has not.
LEMMA WorkAppliedInv == ASSUME LocksIInv, WorkApplied PROVE LocksIInv'
<1>i. StateValid(app) /\ Formed /\ WorkFits BY DEF LocksIInv
<1>1. /\ work # Nil /\ work' = Nil /\ work.stage = "applying"
      /\ UNCHANGED <<lists, seen, page, dialog, epoch, used, disturbed>>
      /\ \/ app' = Ready(app, app.active, app.gen, work.op) /\ Respond(Activated(work.op, work.id, app, FALSE))
         \/ /\ \E l \in {"stopped", "recovery"} : app' = SwitchTo([Lost(app) EXCEPT !.life = l], "failed")
            /\ \E e : Fail(e)
  BY DEF WorkApplied
<1>2. work \in Works /\ work.op \in Nat /\ work.op <= used BY <1>1, WorkHeld
<1>3. app.active \in Ids /\ app.gen \in Nat /\ app.active = work.id
  BY <1>i, <1>1, <1>2 DEF WorkFits, Works, Formed, AppFormed
<1>4. CASE app' = Ready(app, app.active, app.gen, work.op) /\ Respond(Activated(work.op, work.id, app, FALSE))
  <2> DEFINE op == work.op
             s == Switch(op, "ready")
             run == [id |-> app.active, gen |-> app.gen]
             y == Activated(op, work.id, app, FALSE)
             x == Received("activate", y)
  <2>1. op \in (0..used) \cup {Nil} /\ op # Nil /\ used \in Nat BY <1>i, <1>2 DEF Formed
  <2>2. SameState(app, app') /\ AppFormed(app', used) /\ app'.switch = Switch(op, "ready")
    <3>1. AppFormed(app, used) BY <1>i DEF Formed
    <3>2. s \in Switches /\ s.op <= used /\ run \in Runs BY <1>2, <1>3 DEF Switch, Switches, Runs
    <3>3. app' = [app EXCEPT !.life = "ready", !.applied = run, !.switch = s] BY <1>4, <2>1 DEF Ready
    <3> HIDE DEF s, run
    <3>4. SameState(app, app') /\ AppFormed(app', used) /\ app'.switch = s
      BY <3>1, <3>2, <3>3 DEF AppFormed, RecordFormed, SameState
    <3> QED BY <3>4 DEF s
  <2>3. StateValid(app') BY <1>i, <2>2, SameIsValid
  <2>4. /\ y.status = "ok" /\ y.value.subscription.id = work.id /\ y.value.op = op
        /\ y.value.current = FALSE /\ y.value.gen = app.gen /\ x \in {y, Failure}
    BY ActivatedFacts
  <2>5. Respond(y) BY <1>4
  <2> HIDE DEF y, x
  <2>6. x = Received("activate", y) BY DEF x
  <2> QED BY <1>1, <1>3, <2>2, <2>3, <2>4, <2>5, <2>6, ActivationOver
<1>5. ASSUME NEW l \in {"stopped", "recovery"}, app' = SwitchTo([Lost(app) EXCEPT !.life = l], "failed"),
             NEW e, Fail(e)
      PROVE  LocksIInv'
  <2> DEFINE a == [Lost(app) EXCEPT !.life = l]
             y == activation_error(work.op, e)
  <2>1. AppFormed(a, used) /\ SameState(app, a) BY <1>i, StopSteps DEF Formed
  <2>2. app' = SwitchTo(a, "failed") BY <1>5
  <2> HIDE DEF a
  <2>3. SameState(a, app') /\ AppFormed(app', used) /\ app'.switch = Switch(work.op, "failed")
    <3>1. used \in Nat BY <1>i DEF Formed
    <3> QED BY <1>2, <2>1, <2>2, <3>1, SwitchToStep
  <2>4. StateValid(app') BY <1>i, <2>1, <2>3, SameIsValid
  <2>5. Respond(y) /\ Received("activate", y) = Failure BY <1>5 DEF Fail, Received, activation_error
  <2> HIDE DEF y
  <2> QED BY <1>1, <2>3, <2>4, <2>5, ActivationOver
<1> QED BY <1>1, <1>4, <1>5
\* Around the page nothing moves that it locks, unless the record does.
LEMMA AroundFits ==
  ASSUME LocksIInv, used' = used + 1, UNCHANGED <<calls, seen, page, dialog, epoch>>,
         lists' \in Seq(ListCalls), AppFormed(app', used')
  PROVE  Formed' /\ LocksFit' /\ used' \in Nat /\ used <= used'
<1>i. Formed /\ LocksFit BY DEF LocksIInv
<1>1. used' \in Nat /\ used <= used' BY <1>i DEF Formed
<1>2. RecordFormed(seen, used)' /\ \A c \in calls' : CallFormed(c, used') BY <1>i, <1>1, UsedMore DEF Formed
<1>3. PageFormed' /\ DialogFormed' BY <1>i DEF Formed, PageFormed, DialogFormed
<1> QED BY <1>i, <1>1, <1>2, <1>3, LocksFrame DEF Formed

\* The core moves: what the record no longer tells is marked as disturbed.
LEMMA CoreMovesInv == ASSUME LocksIInv, CoreMoves PROVE LocksIInv'
<1>i. StateValid(app) /\ Formed /\ WorkFits /\ LocksFit /\ ActivationFits BY DEF LocksIInv
<1>1. /\ \/ app' = Lost(app)
         \/ work = Nil /\ app' = Stopped(app)
         \/ work = Nil /\ app.active # Nil /\ app' = Ready(app, app.active, app.gen, Nil)
         \/ work = Nil /\ app.active # Nil /\ app' = Ready(app, app.active, app.gen, used + 1)
         \/ work = Nil /\ app' = [app EXCEPT !.switch = Switch(used + 1, "failed")]
      /\ disturbed' = (disturbed \/ (page.awaiting # Nil /\ work = Nil))
      /\ Notify(FALSE) /\ used' = used + 1
      /\ UNCHANGED <<work, calls, seen, page, dialog, epoch, stale>>
  BY DEF CoreMoves, Around
<1>2. used \in Nat /\ used + 1 \in Nat /\ AppFormed(app, used) /\ AppFormed(app, used + 1) /\ used' = used + 1
  BY <1>i, <1>1, UsedMore DEF Formed
<1>3. app.active # Nil => app.active \in Ids BY <1>i, <1>2 DEF StateValid, AppFormed
<1>4. app.gen \in Nat BY <1>2 DEF AppFormed
<1> DEFINE n == used + 1
<1>5. /\ SameState(app, app') /\ AppFormed(app', n)
      /\ \/ app'.switch \in {app.switch, Nil}
         \/ work = Nil /\ app'.switch # Nil /\ app'.switch.op = n
  <2> HIDE DEF n
  <2>0. n \in Nat /\ AppFormed(app, n) BY <1>2 DEF n
  <2>1. CASE app' = Lost(app) BY <2>0, <2>1, StopSteps
  <2>2. CASE work = Nil /\ app' = Stopped(app) BY <2>0, <2>2, StopSteps
  <2>3. ASSUME NEW x \in (0..n) \cup {Nil}, app.active \in Ids, app' = Ready(app, app.active, app.gen, x)
        PROVE  /\ SameState(app, app') /\ AppFormed(app', n)
               /\ app'.switch = IF x = Nil THEN Nil ELSE Switch(x, "ready")
    <3> DEFINE s == IF x = Nil THEN Nil ELSE Switch(x, "ready")
               run == [id |-> app.active, gen |-> app.gen]
    <3>1. s \in Switches \cup {Nil} /\ (s # Nil => s.op <= n) /\ run \in Runs
      BY <1>4, <2>0, <2>3 DEF Switch, Switches, Runs
    <3>2. app' = [app EXCEPT !.life = "ready", !.applied = run, !.switch = s] BY <2>3 DEF Ready
    <3> HIDE DEF s, run
    <3>3. SameState(app, app') /\ AppFormed(app', n) /\ app'.switch = s
      BY <2>0, <3>1, <3>2 DEF AppFormed, RecordFormed, SameState
    <3> QED BY <3>3 DEF s
  <2>4. CASE work = Nil /\ app.active # Nil /\ app' = Ready(app, app.active, app.gen, Nil)
    BY <1>3, <2>3, <2>4
  <2>5. ASSUME NEW status \in {"ready", "failed"} PROVE Switch(n, status) # Nil /\ Switch(n, status).op = n
    <3>1. Switch(n, status) \in Switches BY <2>0 DEF Switch, Switches
    <3> QED BY <3>1 DEF Switch
  <2>6. CASE work = Nil /\ app.active # Nil /\ app' = Ready(app, app.active, app.gen, n)
    <3>1. n \in (0..n) \cup {Nil} /\ n # Nil BY <2>0
    <3> QED BY <1>3, <2>3, <2>5, <2>6, <3>1
  <2>7. CASE work = Nil /\ app' = [app EXCEPT !.switch = Switch(n, "failed")]
    <3> DEFINE s == Switch(n, "failed")
    <3>1. s \in Switches /\ s.op = n /\ s # Nil /\ n <= n BY <2>0, <2>5 DEF Switch, Switches
    <3>2. app' = [app EXCEPT !.switch = s] BY <2>7
    <3> HIDE DEF s
    <3>3. SameState(app, app') /\ AppFormed(app', n) /\ app'.switch = s
      BY <2>0, <3>1, <3>2 DEF AppFormed, RecordFormed, SameState
    <3> QED BY <2>7, <3>1, <3>3
  <2> QED BY <1>1, <2>1, <2>2, <2>4, <2>6, <2>7 DEF n
<1>6. lists' \in Seq(ListCalls) BY <1>i, <1>1, NotifyFits DEF Formed
<1>7. Formed' /\ LocksFit' /\ used' \in Nat /\ used <= used' BY <1>1, <1>2, <1>5, <1>6, AroundFits
<1> HIDE DEF n
<1>8. StateValid(app') BY <1>i, <1>5, SameIsValid
<1>9. WorkFits'
  <2>1. work # Nil => work.op \in Nat BY <1>i DEF WorkFits, Works
  <2> QED BY <1>i, <1>1, <1>2, <1>5, <1>7, <2>1 DEF WorkFits, SameState
<1>10. NotOver(app)'
  <2>1. \A c \in calls : c.cmd = "activate" => c.owner # n
    BY <1>i, <1>2 DEF Formed, CallFormed, n
  <2> QED BY <1>i, <1>1, <1>5, <2>1 DEF NotOver, ActivationFits
<1>11. NotOver(seen)' /\ WorkIsAwaited' BY <1>i, <1>1 DEF NotOver, WorkIsAwaited, ActivationFits
<1>12. \A a : Ends(a) /\ page.awaiting # Nil /\ (work # Nil => a.op = work.op) => Ends(a)'
  BY <1>1 DEF Ends
<1>13. work # Nil =>
         /\ \A c \in calls : c.cmd = "activate" => c.owner = work.op /\ c.answer.status # "ok"
         /\ page.awaiting # Nil /\ page.awaiting.op # Nil => page.awaiting.op = work.op
  BY WorkHeld
<1>14. ASSUME NEW c \in calls, c.cmd = "activate", c.answer.status \in {"pending", "ok"}
       PROVE  Ends(AnsweredAwaiting(c))'
  <2> DEFINE b == AnsweredAwaiting(c)
  <2>1. Ends(b) /\ page.awaiting # Nil BY <1>i, <1>14 DEF ActivationFits
  <2>2. work # Nil => b.op = work.op BY <1>13, <1>14 DEF AnsweredAwaiting, Awaiting
  <2>3. Ends(b)' = Ends(b)' OBVIOUS
  <2> HIDE DEF b
  <2> QED BY <1>12, <2>1, <2>2 DEF b, AnsweredAwaiting
<1>15. ActivationFits'
  BY <1>i, <1>1, <1>10, <1>11, <1>12, <1>13, <1>14 DEF ActivationFits
<1> QED BY <1>7, <1>8, <1>9, <1>15 DEF LocksIInv
\* The scheduler updates a subscription: the record stays.
LEMMA ScheduledUpdateInv == ASSUME LocksIInv, ScheduledUpdate PROVE LocksIInv'
<1>i. StateValid(app) /\ Formed /\ WorkFits /\ LocksFit /\ ActivationFits BY DEF LocksIInv
<1>1. /\ work = Nil /\ Notify(TRUE) /\ used' = used + 1
      /\ UNCHANGED <<work, calls, seen, page, dialog, epoch, stale, disturbed>>
  BY DEF ScheduledUpdate, Around
<1>2. PICK i \in DOMAIN app.subs : \E o \in update_with_route(app, i, Nil) : o.event /\ app' = o.app
  BY DEF ScheduledUpdate
<1>3. PICK o \in update_with_route(app, i, Nil) : o.event /\ app' = o.app BY <1>2
<1>4. used \in Nat /\ AppFormed(app, used) BY <1>i DEF Formed
<1>5. ~\E E : o \in Refusals(app, E) BY <1>3 DEF Refusals
<1>6. WriteMade(app, o, i) BY <1>4, <1>5, UpdateFits
<1>7. OutcomeFits(app, o) /\ SameRecord(app, o.app) BY <1>i, <1>4, <1>6, WrittenFits
<1>8. AppFormed(app', used') /\ StateValid(app') BY <1>1, <1>3, <1>4, <1>7, UsedMore DEF OutcomeFits
<1>9. lists' \in Seq(ListCalls) BY <1>i, <1>1, NotifyFits DEF Formed
<1>10. Formed' /\ LocksFit' BY <1>1, <1>8, <1>9, AroundFits
<1>11. WorkFits' BY <1>1 DEF WorkFits
<1>12. ActivationFits' BY <1>i, <1>1, <1>3, <1>7, ActivationFrame DEF SameRecord
<1> QED BY <1>8, <1>10, <1>11, <1>12 DEF LocksIInv

\* A command is carried out.
LEMMA PerformInv == ASSUME LocksIInv, Perform PROVE LocksIInv'
<1>i. StateValid(app) /\ Formed /\ WorkFits /\ LocksFit /\ ActivationFits BY DEF LocksIInv
<1>1. PICK c \in calls : \E o \in Outcomes(c) :
        /\ c.answer = NoAnswer /\ c.cmd # "activate"
        /\ work # Nil /\ c.cmd \notin Unguarded => o.answer.status = "error"
        /\ app' = o.app
        /\ calls' = (calls \ {c}) \cup {[c EXCEPT !.answer = Received(c.cmd, o.answer)]}
        /\ Notify(o.event)
        /\ UNCHANGED <<work, seen, page, dialog, epoch, used, stale, disturbed>>
  BY DEF Perform
<1>2. PICK o \in Outcomes(c) :
        /\ c.answer = NoAnswer /\ c.cmd # "activate"
        /\ work # Nil /\ c.cmd \notin Unguarded => o.answer.status = "error"
        /\ app' = o.app
        /\ calls' = (calls \ {c}) \cup {[c EXCEPT !.answer = Received(c.cmd, o.answer)]}
        /\ Notify(o.event)
        /\ UNCHANGED <<work, seen, page, dialog, epoch, used, stale, disturbed>>
  BY <1>1
<1>u. UNCHANGED <<work, seen, page, dialog, epoch, used, stale, disturbed>> BY <1>2
<1>3. used \in Nat /\ AppFormed(app, used) /\ CallFormed(c, used) /\ c.cmd \in Commands
  BY <1>i DEF Formed, CallFormed
<1>4. PerformFits(c, o) BY <1>i, <1>2, <1>3, OutcomesFit
<1> DEFINE x == Received(c.cmd, o.answer)
           d == [c EXCEPT !.answer = x]
<1>5. x = Failure \/ (x = o.answer /\ x.status = "ok")
  BY <1>4 DEF PerformFits, OutcomeFits, Received
<1>6. calls' = (calls \ {c}) \cup {d} BY <1>2
<1> HIDE DEF x
<1>7. /\ DOMAIN d = DOMAIN c /\ d.cmd = c.cmd /\ d.id = c.id /\ d.owner = c.owner /\ d.arg = c.arg
      /\ d.waits = c.waits /\ d.answer = x
  BY <1>3, CallFields
<1> HIDE DEF d
<1>8. CallFormed(d, used)
  BY <1>2, <1>3, <1>4, <1>5, <1>7 DEF CallFormed, AnswerFormed, PerformFits, Failure
<1>9. LocksFit' BY <1>i, <1>6, <1>7, <1>u, CallMoved
<1>10. lists' \in Seq(ListCalls) BY <1>i, <1>2, NotifyFits DEF Formed
<1>11. \A y \in calls' : CallFormed(y, used') BY <1>i, <1>6, <1>8, <1>u DEF Formed
<1>12. AppFormed(app', used') /\ StateValid(app') BY <1>2, <1>4, <1>u DEF PerformFits, OutcomeFits
<1>13. Formed'
  <2>1. PageFormed' /\ DialogFormed' BY <1>i, <1>u DEF Formed, PageFormed, DialogFormed
  <2> QED BY <1>i, <1>u, <1>10, <1>11, <1>12, <2>1 DEF Formed
<1>14. WorkFits'
  <2>1. work # Nil => SameState(app, app')
    BY <1>2, <1>4 DEF PerformFits, OutcomeFits, SameState
  <2> QED BY <1>i, <1>u, <2>1 DEF WorkFits, SameState
<1>15. \A y : y.cmd = "activate" => (y \in calls' <=> y \in calls) BY <1>2, <1>6, <1>7
<1>16. CASE page.awaiting # Nil
  <2>1. c.cmd \in {"settings", "share"}
    <3>1. page.pending = "activate" /\ page.doc = Nil BY <1>i, <1>16 DEF LocksFit, Pendings
    <3>2. c.cmd \notin Writes \cup {"document", "running", "save"}
      BY <1>i, <3>1 DEF LocksFit, WritePendings
    <3> QED BY <1>2, <1>3, <3>2 DEF Commands, Exclusive
  <2>2. app' = app BY <1>2, <1>4, <2>1 DEF PerformFits, Unguarded
  <2>3. ActivationFits' BY <1>i, <1>15, <1>u, <2>2, ActivationFrame
  <2> QED BY <1>9, <1>12, <1>13, <1>14, <2>3 DEF LocksIInv
<1>17. CASE page.awaiting = Nil
  <2>1. work = Nil /\ \A y \in calls : y.cmd # "activate" BY <1>i, <1>17 DEF ActivationFits, WorkIsAwaited
  <2>2. \A y \in calls' : y.cmd # "activate" BY <1>15, <2>1
  <2>3. ActivationFits' BY <1>u, <1>17, <2>1, <2>2 DEF ActivationFits, WorkIsAwaited, NotOver
  <2> QED BY <1>9, <1>12, <1>13, <1>14, <2>3 DEF LocksIInv
<1> QED BY <1>16, <1>17

-----------------------------------------------------------------------------
\* Nothing is held at first.
LEMMA FirstLocks == PageInit => LocksIInv
<1> SUFFICES ASSUME PageInit PROVE LocksIInv OBVIOUS
<1>1. /\ app.subs = FirstSubs /\ app.active \in {FirstSub, SecondSub} /\ app.gen = 2
      /\ app.applied \in {Nil} \cup [id : {FirstSub, SecondSub}, gen : {1}] /\ app.switch = Nil
      /\ app.life = "ready" => app.applied # Nil
      /\ DOMAIN app = {"subs", "active", "gen", "life", "applied", "switch"}
      /\ work = Nil /\ calls = {} /\ lists = <<>> /\ seen = Observation(app)
      /\ page = [load |-> "idle", listed |-> <<>>, pending |-> Nil, rest |-> {}, removed |-> {},
                 awaiting |-> Nil, doc |-> Nil, docEpoch |-> 0]
      /\ dialog = Nil /\ epoch = 0 /\ used = 0
  BY DEF PageInit
<1>2. DOMAIN FirstSubs = {FirstSub, SecondSub} BY DEF FirstSubs
<1>3. StateValid(app)
  <2>1. SubscriptionValid(FirstSubs[FirstSub])
    <3>1. /\ FirstSubs[FirstSub].desc = "old" /\ FirstSubs[FirstSub].policy.interval = 1
          /\ FirstSubs[FirstSub].request.timeout = 30 /\ FirstSubs[FirstSub].request.ua = "agent"
      BY DEF FirstSubs, DefaultRequest
    <3>2. FirstSubs[FirstSub].url # Nil /\ FirstSubs[FirstSub].request # Nil BY RemoteAssumption
    <3> QED BY <3>1, <3>2 DEF SubscriptionValid, PolicyValid, RequestValid, validate_user_agent
  <2>2. SubscriptionValid(FirstSubs[SecondSub])
    <3>1. /\ FirstSubs[SecondSub].desc = "" /\ FirstSubs[SecondSub].policy = ManualPolicy
          /\ FirstSubs[SecondSub].url = Nil /\ FirstSubs[SecondSub].request = Nil
      BY DEF FirstSubs
    <3>2. ManualPolicy.interval = Nil BY DEF ManualPolicy
    <3> QED BY <3>1, <3>2 DEF SubscriptionValid, PolicyValid
  <2> QED BY <1>1, <1>2, <2>1, <2>2 DEF StateValid
<1>4. AppFormed(app, used) BY <1>1, <1>2 DEF AppFormed, RecordFormed, Runs
<1>5. RecordFormed(seen, used) BY <1>1, <1>4 DEF AppFormed, RecordFormed, Observation
<1>6. PageFormed /\ DialogFormed BY <1>1 DEF PageFormed, DialogFormed
<1>7. Formed BY <1>1, <1>4, <1>5, <1>6 DEF Formed
<1>8. WorkFits BY <1>1 DEF WorkFits
<1>9. LocksFit BY <1>1 DEF LocksFit, WritePendings, Pendings
<1>10. ActivationFits BY <1>1 DEF ActivationFits, WorkIsAwaited, NotOver
<1> QED BY <1>3, <1>7, <1>8, <1>9, <1>10 DEF LocksIInv

\* A stutter.
LEMMA LocksStutter == ASSUME LocksIInv, UNCHANGED pageVars PROVE LocksIInv'
<1>i. StateValid(app) /\ Formed /\ WorkFits /\ LocksFit /\ ActivationFits BY DEF LocksIInv
<1>1. UNCHANGED <<app, work, calls, lists, seen, page, dialog, epoch, used, disturbed>> BY DEF pageVars
<1>2. PageFormed' /\ DialogFormed' /\ LocksFit' BY <1>i, <1>1, LocksFrame DEF Formed, PageFormed, DialogFormed
<1> QED BY <1>i, <1>1, <1>2, StepFits DEF Formed
\* Every step keeps the locks.
LEMMA LocksStep == LocksIInv /\ [PageNext]_pageVars => LocksIInv'
<1> SUFFICES ASSUME LocksIInv, [PageNext]_pageVars PROVE LocksIInv' OBVIOUS
<1>1. CASE PerformList \/ Load \/ AnswerList BY <1>1, ListInv
<1>2. CASE Perform BY <1>2, PerformInv
<1>3. CASE RefuseActivation BY <1>3, RefuseInv
<1>4. CASE AlreadyCurrent BY <1>4, AlreadyCurrentInv
<1>5. CASE SendActivation BY <1>5, SendActivationInv
<1>6. CASE ResponseTimeout BY <1>6, ResponseTimeoutInv
<1>7. CASE WorkQueued BY <1>7, WorkQueuedInv
<1>8. CASE WorkGivenUp BY <1>8, WorkGivenUpInv
<1>9. CASE WorkPersisted BY <1>9, WorkPersistedInv
<1>10. CASE WorkApplied BY <1>10, WorkAppliedInv
<1>11. CASE CoreMoves BY <1>11, CoreMovesInv
<1>12. CASE ScheduledUpdate BY <1>12, ScheduledUpdateInv
<1>13. CASE Observe BY <1>13, ObserveInv
<1>14. CASE openCreateDialog \/ openReplaceDialog \/ openDeleteDialog \/ openSettingsDialog BY <1>14, OpenInv
<1>15. CASE openQrDialog BY <1>15, OpenQrInv
<1>16. CASE AnswerSettings BY <1>16, AnswerSettingsInv
<1>17. CASE AnswerShare BY <1>17, AnswerShareInv
<1>18. CASE AnswerQr BY <1>18, AnswerQrInv
<1>19. CASE CloseDialog BY <1>19, CloseDialogInv
<1>20. CASE TouchKind \/ TouchNames \/ TouchUrl \/ TouchContent \/ TouchOptions \/ ConfirmTls BY <1>20, TypingInv
<1>21. CASE submitDialog \/ confirmDelete \/ deleteSelected BY <1>21, SendInv
<1>22. CASE submitQuickImport \/ updateOne \/ updateAll BY <1>22, BeginInv
<1>23. CASE AnswerOne BY <1>23, AnswerOneInv
<1>24. CASE AnswerNext BY <1>24, AnswerNextInv
<1>25. CASE activate BY <1>25, ActivateInv
<1>26. CASE AnswerActivate BY <1>26, AnswerActivateInv
<1>27. CASE openDocument \/ openRunningDocument
  <2>1. \/ \E i : OpenDoc("document", "document", i)
        \/ OpenDoc("running", "running", Nil)
    BY <1>27 DEF openDocument, openRunningDocument
  <2> QED BY <2>1, OpenDocInv
<1>28. CASE LeavePage \/ closeDocument BY <1>28, LeaveInv
<1>29. CASE AnswerDocument \/ AnswerRunning BY <1>29, AnswerDocInv
<1>30. CASE saveDocument BY <1>30, SaveInv
<1>31. CASE AnswerSave BY <1>31, AnswerSaveInv
<1>32. CASE UNCHANGED pageVars BY <1>32, LocksStutter
<1> QED
  BY <1>1, <1>2, <1>3, <1>4, <1>5, <1>6, <1>7, <1>8, <1>9, <1>10, <1>11, <1>12, <1>13, <1>14, <1>15, <1>16,
     <1>17, <1>18, <1>19, <1>20, <1>21, <1>22, <1>23, <1>24, <1>25, <1>26, <1>27, <1>28, <1>29, <1>30, <1>31,
     <1>32, Zenon DEF PageNext

\* What the inductive invariant says of the locks.
LEMMA LocksAgree == LocksIInv => LocksAreTrue
<1> SUFFICES ASSUME LocksIInv PROVE LocksAreTrue OBVIOUS
<1>i. StateValid(app) /\ Formed /\ WorkFits /\ LocksFit /\ ActivationFits BY DEF LocksIInv
<1>1. PageTypeOK
  <2>1. work # Nil => work.stage \in {"sent", "queued", "applying"} BY <1>i DEF WorkFits, Works
  <2>2. page.load \in {"idle", "loading", "ready", "error"} BY <1>i DEF Formed, PageFormed
  <2>3. dialog # Nil => page.doc = Nil /\ dialog.epoch = epoch BY <1>i DEF Formed, DialogFormed, LocksFit
  <2> QED BY <1>i, <2>1, <2>2, <2>3 DEF PageTypeOK, Saving, LocksFit
<1>2. PendingIsTrue
  <2> DEFINE Under(cmds) == {c \in calls : c.cmd \in cmds}
             U == Under(Writes \cup {"activate", "save"})
  <2>1. Cardinality(U) <= 1
    <3>1. \A c, d \in U : c = d BY <1>i DEF LocksFit, Exclusive
    <3> HIDE DEF U
    <3>2. CASE U = {} BY <3>2, FS_EmptySet
    <3>3. CASE U # {}
      <4>1. PICK c : c \in U BY <3>3
      <4>2. U = {c} BY <3>1, <4>1
      <4>3. Cardinality({c}) = 1 BY FS_Singleton, Zenon
      <4> QED BY <4>2, <4>3
    <3> QED BY <3>2, <3>3
  <2>2. page.pending \in WritePendings <=> Under(Writes) # {} BY <1>i DEF LocksFit
  <2>3. page.pending = "share" => \E c \in Under({"share"}) : isCurrentDialog(c, "qr") BY <1>i DEF LocksFit
  <2>4. /\ page.pending = "document" => Under({"document"}) # {}
        /\ page.pending = "running" => Under({"running"}) # {}
    BY <1>i DEF LocksFit
  <2>5. page.pending = "activate" => \/ Under({"activate"}) # {}
                                     \/ Ends(page.awaiting)
    BY <1>i DEF LocksFit, ActivationFits
  <2> QED BY <2>1, <2>2, <2>3, <2>4, <2>5, Zenon DEF PendingIsTrue, WritePendings, Ends
<1> QED BY <1>1, <1>2 DEF LocksAreTrue

\* The inductive invariant holds in every reachable state.
THEOREM LocksInvariance == PageSpec => []LocksIInv
BY FirstLocks, LocksStep, PTL DEF PageSpec

\* One operation, one dialog or the editor, and nothing pending that has no end
\* (pendingOperation, dialogEpochRef and the activation that the page waits for in
\* SubscriptionPage.tsx).
THEOREM LocksAreTrueHolds == PageSpec => []LocksAreTrue
BY LocksInvariance, LocksAgree, PTL

\* Most steps leave what the editor shows, or close it, or open a subscription in it.
EditorKept == seen' = seen /\ (page'.doc \in {page.doc, Nil} \/ page'.doc.kind = "subscription")

\* The field of the editor.
LEMMA PageFields ==
  ASSUME Formed
  PROVE  /\ "doc" \in DOMAIN page
         /\ \A x : upsert(page, x).doc = page.doc /\ DOMAIN upsert(page, x) = DOMAIN page
         /\ \A p : DOMAIN p = DOMAIN page => Freed(p).doc = p.doc
BY DEF Formed, PageFormed, upsert, Freed

\* All steps but the three that are about the observation.
LEMMA EditorSteps ==
  ASSUME LocksIInv, [PageNext]_pageVars, ~Observe, ~AnswerActivate, ~AnswerRunning PROVE EditorKept
<1>i. Formed BY DEF LocksIInv
<1>d. DOMAIN page = {"load", "listed", "pending", "rest", "removed", "awaiting", "doc", "docEpoch"}
  BY <1>i DEF Formed, PageFormed
<1>1. CASE UNCHANGED <<seen, page>> BY <1>1 DEF EditorKept
<1>2. CASE Load \/ AnswerList BY <1>2, <1>d DEF Load, AnswerList, EditorKept
<1>3. CASE openQrDialog BY <1>3, <1>d DEF openQrDialog, beginDialog, EditorKept
<1>4. ASSUME resetDialog(page), seen' = seen PROVE EditorKept
  BY <1>4, <1>d DEF resetDialog, Freed, EditorKept
<1>5. CASE AnswerSettings \/ AnswerShare \/ CloseDialog
  <2>1. seen' = seen /\ (UNCHANGED page \/ resetDialog(page))
    BY <1>5, Zenon DEF AnswerSettings, AnswerShare, CloseDialog
  <2> QED BY <1>1, <1>4, <2>1
<1>6. CASE AnswerQr
  <2>1. seen' = seen /\ (UNCHANGED page \/ resetDialog(page) \/ page' = [page EXCEPT !.pending = Nil])
    BY <1>6, Zenon DEF AnswerQr
  <2> QED BY <1>1, <1>4, <1>d, <2>1 DEF EditorKept
<1>7. ASSUME NEW kind, Pending(kind), seen' = seen PROVE EditorKept BY <1>7, <1>d DEF Pending, EditorKept
<1>8. CASE submitDialog \/ confirmDelete \/ submitQuickImport \/ updateOne
  <2>1. seen' = seen /\ \E kind : Pending(kind)
    BY <1>8, Zenon DEF submitDialog, confirmDelete, submitQuickImport, updateOne, Send, Begin
  <2> QED BY <1>7, <2>1
<1>9. CASE updateAll \/ deleteSelected
  <2>1. seen' = seen /\ \E kind, rest : page' = [page EXCEPT !.pending = kind, !.rest = rest]
    BY <1>9, Zenon DEF updateAll, deleteSelected, Send, Begin
  <2> QED BY <1>d, <2>1 DEF EditorKept
<1>10. CASE AnswerOne
  <2>1. PICK shown, load :
          /\ \/ shown = page
             \/ \E s : shown = [page EXCEPT !.listed = s]
             \/ \E x : shown = upsert(page, x)
          /\ seen' = seen
          /\ LET done == [shown EXCEPT !.pending = Nil, !.load = load] IN resetDialog(done) \/ page' = done
    BY <1>10 DEF AnswerOne
  <2>2. DOMAIN shown = DOMAIN page /\ shown.doc = page.doc BY <1>i, <1>d, <2>1, PageFields
  <2> DEFINE done == [shown EXCEPT !.pending = Nil, !.load = load]
  <2>3. DOMAIN done = DOMAIN page /\ done.doc = page.doc BY <1>d, <2>2
  <2>4. page' \in {done, Freed(done)} BY <2>1 DEF resetDialog
  <2> HIDE DEF done
  <2> QED BY <1>i, <2>1, <2>3, <2>4, PageFields DEF EditorKept
<1>11. CASE AnswerNext
  <2>1. PICK c, shown, removed :
          /\ shown = page \/ shown = upsert(page, c.answer.value)
          /\ seen' = seen
          /\ \/ \E i \in page.rest : page' = [shown EXCEPT !.rest = @ \ {i}, !.removed = removed]
             \/ LET done == [shown EXCEPT !.pending = Nil, !.removed = {},
                                          !.listed = Restrict(@, DOMAIN @ \ removed)]
                IN resetDialog(done) \/ page' = done
    BY <1>11 DEF AnswerNext
  <2>2. DOMAIN shown = DOMAIN page /\ shown.doc = page.doc BY <1>i, <2>1, PageFields
  <2>3. CASE \E i \in page.rest : page' = [shown EXCEPT !.rest = @ \ {i}, !.removed = removed]
    BY <1>d, <2>1, <2>2, <2>3 DEF EditorKept
  <2>4. CASE LET done == [shown EXCEPT !.pending = Nil, !.removed = {},
                                        !.listed = Restrict(@, DOMAIN @ \ removed)]
             IN resetDialog(done) \/ page' = done
    <3> DEFINE done == [shown EXCEPT !.pending = Nil, !.removed = {},
                                     !.listed = Restrict(@, DOMAIN @ \ removed)]
    <3>1. DOMAIN done = DOMAIN page /\ done.doc = page.doc BY <1>d, <2>2
    <3>2. page' \in {done, Freed(done)} BY <2>4 DEF resetDialog
    <3> HIDE DEF done
    <3> QED BY <1>i, <2>1, <3>1, <3>2, PageFields DEF EditorKept
  <2> QED BY <2>1, <2>3, <2>4
<1>12. CASE activate
  <2>1. seen' = seen /\ \E w : page' = [page EXCEPT !.pending = "activate", !.awaiting = w]
    BY <1>12, Zenon DEF activate, Begin
  <2> QED BY <1>d, <2>1 DEF EditorKept
<1>13. CASE openDocument \/ openRunningDocument \/ LeavePage \/ closeDocument
  <2>1. /\ seen' = seen
        /\ \/ \E kind : page' = [page EXCEPT !.pending = kind, !.docEpoch = @ + 1]
           \/ page' = [page EXCEPT !.docEpoch = @ + 1]
           \/ page' = [page EXCEPT !.doc = Nil, !.docEpoch = @ + 1]
    BY <1>13, Zenon DEF openDocument, openRunningDocument, OpenDoc, LeavePage, closeDocument
  <2> QED BY <1>d, <2>1 DEF EditorKept
<1>14. CASE AnswerDocument
  <2>1. seen' = seen /\ \E c, b : page' = [page EXCEPT !.pending = Nil,
                                       !.doc = IF b THEN Session("subscription", c.id, Nil, Nil) ELSE @]
    BY <1>14 DEF AnswerDocument
  <2> QED BY <1>d, <2>1 DEF EditorKept, Session
<1>15. CASE AnswerSave
  <2>1. PICK shown :
          /\ shown = page \/ \E x : shown = upsert(page, x)
          /\ seen' = seen /\ page' \in {shown, [shown EXCEPT !.doc = Nil, !.docEpoch = @ + 1]}
    BY <1>15 DEF AnswerSave
  <2>2. DOMAIN shown = DOMAIN page /\ shown.doc = page.doc BY <1>i, <2>1, PageFields
  <2> QED BY <1>d, <2>1, <2>2 DEF EditorKept
<1>16. CASE \/ PerformList \/ Perform \/ RefuseActivation \/ AlreadyCurrent \/ SendActivation \/ ResponseTimeout
            \/ WorkQueued \/ WorkGivenUp \/ WorkPersisted \/ WorkApplied \/ CoreMoves \/ ScheduledUpdate
            \/ UNCHANGED pageVars
  <2>1. UNCHANGED <<seen, page>>
    BY <1>16 DEF PerformList, Perform, RefuseActivation, AlreadyCurrent, SendActivation, ResponseTimeout,
       WorkQueued, WorkGivenUp, WorkPersisted, WorkApplied, CoreMoves, ScheduledUpdate, Around, pageVars
  <2> QED BY <1>1, <2>1
<1>17. CASE openCreateDialog \/ openReplaceDialog \/ openDeleteDialog \/ openSettingsDialog \/ saveDocument
  <2>1. UNCHANGED <<seen, page>>
    BY <1>17, Zenon DEF openCreateDialog, openReplaceDialog, openDeleteDialog, openSettingsDialog, beginDialog,
       saveDocument
  <2> QED BY <1>1, <2>1
<1>18. CASE TouchKind \/ TouchNames \/ TouchUrl \/ TouchContent \/ TouchOptions \/ ConfirmTls
  <2>1. UNCHANGED <<seen, page>>
    BY <1>18, Zenon DEF TouchKind, TouchNames, TouchUrl, TouchContent, TouchOptions, ConfirmTls, patchForm
  <2> QED BY <1>1, <2>1
<1> QED
  BY <1>2, <1>3, <1>5, <1>6, <1>8, <1>9, <1>10, <1>11, <1>12, <1>13, <1>14, <1>15, <1>16, <1>17, <1>18, Zenon
     DEF PageNext

\* What does not fit the observation is closed.
LEMMA SettledRuntime ==
  ASSUME Formed, NEW p, DOMAIN p = DOMAIN page, NEW o, RecordFormed(o, used), page' = Settled(p, o),
         page'.doc # Nil, page'.doc.kind = "runtime"
  PROVE  o.life = "ready" /\ o.applied = [id |-> page'.doc.id, gen |-> page'.doc.gen]
<1>1. page'.doc = IF Mismatch(p.doc, o) THEN Nil ELSE p.doc BY SettledFacts
<1>2. /\ p.doc # Nil /\ page'.doc = p.doc /\ o.life = "ready" /\ o.applied # Nil
      /\ o.applied.id = p.doc.id /\ o.applied.gen = p.doc.gen
  BY <1>1 DEF Mismatch, isSubscriptionVisualActive
<1>3. o.applied \in Runs BY <1>2 DEF RecordFormed
<1> QED BY <1>2, <1>3 DEF Runs

\* Every step keeps the editor current.
LEMMA RuntimeStep ==
  LocksIInv /\ RuntimeDocumentIsCurrent /\ [PageNext]_pageVars => RuntimeDocumentIsCurrent'
<1> SUFFICES ASSUME LocksIInv, RuntimeDocumentIsCurrent, [PageNext]_pageVars, page'.doc # Nil,
                    page'.doc.kind = "runtime"
             PROVE  seen'.life = "ready" /\ seen'.applied = [id |-> page'.doc.id, gen |-> page'.doc.gen]
  BY DEF RuntimeDocumentIsCurrent
<1>i. Formed BY DEF LocksIInv
<1>d. DOMAIN page = {"load", "listed", "pending", "rest", "removed", "awaiting", "doc", "docEpoch"}
  BY <1>i DEF Formed, PageFormed
<1>1. CASE ~Observe /\ ~AnswerActivate /\ ~AnswerRunning
  <2>1. EditorKept BY <1>1, EditorSteps
  <2> QED BY <2>1 DEF EditorKept, RuntimeDocumentIsCurrent
<1>2. CASE Observe
  <2>1. page' = Settled(page, seen') /\ UNCHANGED used BY <1>2, Zenon DEF Observe, Settle
  <2>2. RecordFormed(seen', used) BY <1>2, <2>1, LocksStep DEF LocksIInv, Formed
  <2> QED BY <1>i, <2>1, <2>2, SettledRuntime
<1>3. CASE AnswerActivate
  <2>0. seen' = seen /\ \E c \in calls : c.cmd = "activate" BY <1>3, Zenon DEF AnswerActivate
  <2>1. page.doc = Nil /\ seen' = seen
    <3>1. LocksFit /\ ActivationFits BY DEF LocksIInv
    <3> QED BY <2>0, <3>1 DEF LocksFit, ActivationFits, Pendings
  <2>2. \/ page' = [page EXCEPT !.pending = Nil, !.awaiting = Nil]
        \/ \E w : page' = Settled([page EXCEPT !.awaiting = w], seen)
        \/ \E x, w : page' = Settled([upsert(page, x) EXCEPT !.awaiting = w], seen)
    BY <1>3, Zenon DEF AnswerActivate, Settle
  <2>3. RecordFormed(seen, used) BY <1>i DEF Formed
  <2>4. CASE page' = [page EXCEPT !.pending = Nil, !.awaiting = Nil] BY <1>d, <2>1, <2>4
  <2>5. ASSUME NEW w, page' = Settled([page EXCEPT !.awaiting = w], seen)
        PROVE  seen.life = "ready" /\ seen.applied = [id |-> page'.doc.id, gen |-> page'.doc.gen]
    <3> DEFINE p == [page EXCEPT !.awaiting = w]
    <3>1. DOMAIN p = DOMAIN page OBVIOUS
    <3> HIDE DEF p
    <3> QED BY <1>i, <2>3, <2>5, <3>1, SettledRuntime DEF p
  <2>6. ASSUME NEW x, NEW w, page' = Settled([upsert(page, x) EXCEPT !.awaiting = w], seen)
        PROVE  seen.life = "ready" /\ seen.applied = [id |-> page'.doc.id, gen |-> page'.doc.gen]
    <3> DEFINE p == [upsert(page, x) EXCEPT !.awaiting = w]
    <3>1. DOMAIN p = DOMAIN page BY <1>i, PageFields
    <3>2. page' = Settled(p, seen) BY <2>6
    <3> HIDE DEF p
    <3> QED BY <1>i, <2>3, <3>1, <3>2, SettledRuntime
  <2> QED BY <2>1, <2>2, <2>4, <2>5, <2>6
<1>4. CASE AnswerRunning
  <2>1. PICK b :
          /\ b => seen.life = "ready" /\ seen' = seen
          /\ page' = [page EXCEPT !.pending = Nil,
                        !.doc = IF b THEN Session("runtime", seen.applied.id, seen.applied.gen,
                                                  IF seen.switch = Nil THEN Nil ELSE seen.switch.op)
                                ELSE @]
          /\ seen' = seen
    BY <1>4 DEF AnswerRunning
  <2>2. seen.life = "ready" => seen.applied \in Runs BY <1>i DEF Formed, RecordFormed
  <2>3. CASE b BY <1>d, <2>1, <2>2, <2>3 DEF Session, Runs
  <2>4. CASE ~b BY <1>d, <2>1, <2>4 DEF RuntimeDocumentIsCurrent
  <2> QED BY <2>3, <2>4
<1> QED BY <1>1, <1>2, <1>3, <1>4

\* The running configuration the page shows is the one its observation says is
\* applied (openRunningDocument, and the effect that closes it).
THEOREM RuntimeDocumentIsCurrentHolds == PageSpec => []RuntimeDocumentIsCurrent
<1>1. PageInit => RuntimeDocumentIsCurrent BY DEF PageInit, RuntimeDocumentIsCurrent
<1> QED BY <1>1, LocksInvariance, RuntimeStep, PTL DEF PageSpec

-----------------------------------------------------------------------------
(* What the commands make of a subscription *)

\* What UntouchedStays says of one subscription.
FieldsKept(old, new, touched) ==
  LET Untouched(field) == field \notin touched
  IN /\ Untouched("name") => new.name \in {old.name, safe_display_name(old.name)}
     /\ Untouched("desc") => new.desc = old.desc
     /\ Untouched("url") => new.url = old.url
     /\ Untouched("auto") => new.policy.auto = old.policy.auto
     /\ Untouched("interval") =>
          new.policy.interval = old.policy.interval \/ (old.policy.interval = Nil /\ new.policy.auto)
     /\ old.request # Nil =>
          /\ Untouched("ua") => new.request.ua = old.request.ua
          /\ Untouched("timeout") => new.request.timeout = old.request.timeout
          /\ Untouched("proxy") => new.request.proxy = old.request.proxy
          /\ Untouched("tls") => new.request.tls = old.request.tls

\* An option that is there is taken, one that is not leaves the default.
LEMMA OrIn == ASSUME NEW S, NEW d, NEW T, S \subseteq T, d \in T PROVE Or(S, d) \in T
<1>1. S # {} => (CHOOSE x \in S : TRUE) \in S OBVIOUS
<1> QED BY <1>1 DEF Or

\* An option with a value has that one.
LEMMA OrOne == ASSUME NEW S, NEW d, NEW x, S = {x} PROVE Or(S, d) = x
BY DEF Or

\* An option that has no other value than the default leaves it.
LEMMA OrKeeps == ASSUME NEW S, NEW d, S \subseteq {d} PROVE Or(S, d) = d
BY OrIn

\* The names of the proxy modes go both ways.
LEMMA ProxyFacts ==
  /\ \A m \in DOMAIN ProxyModes : ProxyModes[m] \in ProxyNames /\ ProxyMode(ProxyModes[m]) = m
  /\ \A x \in ProxyNames : ProxyMode(x) \in DOMAIN ProxyModes
<1>1. DOMAIN ProxyModes = {"Direct", "System", "ManagedCore"} /\ ProxyModes["Direct"] = "direct"
      /\ ProxyModes["System"] = "system" /\ ProxyModes["ManagedCore"] = "managedCore"
  BY DEF ProxyModes
<1> HIDE DEF ProxyModes
<1>2. ASSUME NEW x \in ProxyNames PROVE ProxyMode(x) \in DOMAIN ProxyModes /\ ProxyModes[ProxyMode(x)] = x
  <2>1. \E m \in DOMAIN ProxyModes : ProxyModes[m] = x BY <1>1 DEF ProxyNames
  <2> QED BY <2>1 DEF ProxyMode
<1>3. ASSUME NEW m \in DOMAIN ProxyModes PROVE ProxyModes[m] \in ProxyNames /\ ProxyMode(ProxyModes[m]) = m
  <2>1. ProxyModes[m] \in ProxyNames BY <1>1 DEF ProxyNames
  <2>2. ProxyMode(ProxyModes[m]) \in DOMAIN ProxyModes /\ ProxyModes[ProxyMode(ProxyModes[m])] = ProxyModes[m]
    BY <1>2, <2>1
  <2> QED BY <1>1, <2>1, <2>2
<1> QED BY <1>2, <1>3

\* The interval of a source counts only where none is set.
LEMMA AdoptFacts ==
  ASSUME NEW p \in Policies, NEW q \in Profiles
  PROVE  LET r == adopt_profile_interval(p, q)
         IN /\ r \in Policies /\ r.auto = p.auto
            /\ r.interval = p.interval \/ (p.interval = Nil /\ r.auto)
            /\ p.interval # Nil => r = p
BY DEF adopt_profile_interval, Policies, Profiles

\* A policy that is adopted changes nothing else.
LEMMA AdoptedSub ==
  ASSUME NEW s, SubShaped(s), NEW q \in Profiles
  PROVE  LET n == [s EXCEPT !.policy = adopt_profile_interval(@, q)]
         IN /\ SubShaped(n) /\ n.name = s.name /\ n.desc = s.desc /\ n.url = s.url /\ n.request = s.request
            /\ n.policy.auto = s.policy.auto
            /\ n.policy.interval = s.policy.interval \/ (s.policy.interval = Nil /\ n.policy.auto)
            /\ s.policy.interval # Nil => n.policy = s.policy
<1> DEFINE r == adopt_profile_interval(s.policy, q)
<1>1. /\ r \in Policies /\ r.auto = s.policy.auto
      /\ r.interval = s.policy.interval \/ (s.policy.interval = Nil /\ r.auto)
      /\ s.policy.interval # Nil => r = s.policy
  BY AdoptFacts DEF SubShaped
<1> HIDE DEF r
<1>2. LET n == [s EXCEPT !.policy = r]
      IN /\ SubShaped(n) /\ n.name = s.name /\ n.desc = s.desc /\ n.url = s.url /\ n.request = s.request
         /\ n.policy = r
  BY <1>1 DEF SubShaped
<1> QED BY <1>1, <1>2 DEF r

\* A patch of the request.
LEMMA PatchFacts ==
  ASSUME NEW s, SubShaped(s), s.url # Nil, NEW r, EditShaped(r), NEW touched, EditKeeps(r, touched, s),
         NEW p \in r.request
  PROVE  LET n == apply_remote_patch(s.request, p)
         IN /\ DOMAIN n = {"ua", "timeout", "proxy", "tls"}
            /\ n.timeout \in Nat /\ n.proxy \in DOMAIN ProxyModes /\ n.tls \in BOOLEAN
            /\ "ua" \notin touched => n.ua = s.request.ua
            /\ "timeout" \notin touched => n.timeout = s.request.timeout
            /\ "proxy" \notin touched => n.proxy = s.request.proxy
            /\ "tls" \notin touched => n.tls = s.request.tls
<1> DEFINE t == Or(p.timeout, s.request.timeout)
           x == Or(p.proxy, ProxyModes[s.request.proxy])
           b == Or(p.tls, s.request.tls)
           u == IF p.ua = {} THEN s.request.ua ELSE UserAgentEdit(Or(p.ua, ""))
<1>1. t \in Nat /\ ("timeout" \notin touched => t = s.request.timeout)
  <2>1. p.timeout \subseteq Nat /\ s.request.timeout \in Nat
        /\ ("timeout" \notin touched => p.timeout \subseteq {s.request.timeout})
    BY DEF EditShaped, EditKeeps, SubShaped
  <2>2. t \in Nat BY <2>1, OrIn
  <2>3. p.timeout \subseteq {s.request.timeout} => t = s.request.timeout BY OrKeeps
  <2> QED BY <2>1, <2>2, <2>3
<1>2. x \in ProxyNames /\ ("proxy" \notin touched => x = ProxyModes[s.request.proxy])
  <2>1. p.proxy \subseteq ProxyNames /\ s.request.proxy \in DOMAIN ProxyModes
        /\ ("proxy" \notin touched => p.proxy \subseteq {ProxyModes[s.request.proxy]})
    BY DEF EditShaped, EditKeeps, SubShaped
  <2>2. ProxyModes[s.request.proxy] \in ProxyNames BY <2>1, ProxyFacts
  <2>3. x \in ProxyNames BY <2>1, <2>2, OrIn
  <2>4. p.proxy \subseteq {ProxyModes[s.request.proxy]} => x = ProxyModes[s.request.proxy] BY OrKeeps
  <2> QED BY <2>1, <2>3, <2>4
<1>3. b \in BOOLEAN /\ ("tls" \notin touched => b = s.request.tls)
  <2>1. p.tls \subseteq BOOLEAN /\ s.request.tls \in BOOLEAN
        /\ ("tls" \notin touched => p.tls \subseteq {s.request.tls})
    BY DEF EditShaped, EditKeeps, SubShaped
  <2>2. b \in BOOLEAN BY <2>1, OrIn
  <2>3. p.tls \subseteq {s.request.tls} => b = s.request.tls BY OrKeeps
  <2> QED BY <2>1, <2>2, <2>3
<1>4. "ua" \notin touched => u = s.request.ua
  <2>1. "ua" \notin touched => p.ua = {} \/ (p.ua = {""} /\ s.request.ua = Nil) BY DEF EditKeeps
  <2>2. p.ua = {""} => Or(p.ua, "") = "" BY OrOne
  <2> QED BY <2>1, <2>2 DEF UserAgentEdit
<1>5. ProxyMode(x) \in DOMAIN ProxyModes /\ ("proxy" \notin touched => ProxyMode(x) = s.request.proxy)
  <2>1. s.request.proxy \in DOMAIN ProxyModes BY DEF SubShaped
  <2> QED BY <1>2, <2>1, ProxyFacts
<1>6. apply_remote_patch(s.request, p) = [ua |-> u, timeout |-> t, proxy |-> ProxyMode(x), tls |-> b]
  BY DEF apply_remote_patch
<1> HIDE DEF t, x, b, u
<1> QED BY <1>1, <1>3, <1>4, <1>5, <1>6

\* A patch of the policy.
LEMMA PolicyPatchFacts ==
  ASSUME NEW s, SubShaped(s), s.url # Nil, NEW r, EditShaped(r), NEW touched, EditKeeps(r, touched, s),
         NEW p \in r.policy
  PROVE  LET n == apply_update_policy_patch(s.policy, p)
         IN /\ n \in Policies
            /\ "auto" \notin touched => n.auto = s.policy.auto
            /\ "interval" \notin touched => n.interval = s.policy.interval
<1>1. PICK b \in p.auto, n \in p.interval :
        p.auto = {b} /\ p.interval = {n} /\ [auto |-> b, interval |-> n] \in Policies
  BY DEF EditShaped
<1>2. Or(p.auto, s.policy.auto) = b /\ Or(p.interval, s.policy.interval) = n
  <2>1. Or(p.auto, s.policy.auto) = b BY <1>1, OrOne
  <2>2. Or(p.interval, s.policy.interval) = n BY <1>1, OrOne
  <2> QED BY <2>1, <2>2
<1>3. apply_update_policy_patch(s.policy, p) = [auto |-> b, interval |-> n]
  BY <1>2 DEF apply_update_policy_patch
<1>4. ("auto" \notin touched => p.auto \subseteq {s.policy.auto})
      /\ ("interval" \notin touched => p.interval \subseteq {s.policy.interval})
  BY DEF EditKeeps
<1> QED BY <1>1, <1>3, <1>4

\* An edit takes from the request what it has and keeps the rest.
LEMMA EditedSub ==
  ASSUME NEW s, SubShaped(s), NEW r, EditShaped(r), NEW touched, EditKeeps(r, touched, s),
         s.url = Nil => r.url = {} /\ r.request = {} /\ r.policy = {}
  PROVE  LET n == Edited(s, r) IN SubShaped(n) /\ FieldsKept(s, n, touched)
<1> DEFINE name == Or(r.name, s.name)
           desc == Or(r.desc, s.desc)
           url == Or(r.url, s.url)
           request == IF r.request = {} THEN s.request
                      ELSE apply_remote_patch(s.request, CHOOSE p \in r.request : TRUE)
           policy == IF r.policy = {} THEN s.policy
                     ELSE apply_update_policy_patch(s.policy, CHOOSE p \in r.policy : TRUE)
<1>1. "name" \notin touched => name \in {s.name, safe_display_name(s.name)}
  <2>1. "name" \notin touched => r.name \subseteq {s.name, safe_display_name(s.name)} BY DEF EditKeeps
  <2> DEFINE T == {s.name, safe_display_name(s.name)}
  <2>3. s.name \in T OBVIOUS
  <2> HIDE DEF T
  <2>2. r.name \subseteq T => name \in T BY <2>3, OrIn
  <2> QED BY <2>1, <2>2 DEF T
<1>2. "desc" \notin touched => desc = s.desc
  <2>1. "desc" \notin touched => r.desc \subseteq {s.desc} BY DEF EditKeeps
  <2>2. r.desc \subseteq {s.desc} => desc = s.desc BY OrKeeps
  <2> QED BY <2>1, <2>2
<1>3. ("url" \notin touched => url = s.url) /\ (s.url = Nil => url = Nil) /\ (s.url # Nil => url \in PageUrls)
  <2>1. "url" \notin touched => r.url \subseteq {s.url} BY DEF EditKeeps
  <2>2. r.url \subseteq PageUrls BY DEF EditShaped
  <2>3. s.url # Nil => s.url \in PageUrls BY DEF SubShaped
  <2>4. r.url \subseteq {s.url} => url = s.url BY OrKeeps
  <2>5. s.url \in PageUrls => url \in PageUrls BY <2>2, OrIn
  <2>6. r.url = {} => url = s.url BY <2>4
  <2> QED BY <2>1, <2>3, <2>4, <2>5, <2>6
<1>4. s.url = Nil => request = s.request OBVIOUS
<1>5. s.url # Nil =>
        /\ DOMAIN request = {"ua", "timeout", "proxy", "tls"}
        /\ request.timeout \in Nat /\ request.proxy \in DOMAIN ProxyModes /\ request.tls \in BOOLEAN
        /\ "ua" \notin touched => request.ua = s.request.ua
        /\ "timeout" \notin touched => request.timeout = s.request.timeout
        /\ "proxy" \notin touched => request.proxy = s.request.proxy
        /\ "tls" \notin touched => request.tls = s.request.tls
  <2>1. CASE r.request = {} BY <2>1 DEF SubShaped
  <2>2. CASE r.request # {}
    <3>1. PICK p \in r.request : request = apply_remote_patch(s.request, p) BY <2>2
    <3> HIDE DEF request
    <3> QED BY <3>1, PatchFacts
  <2> QED BY <2>1, <2>2
<1>6. /\ policy \in Policies
      /\ "auto" \notin touched => policy.auto = s.policy.auto
      /\ "interval" \notin touched => policy.interval = s.policy.interval
  <2>1. CASE r.policy = {} BY <2>1 DEF SubShaped
  <2>2. CASE r.policy # {}
    <3>1. PICK p \in r.policy : policy = apply_update_policy_patch(s.policy, p) BY <2>2
    <3> HIDE DEF policy
    <3> QED BY <2>2, <3>1, PolicyPatchFacts
  <2> QED BY <2>1, <2>2
<1>7. /\ DOMAIN Edited(s, r) = DOMAIN s
      /\ Edited(s, r).name = name /\ Edited(s, r).desc = desc /\ Edited(s, r).url = url
      /\ Edited(s, r).request = request /\ Edited(s, r).policy = policy
  BY DEF Edited, SubShaped
<1> DEFINE n == Edited(s, r)
<1> HIDE DEF name, desc, url, request, policy, n
<1>8. SubShaped(n) BY <1>3, <1>5, <1>6, <1>7 DEF SubShaped, n
<1>9. FieldsKept(s, n, touched)
  <2>1. s.url = Nil => n.request = s.request BY <1>4, <1>7 DEF n
  <2> QED BY <1>1, <1>2, <1>3, <1>5, <1>6, <1>7, <2>1 DEF FieldsKept, n
<1> QED BY <1>8, <1>9 DEF n

\* A refusal that the page knows.
Declined(a, o) ==
  \E e \in DOMAIN SubscriptionErrorCode :
    o = [app |-> a, answer |-> Err(SubscriptionErrorCode, e), event |-> FALSE]

\* What a write of the subscription i, with the fields in touched, makes of the state a.
Stores(a, n, i, touched) ==
  /\ StoreShaped(n)
  /\ DOMAIN n.subs = DOMAIN a.subs \cup {i}
  /\ \A j \in DOMAIN a.subs : j # i => n.subs[j] = a.subs[j]
  /\ i \in DOMAIN a.subs => FieldsKept(a.subs[i], n.subs[i], touched)
Saves(n, o, i) ==
  StateValid(n) /\ o = [app |-> n, answer |-> Ok(SubscriptionSummaryResponse(summary_for(n, i))), event |-> TRUE]
WriteStored(a, o, i, touched) == Declined(a, o) \/ \E n : Stores(a, n, i, touched) /\ Saves(n, o, i)

\* The errors of the commands are those that the page knows.
LEMMA DeclinedFacts ==
  ASSUME NEW a, NEW o, Declined(a, o)
  PROVE  o.app = a /\ ~o.event /\ o.answer.status = "error" /\ o.answer.error \in subscriptionErrors
<1>1. \A e \in DOMAIN SubscriptionErrorCode : SubscriptionErrorCode[e] \in subscriptionErrors
  BY DEF SubscriptionErrorCode, subscriptionErrors
<1> QED BY <1>1 DEF Declined, Err

\* The refusals of a command are such.
LEMMA RefusalsDecline ==
  ASSUME NEW a, NEW E, E \subseteq DOMAIN SubscriptionErrorCode, NEW o \in Refusals(a, E)
  PROVE  Declined(a, o)
BY DEF Refusals, Declined

\* The sets of errors that the commands refuse with.
LEMMA ErrorSets ==
  LET E == DOMAIN SubscriptionErrorCode
  IN /\ map_access_error \subseteq E /\ map_url_error \subseteq E /\ FetchErrors \subseteq E
     /\ parse_errors \cup map_replacement_error \subseteq E /\ FetchErrors \cup {"IdentityFailed"} \subseteq E
     /\ {"Busy", "StateUnavailable", "SaveFailed"} \subseteq E /\ {"ValidationFailed"} \subseteq E
     /\ {"Busy", "StateUnavailable"} \subseteq E /\ {"NotFound"} \subseteq E /\ {"NotShareable"} \subseteq E
     /\ {"InvalidInput"} \subseteq E /\ {"InvalidOptions"} \subseteq E /\ {"IdentityFailed"} \subseteq E
     /\ {"Busy", "StateUnavailable", "SaveFailed", "ReferenceConflict"} \subseteq E
BY DEF SubscriptionErrorCode, map_access_error, map_url_error, FetchErrors, parse_errors, map_replacement_error,
       map_fetch_error

\* A save either is refused or stores what it was given.
LEMMA SavedStores ==
  ASSUME NEW a, NEW n, NEW i, NEW touched, StateValid(n) => Stores(a, n, i, touched), NEW o \in Saved(a, n, i)
  PROVE  WriteStored(a, o, i, touched)
<1> DEFINE E1 == {"Busy", "StateUnavailable", "SaveFailed"}
           E2 == {"ValidationFailed"}
<1>1. E1 \subseteq DOMAIN SubscriptionErrorCode /\ E2 \subseteq DOMAIN SubscriptionErrorCode BY ErrorSets
<1>2. o \in Refusals(a, E1) \/ o \in Refusals(a, E2) \/ Saves(n, o, i) BY Zenon DEF Saved, Saves
<1> HIDE DEF E1, E2
<1>3. CASE o \in Refusals(a, E1) BY <1>1, <1>3, RefusalsDecline DEF WriteStored
<1>4. CASE o \in Refusals(a, E2) BY <1>1, <1>4, RefusalsDecline DEF WriteStored
<1>5. CASE Saves(n, o, i) BY <1>5 DEF WriteStored, Saves
<1> QED BY <1>2, <1>3, <1>4, <1>5

\* New text changes the generation at most.
LEMMA ContentStores ==
  ASSUME NEW a, NEW m, NEW i, NEW touched, Stores(a, m, i, touched), AppFormed(m, used), NEW n \in WithContent(m, i)
  PROVE  Stores(a, n, i, touched)
<1>1. n.subs = m.subs BY GenerationStep DEF WithContent
<1> QED BY <1>1 DEF Stores, StoreShaped

\* A subscription that is there is replaced.
LEMMA SubStores ==
  ASSUME NEW a, AppFormed(a, used), StoreShaped(a), NEW i \in DOMAIN a.subs, NEW touched,
         NEW v, SubShaped(v), FieldsKept(a.subs[i], v, touched)
  PROVE  LET n == [a EXCEPT !.subs[i] = v] IN Stores(a, n, i, touched) /\ AppFormed(n, used)
<1> DEFINE n == [a EXCEPT !.subs[i] = v]
<1>1. n.subs = [a.subs EXCEPT ![i] = v] BY DEF AppFormed
<1>2. AppFormed(n, used) BY SubStep
<1> HIDE DEF n
<1>3. StoreShaped(n) BY <1>1 DEF StoreShaped
<1>4. DOMAIN n.subs = DOMAIN a.subs \cup {i} /\ (\A j \in DOMAIN a.subs : j # i => n.subs[j] = a.subs[j])
      /\ n.subs[i] = v
  BY <1>1
<1> QED BY <1>2, <1>3, <1>4 DEF Stores, n

\* edit stores what the user touched and, with a new URL, the interval of the source.
LEMMA EditStores ==
  ASSUME NEW a, AppFormed(a, used), StoreShaped(a), NEW r, EditShaped(r), NEW touched,
         r.id \in DOMAIN a.subs => EditKeeps(r, touched, a.subs[r.id]), NEW o \in edit(a, r)
  PROVE  WriteStored(a, o, r.id, touched) /\ (~Declined(a, o) => r.id \in DOMAIN a.subs)
<1> DEFINE i == r.id
           s == a.subs[i]
           Made(p) == [a EXCEPT !.subs[i] = [Edited(s, r) EXCEPT !.policy = adopt_profile_interval(@, p)]]
<1>1. ASSUME NEW E, E \subseteq DOMAIN SubscriptionErrorCode, o \in Refusals(a, E) PROVE Declined(a, o)
  BY <1>1, RefusalsDecline
<1>2. CASE i \notin DOMAIN a.subs
  <2>1. o \in Refusals(a, {"Busy", "StateUnavailable"}) \/ o \in Refusals(a, {"NotFound"})
    BY <1>2, Zenon DEF edit, Entered
  <2> QED BY <1>1, <2>1, ErrorSets DEF WriteStored
<1>3. CASE i \in DOMAIN a.subs /\ o \notin Entered(a)
  <2> DEFINE remote == r.url # {} \/ r.request # {} \/ r.policy # {}
  <2>1. o \in IF ~NamesValid(r) THEN Refusals(a, {"InvalidInput"})
        ELSE IF s.url = Nil /\ remote THEN Refusals(a, {"InvalidOptions"})
        ELSE IF \E u \in r.url : ~UrlValid(u) THEN Refusals(a, map_url_error)
        ELSE IF remote /\ ~(RequestValid(Edited(s, r).request) /\ PolicyValid(Edited(s, r).policy))
        THEN Refusals(a, {"InvalidOptions"})
        ELSE IF Edited(s, r).url # s.url
        THEN Refusals(a, FetchErrors)
               \cup UNION {Saved(a, next, i) : next \in UNION {WithContent(Made(p), i) : p \in Profiles}}
        ELSE Saved(a, [a EXCEPT !.subs[i] = Edited(s, r)], i)
    BY <1>3, Zenon DEF edit
  <2>2. SubShaped(s) /\ EditKeeps(r, touched, s) BY <1>3 DEF StoreShaped
  <2>3. \/ \E E : E \subseteq DOMAIN SubscriptionErrorCode /\ o \in Refusals(a, E)
        \/ ~(s.url = Nil /\ remote) /\ \E p \in Profiles : \E n \in WithContent(Made(p), i) : o \in Saved(a, n, i)
        \/ ~(s.url = Nil /\ remote) /\ o \in Saved(a, [a EXCEPT !.subs[i] = Edited(s, r)], i)
    <3> HIDE DEF s, Made, remote
    <3> QED BY <2>1, ErrorSets
  <2>4. ASSUME s.url = Nil => ~remote
        PROVE  SubShaped(Edited(s, r)) /\ FieldsKept(s, Edited(s, r), touched)
    BY <2>2, <2>4, EditedSub
  <2>5. ASSUME NEW p \in Profiles, ~(s.url = Nil /\ remote), NEW n \in WithContent(Made(p), i), o \in Saved(a, n, i)
        PROVE  WriteStored(a, o, i, touched)
    <3> DEFINE e == Edited(s, r)
               v == [e EXCEPT !.policy = adopt_profile_interval(@, p)]
    <3>1. SubShaped(e) /\ FieldsKept(s, e, touched) BY <2>4, <2>5
    <3> HIDE DEF e
    <3>2. SubShaped(v) /\ v.name = e.name /\ v.desc = e.desc /\ v.url = e.url /\ v.request = e.request
          /\ v.policy.auto = e.policy.auto
          /\ (v.policy.interval = e.policy.interval \/ (e.policy.interval = Nil /\ v.policy.auto))
      BY <3>1, AdoptedSub
    <3> HIDE DEF v, s
    <3>3. FieldsKept(s, v, touched) BY <3>1, <3>2 DEF FieldsKept
    <3> USE DEF v, s
    <3>4. Made(p) = [a EXCEPT !.subs[i] = v] BY DEF e
    <3> HIDE DEF v
    <3>5. Stores(a, Made(p), i, touched) /\ AppFormed(Made(p), used) BY <1>3, <3>2, <3>3, <3>4, SubStores
    <3> HIDE DEF Made
    <3>6. Stores(a, n, i, touched) BY <2>5, <3>5, ContentStores
    <3> QED BY <2>5, <3>6, SavedStores
  <2>6. ASSUME ~(s.url = Nil /\ remote), o \in Saved(a, [a EXCEPT !.subs[i] = Edited(s, r)], i)
        PROVE  WriteStored(a, o, i, touched)
    <3> DEFINE e == Edited(s, r)
               n == [a EXCEPT !.subs[i] = e]
    <3>1. SubShaped(e) /\ FieldsKept(s, e, touched) BY <2>4, <2>6
    <3> HIDE DEF e
    <3>2. Stores(a, n, i, touched) BY <1>3, <3>1, SubStores
    <3>3. o \in Saved(a, n, i) BY <2>6 DEF e
    <3> HIDE DEF n
    <3> QED BY <3>2, <3>3, SavedStores
  <2> HIDE DEF Made, s, remote
  <2> QED BY <1>1, <1>3, <2>3, <2>5, <2>6 DEF WriteStored
<1>4. CASE o \in Entered(a) BY <1>1, <1>4, ErrorSets DEF Entered, WriteStored
<1> QED BY <1>2, <1>3, <1>4

\* n has what the page shows of s.
SameFields(s, n) ==
  /\ DOMAIN n = DOMAIN s
  /\ n.name = s.name /\ n.desc = s.desc /\ n.url = s.url /\ n.request = s.request /\ n.policy = s.policy
SameSubs(a, b) ==
  DOMAIN b.subs = DOMAIN a.subs /\ \A j \in DOMAIN a.subs : SameFields(a.subs[j], b.subs[j])

\* An update stores the interval of the source, where none is set.
LEMMA UpdateStores ==
  ASSUME NEW a, AppFormed(a, used), StoreShaped(a), NEW i, NEW text, NEW o \in update_with_route(a, i, text)
  PROVE  /\ WriteStored(a, o, i, {}) /\ (~Declined(a, o) => i \in DOMAIN a.subs)
         /\ i \in DOMAIN a.subs /\ a.subs[i].policy.interval # Nil => SameSubs(a, o.app)
<1> DEFINE Made(p) == [a EXCEPT !.subs[i].policy = adopt_profile_interval(@, p)]
           E == IF text = Nil THEN FetchErrors ELSE parse_errors \cup map_replacement_error
<1>1. ASSUME NEW F, F \subseteq DOMAIN SubscriptionErrorCode, o \in Refusals(a, F)
      PROVE  Declined(a, o) /\ SameSubs(a, o.app)
  BY <1>1, RefusalsDecline, DeclinedFacts DEF SameSubs, SameFields
<1>2. \/ o \in Refusals(a, {"Busy", "StateUnavailable"}) \/ o \in Refusals(a, {"NotFound"})
      \/ o \in Refusals(a, {"InvalidInput"}) \/ o \in Refusals(a, E)
      \/ /\ i \in DOMAIN a.subs
         /\ o \in UNION {Saved(a, next, i) : next \in UNION {WithContent(Made(p), i) :
                              p \in IF text = Nil THEN Profiles ELSE {Nil}}}
  BY Zenon DEF update_with_route, Entered
<1>3. E \subseteq DOMAIN SubscriptionErrorCode BY ErrorSets
<1>4. ASSUME i \in DOMAIN a.subs, NEW p \in Profiles, NEW n \in WithContent(Made(p), i), o \in Saved(a, n, i)
      PROVE  WriteStored(a, o, i, {}) /\ (a.subs[i].policy.interval # Nil => SameSubs(a, o.app))
  <2> DEFINE s == a.subs[i]
             v == [s EXCEPT !.policy = adopt_profile_interval(@, p)]
  <2>1. SubShaped(s) BY <1>4 DEF StoreShaped
  <2>2. Made(p) = [a EXCEPT !.subs[i] = v] OBVIOUS
  <2> HIDE DEF s
  <2>3. SubShaped(v) /\ v.name = s.name /\ v.desc = s.desc /\ v.url = s.url /\ v.request = s.request
        /\ v.policy.auto = s.policy.auto
        /\ (v.policy.interval = s.policy.interval \/ (s.policy.interval = Nil /\ v.policy.auto))
        /\ (s.policy.interval # Nil => v.policy = s.policy)
    BY <2>1, AdoptedSub
  <2>4. s.policy.interval # Nil => SameFields(s, v) BY <2>1, <2>3 DEF SameFields, SubShaped
  <2> HIDE DEF v
  <2>5. FieldsKept(s, v, {}) BY <2>3 DEF FieldsKept
  <2>6. Stores(a, Made(p), i, {}) /\ AppFormed(Made(p), used) BY <1>4, <2>2, <2>3, <2>5, SubStores DEF s
  <2>7. s.policy.interval # Nil => SameSubs(a, Made(p))
    <3>1. Made(p).subs[i] = v BY <1>4, <2>2 DEF AppFormed
    <3>2. \A j \in DOMAIN a.subs : j # i => Made(p).subs[j] = a.subs[j] BY <2>6 DEF Stores
    <3>3. DOMAIN Made(p).subs = DOMAIN a.subs BY <1>4, <2>6 DEF Stores
    <3> HIDE DEF Made
    <3> QED BY <2>4, <3>1, <3>2, <3>3 DEF SameSubs, SameFields, s
  <2> HIDE DEF Made
  <2>8. Stores(a, n, i, {}) BY <1>4, <2>6, ContentStores
  <2>9. WriteStored(a, o, i, {}) BY <1>4, <2>8, SavedStores
  <2>10. n.subs = Made(p).subs BY <1>4, <2>6, GenerationStep DEF WithContent
  <2>11. o.app \in {a, n} BY <1>4 DEF Saved, Refusals
  <2> QED BY <2>7, <2>9, <2>10, <2>11 DEF s, SameSubs, SameFields
<1> HIDE DEF Made, E
<1>5. CASE \E F : F \subseteq DOMAIN SubscriptionErrorCode /\ o \in Refusals(a, F) BY <1>1, <1>5 DEF WriteStored
<1>6. CASE i \in DOMAIN a.subs /\ \E p \in Profiles : \E n \in WithContent(Made(p), i) : o \in Saved(a, n, i)
  BY <1>4, <1>6
<1>7. (IF text = Nil THEN Profiles ELSE {Nil}) \subseteq Profiles BY DEF Profiles
<1> QED BY <1>2, <1>3, <1>5, <1>6, <1>7, ErrorSets

\* An import stores what was asked for, under an id that is new.
LEMMA ImportStores ==
  ASSUME NEW a, AppFormed(a, used), StoreShaped(a), NEW r, ImportShaped(r), NEW x \in Ids,
         NEW o \in import_with_options(a, r, x)
  PROVE  WriteStored(a, o, x, {}) /\ (~Declined(a, o) => x \notin DOMAIN a.subs)
<1> DEFINE policy == IF r.url = Nil THEN ManualPolicy
                     ELSE [auto |-> r.options.auto, interval |-> r.options.interval]
           Found == IF r.url = Nil THEN {policy} ELSE {adopt_profile_interval(policy, q) : q \in Profiles}
           Made(p) == [a EXCEPT !.subs = With(@, x, Imported(r, p))]
<1>1. ASSUME NEW E, E \subseteq DOMAIN SubscriptionErrorCode, o \in Refusals(a, E) PROVE Declined(a, o)
  BY <1>1, RefusalsDecline
<1>2. policy \in Policies
  <2>1. ManualPolicy \in Policies BY DEF ManualPolicy, Policies
  <2>2. r.url # Nil => [auto |-> r.options.auto, interval |-> r.options.interval] \in Policies BY DEF ImportShaped
  <2> QED BY <2>1, <2>2
<1> HIDE DEF policy
<1>3. \A p \in Found : p \in Policies BY <1>2, AdoptFacts
<1>4. \/ \E E : E \subseteq DOMAIN SubscriptionErrorCode /\ o \in Refusals(a, E)
      \/ x \notin DOMAIN a.subs /\ \E p \in Found : o \in Saved(a, Made(p), x)
  <2>1. \/ o \in Refusals(a, {"Busy", "StateUnavailable"}) \/ o \in Refusals(a, {"InvalidInput"})
        \/ o \in Refusals(a, map_url_error) \/ o \in Refusals(a, {"InvalidOptions"})
        \/ o \in Refusals(a, {"IdentityFailed"}) \/ o \in Refusals(a, FetchErrors \cup {"IdentityFailed"})
        \/ x \notin DOMAIN a.subs /\ o \in UNION {Saved(a, Made(p), x) : p \in Found}
    BY Zenon DEF import_with_options, Entered, policy
  <2> HIDE DEF Found, Made
  <2> QED BY <2>1, ErrorSets
<1> HIDE DEF Found
<1>5. ASSUME x \notin DOMAIN a.subs, NEW p \in Found, o \in Saved(a, Made(p), x) PROVE WriteStored(a, o, x, {})
  <2> DEFINE v == Imported(r, p)
  <2>1. SubShaped(v)
    <3>1. DOMAIN v = {"name", "desc", "url", "request", "policy"} /\ v.policy = p /\ v.url = r.url
      BY DEF Imported
    <3>2. CASE r.url = Nil BY <1>3, <3>1, <3>2 DEF SubShaped
    <3>3. CASE r.url # Nil
      <4> DEFINE q == [ua |-> Or(r.options.ua, Nil), timeout |-> r.options.timeout,
                       proxy |-> ProxyMode(r.options.proxy), tls |-> r.options.tls]
      <4>1. v.request = q BY <3>3 DEF Imported
      <4>2. ProxyMode(r.options.proxy) \in DOMAIN ProxyModes BY <3>3, ProxyFacts DEF ImportShaped
      <4> HIDE DEF v
      <4> QED BY <1>3, <3>1, <3>3, <4>1, <4>2 DEF SubShaped, ImportShaped
    <3> QED BY <3>2, <3>3
  <2> HIDE DEF v
  <2>2. Made(p).subs = With(a.subs, x, v) BY DEF AppFormed, v
  <2> HIDE DEF Made
  <2>3. Stores(a, Made(p), x, {}) BY <1>5, <2>1, <2>2 DEF Stores, StoreShaped, With
  <2> QED BY <1>5, <2>3, SavedStores
<1> HIDE DEF Made
<1> QED BY <1>1, <1>4, <1>5 DEF WriteStored

\* A deletion takes its subscription and leaves the rest.
LEMMA DeleteLeaves ==
  ASSUME NEW a, AppFormed(a, used), StoreShaped(a), NEW i, NEW o \in delete(a, i)
  PROVE  \/ Declined(a, o)
         \/ /\ StoreShaped(o.app) /\ DOMAIN o.app.subs = DOMAIN a.subs \ {i}
            /\ \A j \in DOMAIN o.app.subs : o.app.subs[j] = a.subs[j]
            /\ o.answer.status = "ok" /\ o.event
<1> DEFINE left == Restrict(a.subs, DOMAIN a.subs \ {i})
           rest == [a EXCEPT !.subs = left]
           n == Deleted(a, i)
<1>1. rest.subs = left /\ AppFormed(rest, used)
  <2>1. DOMAIN left \subseteq Ids BY DEF Restrict, AppFormed
  <2>2. AppFormed(rest, used) BY <2>1, SubsStep
  <2> QED BY <2>2 DEF AppFormed
<1>2. DOMAIN left = DOMAIN a.subs \ {i} /\ \A j \in DOMAIN left : left[j] = a.subs[j] BY DEF Restrict
<1>3. n = IF a.active = i THEN next_generation([rest EXCEPT !.active = Nil]) ELSE rest BY DEF Deleted
<1> HIDE DEF rest, left, n
<1>4. n.subs = left
  <2> DEFINE none == [rest EXCEPT !.active = Nil]
  <2>1. AppFormed(none, used) /\ none.subs = left BY <1>1, SelectStep
  <2> HIDE DEF none
  <2>2. next_generation(none).subs = left BY <2>1, GenerationStep
  <2> QED BY <1>1, <1>3, <2>2 DEF none
<1>5. \/ o \in Refusals(a, {"Busy", "StateUnavailable", "SaveFailed", "ReferenceConflict"})
      \/ o \in Refusals(a, {"NotFound"}) \/ o \in Refusals(a, {"ValidationFailed"})
      \/ o = [app |-> n, answer |-> Ok(i), event |-> TRUE]
  BY Zenon DEF delete, n
<1>6. ASSUME NEW E, E \subseteq DOMAIN SubscriptionErrorCode, o \in Refusals(a, E) PROVE Declined(a, o)
  BY <1>6, RefusalsDecline
<1>7. CASE o = [app |-> n, answer |-> Ok(i), event |-> TRUE]
  <2>1. o.app = n /\ o.answer.status = "ok" /\ o.event BY <1>7 DEF Ok
  <2>2. StoreShaped(n) BY <1>2, <1>4 DEF StoreShaped
  <2> QED BY <1>2, <1>4, <2>1, <2>2
<1> QED BY <1>5, <1>6, <1>7, ErrorSets

-----------------------------------------------------------------------------
(* What the page reads *)

\* The page reads a summary, but for a name with a control character.
LEMMA SummaryReads ==
  ASSUME NEW a, StoreShaped(a), a.gen \in Nat,
         NEW i \in DOMAIN a.subs, SubscriptionValid(a.subs[i]), a.subs[i].name # "tabbed"
  PROVE  parseSummary(SubscriptionSummaryResponse(summary_for(a, i)))
<1> DEFINE s == a.subs[i]
           x == SubscriptionSummaryResponse(summary_for(a, i))
<1>1. /\ x.name = safe_display_name(s.name) /\ x.desc = s.desc /\ x.kind = Kinds[SourceKind(s)]
      /\ x.auto = s.policy.auto /\ x.interval = s.policy.interval /\ (x.active <=> a.active = i)
      /\ x.gen = (IF a.active = i THEN a.gen ELSE Nil) /\ x.shareable = (s.url # Nil)
  BY DEF SubscriptionSummaryResponse, summary_for
<1>2. SubShaped(s) /\ SubscriptionValid(s) BY DEF StoreShaped
<1>3. s.name # "tabbed" OBVIOUS
<1>4. a.gen # Nil OBVIOUS
<1> HIDE DEF s, x
<1>5. isSafeText(x.name, FALSE) BY <1>1, <1>3, Zenon DEF isSafeText, safe_display_name
<1>6. isSafeText(x.desc, TRUE) BY <1>1, <1>2 DEF isSafeText, SubscriptionValid
<1>7. x.kind = IF s.url # Nil THEN "remote" ELSE "manual" BY <1>1 DEF Kinds, SourceKind
<1>8. isNullableInterval(x.interval) BY <1>1, <1>2 DEF isNullableInterval, SubscriptionValid, PolicyValid
<1>9. x.active <=> x.gen # Nil BY <1>1, <1>4
<1>10. x.interval # Nil => x.auto BY <1>1, <1>2 DEF SubShaped, Policies
<1>11. x.kind = "manual" => ~x.auto /\ x.interval = Nil /\ ~x.shareable
  <2>1. x.kind = "manual" => s.url = Nil BY <1>7
  <2>2. s.url = Nil => s.policy = ManualPolicy BY <1>2 DEF SubscriptionValid
  <2>3. ManualPolicy.auto = FALSE /\ ManualPolicy.interval = Nil BY DEF ManualPolicy
  <2> QED BY <1>1, <2>1, <2>2, <2>3
<1> QED BY <1>5, <1>6, <1>7, <1>8, <1>9, <1>10, <1>11, Zenon DEF parseSummary, x

\* What the page is told of the subscription i in the state a.
SettingsOf(a, i) == SubscriptionSettingsResponse(settings_for(a, i))
Options(s) == [timeout |-> s.request.timeout, proxy |-> s.request.proxy, tls |-> s.request.tls]
OptionsShown(s) == [timeout |-> s.request.timeout, proxy |-> ProxyModes[s.request.proxy], tls |-> s.request.tls]

\* What the response makes of the settings with these fields.
LEMMA ResponseFields ==
  ASSUME NEW i, NEW n, NEW d, NEW k, NEW p, NEW c, NEW q, NEW w, NEW v
  PROVE  LET x == SubscriptionSettingsResponse([id |-> i, name |-> n, desc |-> d, kind |-> k, preview |-> p,
                                                custom |-> c, request |-> q, policy |-> w, shareable |-> v])
         IN /\ x.name = n /\ x.desc = d /\ x.kind = Kinds[k] /\ x.preview = p /\ x.custom = c
            /\ x.request = (IF q = Nil THEN Nil ELSE RemoteRequestSettingsResponse(q))
            /\ x.policy = w /\ x.shareable = v
BY DEF SubscriptionSettingsResponse

\* A stored request is shown with its options and the name of its proxy mode.
LEMMA SettingsFields ==
  ASSUME NEW a, NEW i
  PROVE  LET s == a.subs[i]
             x == SettingsOf(a, i)
         IN /\ x.name = safe_display_name(s.name) /\ x.desc = s.desc /\ x.kind = Kinds[SourceKind(s)]
            /\ x.preview = (IF s.url = Nil THEN Nil ELSE safe_url_preview(s.url))
            /\ x.custom = (s.request # Nil /\ s.request.ua # Nil)
            /\ x.request = (IF s.request = Nil \/ Options(s) = Nil THEN Nil ELSE OptionsShown(s))
            /\ x.policy = s.policy /\ x.shareable = (s.url # Nil)
<1> DEFINE s == a.subs[i]
           n == safe_display_name(s.name)
           k == SourceKind(s)
           p == IF s.url = Nil THEN Nil ELSE safe_url_preview(s.url)
           q == IF s.request = Nil THEN Nil ELSE Options(s)
           c == s.request # Nil /\ s.request.ua # Nil
           v == s.url # Nil
           z == IF q = Nil THEN Nil ELSE RemoteRequestSettingsResponse(q)
           d == s.desc
           w == s.policy
           r == [id |-> i, name |-> n, desc |-> d, kind |-> k, preview |-> p, custom |-> c, request |-> q,
                 policy |-> w, shareable |-> v]
<1>1. SettingsOf(a, i) = SubscriptionSettingsResponse(r) BY DEF SettingsOf, settings_for, Options
<1>2. z = IF s.request = Nil \/ Options(s) = Nil THEN Nil ELSE OptionsShown(s)
  BY DEF RemoteRequestSettingsResponse, Options, OptionsShown
<1>3. LET x == SubscriptionSettingsResponse(r)
      IN /\ x.name = n /\ x.desc = d /\ x.kind = Kinds[k] /\ x.preview = p /\ x.custom = c /\ x.request = z
         /\ x.policy = w /\ x.shareable = v
  <2> HIDE DEF n, k, p, q, c, v, d, w
  <2> QED BY ResponseFields
<1> HIDE DEF z, r
<1> QED BY <1>1, <1>2, <1>3

\* The page reads them, but for a name with a control character.
LEMMA SettingsRead ==
  ASSUME NEW a, StateValid(a), StoreShaped(a), NEW i \in DOMAIN a.subs
  PROVE  /\ ViewShaped(SettingsOf(a, i))
         /\ a.subs[i].name # "tabbed" => parseSettings(SettingsOf(a, i))
<1> DEFINE s == a.subs[i]
           x == SettingsOf(a, i)
<1>1. /\ x.name = safe_display_name(s.name) /\ x.desc = s.desc /\ x.kind = Kinds[SourceKind(s)]
      /\ x.preview = (IF s.url = Nil THEN Nil ELSE safe_url_preview(s.url))
      /\ x.custom = (s.request # Nil /\ s.request.ua # Nil)
      /\ x.request = (IF s.request = Nil \/ Options(s) = Nil THEN Nil ELSE OptionsShown(s))
      /\ x.policy = s.policy /\ x.shareable = (s.url # Nil)
  BY SettingsFields
<1>2. SubShaped(s) /\ SubscriptionValid(s) BY DEF StoreShaped, StateValid
<1> HIDE DEF s, x
<1>3. x.kind = IF s.url # Nil THEN "remote" ELSE "manual" BY <1>1 DEF Kinds, SourceKind
<1>4. CASE s.url = Nil
  <2>1. s.request = Nil /\ s.policy = ManualPolicy BY <1>2, <1>4 DEF SubscriptionValid
  <2>2. ManualPolicy.auto = FALSE /\ ManualPolicy.interval = Nil BY DEF ManualPolicy
  <2>3. x.kind = "manual" /\ x.request = Nil /\ x.preview = Nil /\ ~x.custom /\ ~x.shareable
        /\ ~x.policy.auto /\ x.policy.interval = Nil /\ x.policy \in Policies
    BY <1>1, <1>2, <1>3, <1>4, <2>1, <2>2 DEF SubShaped
  <2>4. ViewShaped(x) BY <2>3 DEF ViewShaped
  <2>5. ASSUME s.name # "tabbed" PROVE parseSettings(x)
    <3>1. isSafeText(x.name, FALSE) BY <1>1, <2>5, Zenon DEF isSafeText, safe_display_name
    <3>2. isSafeText(x.desc, TRUE) BY <1>1, <1>2 DEF isSafeText, SubscriptionValid
    <3> QED BY <2>3, <3>1, <3>2 DEF parseSettings, isNullableInterval
  <2> QED BY <2>4, <2>5 DEF s, x
<1>5. CASE s.url # Nil
  <2>1. s.request # Nil /\ RequestValid(s.request) /\ PolicyValid(s.policy) BY <1>2, <1>5 DEF SubscriptionValid
  <2>2. s.request.timeout \in Nat /\ s.request.proxy \in DOMAIN ProxyModes /\ s.request.tls \in BOOLEAN
        /\ s.url \in PageUrls /\ s.policy \in Policies
    BY <1>2, <1>5 DEF SubShaped
  <2>3. ProxyModes[s.request.proxy] \in ProxyNames BY <2>2, ProxyFacts
  <2>4. Options(s) \in StoredViews /\ OptionsShown(s) \in RequestViews
    BY <2>2, <2>3 DEF Options, OptionsShown, StoredViews, RequestViews
  <2>5. Options(s) # Nil /\ OptionsShown(s) # Nil BY <2>4, ViewAssumption
  <2>6. x.request = OptionsShown(s) BY <1>1, <2>1, <2>5
  <2>7. x.kind = "remote" /\ x.request # Nil /\ x.request \in RequestViews /\ x.policy \in Policies
    BY <1>1, <1>3, <1>5, <2>2, <2>4, <2>5, <2>6
  <2>8. ViewShaped(x) BY <2>7 DEF ViewShaped
  <2>9. ASSUME s.name # "tabbed" PROVE parseSettings(x)
    <3>1. isSafeText(x.name, FALSE) BY <1>1, <2>9, Zenon DEF isSafeText, safe_display_name
    <3>2. isSafeText(x.desc, TRUE) BY <1>1, <1>2 DEF isSafeText, SubscriptionValid
    <3>3. x.preview # Nil => ~x.preview.query BY <1>1, <1>5, <2>2 DEF safe_url_preview, PageUrls
    <3>4. isNullableInterval(x.policy.interval) BY <1>1, <2>1 DEF isNullableInterval, PolicyValid
    <3>5. x.request.timeout \in 5..120 BY <2>1, <2>6 DEF RequestValid, OptionsShown
    <3>6. x.request.proxy \in {"direct", "system", "managedCore"} BY <2>3, <2>6 DEF OptionsShown, ProxyNames
    <3>7. x.policy.interval # Nil => x.policy.auto BY <2>7 DEF Policies
    <3> QED BY <2>7, <3>1, <3>2, <3>3, <3>4, <3>5, <3>6, <3>7 DEF parseSettings
  <2> QED BY <2>8, <2>9 DEF s, x
<1> QED BY <1>4, <1>5

\* The errors of the document commands are those that the page knows.
LEMMA DocumentErrors ==
  /\ \A e \in DOMAIN DocumentSaveError :
       DocumentSaveError[e] \in documentMessages \cup subscriptionErrors \cup activationErrors
  /\ \A e \in DOMAIN DocumentOperationError :
       DocumentOperationError[e] \in documentMessages \cup subscriptionErrors \cup activationErrors
  /\ \A e \in DOMAIN RunningConfigurationError :
       RunningConfigurationError[e] \in documentMessages \cup subscriptionErrors \cup activationErrors
<1>1. \A e \in DOMAIN DocumentOperationError :
        DocumentOperationError[e] \in documentMessages \cup subscriptionErrors \cup activationErrors
  BY DEF DocumentOperationError, documentMessages, subscriptionErrors, activationErrors
<1>2. \A e \in DOMAIN WorkerSaveError : WorkerSaveError[e] \in documentMessages \cup subscriptionErrors \cup activationErrors
  BY DEF WorkerSaveError, documentMessages, subscriptionErrors, activationErrors
<1>3. \A e \in DOMAIN RunningConfigurationError :
       RunningConfigurationError[e] \in documentMessages \cup subscriptionErrors \cup activationErrors
  BY DEF RunningConfigurationError, documentMessages, subscriptionErrors, activationErrors
<1> QED BY <1>1, <1>2, <1>3 DEF DocumentSaveError

\* What a save of a document is refused with has a name for the page.
LEMMA SaveErrorsKnown == SaveErrors \subseteq DOMAIN DocumentSaveError
<1>1. DOMAIN DocumentOperationError =
        {"InvalidInput", "ContentTooLarge", "FormatFailed", "ParseFailed", "UnsupportedNodes",
         "UnsupportedClashProviders", "NormalizationFailed", "ValidationFailed", "DocumentConflict",
         "DocumentUnavailable", "NotFound", "StateUnavailable", "SaveFailed", "Busy", "OperationTimedOut"}
  BY DEF DocumentOperationError
<1>2. DOMAIN WorkerSaveError = {"ConfigurationFailed", "IdentityFailed", "RecoveryRequired"} BY DEF WorkerSaveError
<1>3. DOMAIN DocumentSaveError = DOMAIN DocumentOperationError \cup DOMAIN WorkerSaveError BY DEF DocumentSaveError
<1>4. ASSUME NEW e \in {"Busy", "StateUnavailable", "NotFound"} PROVE map_document_subscription_error[e] = e
  <2>1. e \in DOMAIN SubscriptionErrorCode BY DEF SubscriptionErrorCode
  <2>2. e \in DOMAIN DocumentOperationError /\ e \notin {"InvalidInput", "InvalidOptions"} BY <1>1
  <2> QED BY <2>1, <2>2 DEF map_document_subscription_error
<1> HIDE DEF DocumentOperationError
<1> QED BY <1>1, <1>2, <1>3, <1>4
        DEF SaveErrors, map_document_parse_error, map_document_replacement_error, map_document_access_error

\* What is stored and shown once the outcome o of the call c is there.
OutcomeShown(c, o) ==
  /\ StoreShaped(o.app)
  /\ c.cmd \notin Writes \/ o.answer.status = "error" => o.app.subs = app.subs
  /\ \A i \in DOMAIN app.subs \cap DOMAIN o.app.subs :
       FieldsKept(app.subs[i], o.app.subs[i], IF c.cmd = "edit" /\ i = c.id THEN c.touched ELSE {})
  /\ c.cmd = "edit" /\ o.answer.status # "error" =>
       /\ DOMAIN o.app.subs = DOMAIN app.subs /\ c.id \in DOMAIN app.subs
       /\ \A i \in DOMAIN app.subs : i # c.id => o.app.subs[i] = app.subs[i]
       /\ o.app.subs[c.id].name # "tabbed" => Reads("edit", o.answer)
  /\ c.cmd = "settings" /\ o.answer.status # "error" =>
       c.id \in DOMAIN app.subs /\ o.answer.value = SettingsOf(app, c.id)
  /\ c.cmd = "share" /\ o.answer.status # "error" =>
       c.id \in DOMAIN app.subs /\ o.answer.value = app.subs[c.id].url /\ app.subs[c.id].url # Nil
  /\ (\A i \in DOMAIN o.app.subs : o.app.subs[i].name # "tabbed") => Reads(c.cmd, o.answer)

\* A refusal is shown, and nothing changes.
LEMMA DeclinedShown ==
  ASSUME StoreShaped(app), NEW c, c.cmd \in SubscriptionCommands, NEW o, Declined(app, o)
  PROVE  OutcomeShown(c, o)
<1>1. o.app = app /\ o.answer.status = "error" /\ o.answer.error \in subscriptionErrors BY DeclinedFacts
<1>2. c.cmd \notin {"document", "running", "save", "activate"} BY DEF SubscriptionCommands
<1>3. Reads(c.cmd, o.answer) BY <1>1, <1>2 DEF Reads
<1>4. \A i \in DOMAIN app.subs : \A t : FieldsKept(app.subs[i], app.subs[i], t) BY DEF FieldsKept
<1> QED BY <1>1, <1>3, <1>4 DEF OutcomeShown

\* So is a write, with what the page asked for.
LEMMA WrittenShown ==
  ASSUME StoreShaped(app), NEW c, c.cmd \in {"import", "edit", "update"}, NEW o, NEW i, NEW touched,
         WriteStored(app, o, i, touched), o.app.gen \in Nat,
         ~Declined(app, o) => /\ c.cmd = "import" => i \notin DOMAIN app.subs
                              /\ c.cmd # "import" => i \in DOMAIN app.subs /\ i = c.id
                              /\ touched = IF c.cmd = "edit" THEN c.touched ELSE {}
  PROVE  OutcomeShown(c, o)
<1>1. CASE Declined(app, o) BY <1>1, DeclinedShown DEF SubscriptionCommands
<1>2. CASE ~Declined(app, o)
  <2>1. Stores(app, o.app, i, touched) /\ Saves(o.app, o, i) BY <1>2 DEF WriteStored, Saves
  <2>2. StateValid(o.app) /\ o.answer = Ok(SubscriptionSummaryResponse(summary_for(o.app, i)))
    BY <2>1 DEF Saves
  <2>3. o.answer.status = "ok" /\ o.answer.value = SubscriptionSummaryResponse(summary_for(o.app, i))
    BY <2>2 DEF Ok
  <2>4. StoreShaped(o.app) /\ DOMAIN o.app.subs = DOMAIN app.subs \cup {i}
        /\ (\A j \in DOMAIN app.subs : j # i => o.app.subs[j] = app.subs[j])
        /\ (i \in DOMAIN app.subs => FieldsKept(app.subs[i], o.app.subs[i], touched))
    BY <2>1 DEF Stores
  <2>5. o.app.subs[i].name # "tabbed" => Reads(c.cmd, o.answer)
    <3>1. o.app.subs[i].name # "tabbed" => parseSummary(o.answer.value) BY <2>2, <2>3, <2>4, SummaryReads DEF StateValid
    <3> QED BY <2>3, <3>1 DEF Reads
  <2>6. ASSUME NEW j \in DOMAIN app.subs \cap DOMAIN o.app.subs
        PROVE  FieldsKept(app.subs[j], o.app.subs[j], IF c.cmd = "edit" /\ j = c.id THEN c.touched ELSE {})
    <3>1. \A t : FieldsKept(app.subs[j], app.subs[j], t) BY DEF FieldsKept
    <3> QED BY <1>2, <2>4, <3>1
  <2>7. i \in DOMAIN o.app.subs BY <2>4
  <2>8. c.cmd \in Writes BY DEF Writes
  <2> QED BY <1>2, <2>3, <2>4, <2>5, <2>6, <2>7, <2>8 DEF OutcomeShown
<1> QED BY <1>1, <1>2

\* The request of the call c is of the state it will change.
RequestFits(c) ==
  /\ c.cmd = "import" => ImportShaped(c.arg)
  /\ c.cmd = "edit" =>
       /\ EditShaped(c.arg) /\ c.arg.id = c.id
       /\ c.id \in DOMAIN app.subs => EditKeeps(c.arg, c.touched, app.subs[c.id])

\* A command that leaves the subscriptions, and answers what the page reads.
LEMMA KeptShown ==
  ASSUME StoreShaped(app), NEW c, c.cmd \in {"document", "save", "running"}, NEW o, o.app.subs = app.subs,
         (\A i \in DOMAIN o.app.subs : o.app.subs[i].name # "tabbed") => Reads(c.cmd, o.answer)
  PROVE  OutcomeShown(c, o)
<1>1. \A i \in DOMAIN app.subs : \A t : FieldsKept(app.subs[i], app.subs[i], t) BY DEF FieldsKept
<1>2. StoreShaped(o.app) BY DEF StoreShaped
<1> QED BY <1>1, <1>2 DEF OutcomeShown

\* The settings and the URL are read as they are stored.
LEMMA ReadShown ==
  ASSUME StateValid(app), StoreShaped(app), NEW c, c.cmd \in {"settings", "share"}, NEW o \in Outcomes(c)
  PROVE  OutcomeShown(c, o)
<1>1. ASSUME NEW E, E \subseteq DOMAIN SubscriptionErrorCode, o \in Refusals(app, E) PROVE OutcomeShown(c, o)
  BY <1>1, RefusalsDecline, DeclinedShown DEF SubscriptionCommands
<1>2. \A i \in DOMAIN app.subs : \A t : FieldsKept(app.subs[i], app.subs[i], t) BY DEF FieldsKept
<1>3. CASE c.cmd = "settings"
  <2>1. o \in get_settings(app, c.id) BY <1>3 DEF Outcomes, SubscriptionCommands, SubscriptionOutcomes
  <2>2. \/ o \in Refusals(app, map_access_error) \/ o \in Refusals(app, {"NotFound"})
        \/ c.id \in DOMAIN app.subs /\ o \in Answered(app, SettingsOf(app, c.id))
    BY <2>1, Zenon DEF get_settings, SettingsOf
  <2>3. ASSUME c.id \in DOMAIN app.subs, o \in Answered(app, SettingsOf(app, c.id)) PROVE OutcomeShown(c, o)
    <3>1. o.app = app /\ o.answer.status = "ok" /\ o.answer.value = SettingsOf(app, c.id) BY <2>3 DEF Answered, Ok
    <3>2. app.subs[c.id].name # "tabbed" => Reads(c.cmd, o.answer)
      <4>1. app.subs[c.id].name # "tabbed" => parseSettings(o.answer.value) BY <2>3, <3>1, SettingsRead
      <4> QED BY <1>3, <3>1, <4>1 DEF Reads
    <3> QED BY <1>2, <1>3, <2>3, <3>1, <3>2 DEF OutcomeShown, Writes
  <2> QED BY <1>1, <2>2, <2>3, ErrorSets
<1>4. CASE c.cmd = "share"
  <2>1. o \in share_url(app, c.id) BY <1>4 DEF Outcomes, SubscriptionCommands, SubscriptionOutcomes
  <2>2. \/ o \in Refusals(app, map_access_error) \/ o \in Refusals(app, {"NotFound"})
        \/ o \in Refusals(app, {"NotShareable"})
        \/ c.id \in DOMAIN app.subs /\ app.subs[c.id].url # Nil /\ o \in Answered(app, app.subs[c.id].url)
    BY <2>1, Zenon DEF share_url
  <2>3. ASSUME c.id \in DOMAIN app.subs, app.subs[c.id].url # Nil, o \in Answered(app, app.subs[c.id].url)
        PROVE  OutcomeShown(c, o)
    <3>1. o.app = app /\ o.answer.status = "ok" /\ o.answer.value = app.subs[c.id].url BY <2>3 DEF Answered, Ok
    <3>2. Reads(c.cmd, o.answer) BY <1>4, <3>1 DEF Reads
    <3> QED BY <1>2, <1>4, <2>3, <3>1, <3>2 DEF OutcomeShown, Writes
  <2> QED BY <1>1, <2>2, <2>3, ErrorSets
<1> QED BY <1>3, <1>4

\* A save tells what became of the core, in words that the page knows.
LEMMA SaveShown ==
  ASSUME used \in Nat, AppFormed(app, used), StateValid(app), StoreShaped(app), NEW c, c.cmd = "save", NEW o \in Outcomes(c)
  PROVE  OutcomeShown(c, o)
<1>1. o \in save_document(app, c.id) BY DEF Outcomes, SubscriptionCommands, DocumentOutcomes
<1>2. CASE o \in Unsaved(app, c.id)
  <2>1. PICK b, e : /\ o = [app |-> b, answer |-> Err(DocumentSaveError, e), event |-> FALSE] /\ e \in SaveErrors
                    /\ b \in {app, [app EXCEPT !.switch = Switch(0, "failed")],
                              [Lost(app) EXCEPT !.switch = Switch(0, "failed")]}
    BY <1>2 DEF Unsaved
  <2>2. SameState(app, b) BY <2>1, FailedFits
  <2>3. o.app.subs = app.subs BY <2>1, <2>2 DEF SameState
  <2>4. o.answer.status = "error" /\ o.answer.error = DocumentSaveError[e] BY <2>1 DEF Err
  <2>5. Reads(c.cmd, o.answer) BY <2>1, <2>4, DocumentErrors, SaveErrorsKnown DEF Reads, parseDocumentFailure
  <2> QED BY <2>3, <2>5, KeptShown
<1>3. ASSUME NEW m, SameState(app, m) \/ m.subs = app.subs, m.gen \in Nat, StateValid(m), c.id \in DOMAIN app.subs,
             NEW x, parseApply(x), o = SavedWith(m, c.id, x)
      PROVE  OutcomeShown(c, o)
  <2> DEFINE s == SubscriptionSummaryResponse(summary_for(m, c.id))
  <2>1. m.subs = app.subs BY <1>3 DEF SameState
  <2>2. o = [app |-> m, event |-> TRUE, answer |-> [status |-> "ok", value |-> [subscription |-> s, apply |-> x]]]
    BY <1>3 DEF SavedWith, Ok
  <2>3. StoreShaped(m) BY <2>1 DEF StoreShaped
  <2>4. m.subs[c.id].name # "tabbed" => parseSummary(s) BY <1>3, <2>1, <2>3, SummaryReads DEF StateValid
  <2> HIDE DEF s
  <2>5. m.subs[c.id].name # "tabbed" => Reads(c.cmd, o.answer) BY <1>3, <2>2, <2>4 DEF Reads
  <2>6. o.app = m BY <2>2
  <2> QED BY <1>3, <2>1, <2>5, <2>6, KeptShown
<1>4. parseApply("notRequired") /\ parseApply("ready") BY DEF parseApply
<1>5. \A e \in {"StopFailed", "StartFailed", "RecoveryRequired", "OperationTimedOut"} : parseApply(DocumentApplyError[e])
  BY DEF parseApply, DocumentApplyError
<1>6. CASE o \notin Unsaved(app, c.id)
  <2>1. c.id \in DOMAIN app.subs BY <1>1, <1>6 DEF save_document
  <2>2. CASE o = SavedWith(app, c.id, "notRequired") BY <1>3, <1>4, <2>1, <2>2 DEF AppFormed, SameState
  <2>3. ASSUME NEW n \in {app, next_generation(app)}, StateValid(n),
               \/ o = SavedWith(Ready(n, c.id, n.gen, 0), c.id, "ready")
               \/ o \in Unapplied(n, c.id)
        PROVE  OutcomeShown(c, o)
    <3>1. AppFormed(n, used) /\ n.gen \in Nat /\ n.subs = app.subs /\ c.id \in Ids
      BY <2>1, GenerationStep DEF AppFormed
    <3>2. CASE o = SavedWith(Ready(n, c.id, n.gen, 0), c.id, "ready")
      <4>1. AppFormed(Ready(n, c.id, n.gen, 0), used) /\ SameState(n, Ready(n, c.id, n.gen, 0))
        <5>1. 0 \in (0..used) \cup {Nil} OBVIOUS
        <5> QED BY <3>1, <5>1, ReadyStep, Zenon
      <4> DEFINE m == Ready(n, c.id, n.gen, 0)
      <4>2. m.subs = app.subs /\ m.gen \in Nat /\ StateValid(m) BY <2>3, <3>1, <4>1, SameIsValid DEF SameState
      <4> HIDE DEF m
      <4>3. o = SavedWith(m, c.id, "ready") BY <3>2 DEF m
      <4> QED BY <1>3, <1>4, <2>1, <4>2, <4>3
    <3>3. CASE o \in Unapplied(n, c.id)
      <4> DEFINE lost == [Lost(n) EXCEPT !.switch = Switch(0, "failed")]
                 late == [n EXCEPT !.switch = Switch(0, "failed")]
                 Of(m) == \E e \in {"StopFailed", "StartFailed", "RecoveryRequired", "OperationTimedOut"} :
                            o = SavedWith(m, c.id, DocumentApplyError[e])
      <4>0. Of(lost) \/ Of(late)
        <5>1. \/ \E e \in {"StopFailed", "StartFailed", "RecoveryRequired"} : o = SavedWith(lost, c.id, DocumentApplyError[e])
              \/ o = SavedWith(late, c.id, DocumentApplyError["OperationTimedOut"])
          BY <3>3, Zenon DEF Unapplied
        <5> HIDE DEF lost, late
        <5> QED BY <5>1
      <4>1. PICK m \in {n, late, lost}, e \in {"StopFailed", "StartFailed", "RecoveryRequired", "OperationTimedOut"} :
              o = SavedWith(m, c.id, DocumentApplyError[e])
        <5> HIDE DEF lost, late
        <5> QED BY <4>0
      <4>2. StateValid(m) /\ SameState(n, m) BY <2>3, <3>1, <4>1, FailedFits
      <4>3. m.subs = app.subs /\ m.gen \in Nat BY <3>1, <4>2 DEF SameState
      <4> DEFINE x == DocumentApplyError[e]
      <4>4. parseApply(x) /\ o = SavedWith(m, c.id, x) BY <1>5, <4>1
      <4> HIDE DEF x
      <4> QED BY <1>3, <2>1, <4>2, <4>3, <4>4
    <3> QED BY <2>3, <3>2, <3>3
  <2>4. \/ o = SavedWith(app, c.id, "notRequired")
        \/ \E n \in {app, next_generation(app)} :
             StateValid(n) /\ (o = SavedWith(Ready(n, c.id, n.gen, 0), c.id, "ready") \/ o \in Unapplied(n, c.id))
    BY <1>1, <1>6, <2>1 DEF save_document
  <2> QED BY <2>2, <2>3, <2>4
<1> QED BY <1>2, <1>6

\* Every command, but activate_subscription, leaves and answers what can be shown.
LEMMA OutcomesShown ==
  ASSUME used \in Nat, AppFormed(app, used), StateValid(app), StoreShaped(app),
         NEW c, c.cmd \in Commands, c.cmd # "activate", RequestFits(c), NEW o \in Outcomes(c)
  PROVE  OutcomeShown(c, o)
<1>1. o.app.gen \in Nat
  <2>1. OutcomeFits(app, o) BY OutcomesFit DEF PerformFits
  <2> QED BY <2>1 DEF OutcomeFits, AppFormed
<1>2. CASE c.cmd \in {"settings", "share"} BY <1>2, ReadShown
<1>3. CASE c.cmd = "save" BY <1>3, SaveShown
<1>4. CASE c.cmd = "import"
  <2>1. PICK x \in Ids : o \in import_with_options(app, c.arg, x)
    BY <1>4 DEF Outcomes, SubscriptionCommands, SubscriptionOutcomes
  <2>2. WriteStored(app, o, x, {}) /\ (~Declined(app, o) => x \notin DOMAIN app.subs)
    BY <1>4, <2>1, ImportStores DEF RequestFits
  <2> QED BY <1>1, <1>4, <2>2, WrittenShown
<1>5. CASE c.cmd = "edit"
  <2> DEFINE r == c.arg
             t == c.touched
  <2>1. o \in edit(app, r) BY <1>5 DEF Outcomes, SubscriptionCommands, SubscriptionOutcomes
  <2>2. EditShaped(r) /\ r.id = c.id /\ (r.id \in DOMAIN app.subs => EditKeeps(r, t, app.subs[r.id]))
    BY <1>5 DEF RequestFits
  <2> HIDE DEF r, t
  <2>3. WriteStored(app, o, r.id, t) /\ (~Declined(app, o) => r.id \in DOMAIN app.subs)
    BY <2>1, <2>2, EditStores
  <2>4. WriteStored(app, o, c.id, t) /\ (~Declined(app, o) => c.id \in DOMAIN app.subs) BY <2>2, <2>3
  <2>5. t = IF c.cmd = "edit" THEN c.touched ELSE {} BY <1>5 DEF t
  <2> QED BY <1>1, <1>5, <2>4, <2>5, WrittenShown
<1>6. CASE c.cmd = "update"
  <2>1. o \in update_with_route(app, c.id, c.arg) BY <1>6 DEF Outcomes, SubscriptionCommands, SubscriptionOutcomes
  <2>2. WriteStored(app, o, c.id, {}) /\ (~Declined(app, o) => c.id \in DOMAIN app.subs) BY <2>1, UpdateStores
  <2> QED BY <1>1, <1>6, <2>2, WrittenShown
<1>7. CASE c.cmd = "delete"
  <2>1. o \in delete(app, c.id) BY <1>7 DEF Outcomes, SubscriptionCommands, SubscriptionOutcomes
  <2>2. CASE Declined(app, o) BY <1>7, <2>2, DeclinedShown DEF SubscriptionCommands
  <2>3. CASE /\ StoreShaped(o.app) /\ DOMAIN o.app.subs = DOMAIN app.subs \ {c.id}
             /\ \A j \in DOMAIN o.app.subs : o.app.subs[j] = app.subs[j]
             /\ o.answer.status = "ok" /\ o.event
    <3>1. \A i \in DOMAIN app.subs : \A t : FieldsKept(app.subs[i], app.subs[i], t) BY DEF FieldsKept
    <3>2. Reads(c.cmd, o.answer) BY <1>7, <2>3 DEF Reads
    <3> QED BY <1>7, <2>3, <3>1, <3>2 DEF OutcomeShown, Writes
  <2> QED BY <2>1, <2>2, <2>3, DeleteLeaves
<1>8. CASE c.cmd = "document"
  <2>1. o \in read_document(app, c.id) BY <1>8 DEF Outcomes, SubscriptionCommands, DocumentOutcomes
  <2>2. \A e \in map_document_access_error \cup {"DocumentUnavailable", "NotFound"} :
          DocumentOperationError[e] \in documentMessages \cup subscriptionErrors \cup activationErrors
    <3>1. map_document_access_error \cup {"DocumentUnavailable", "NotFound"} \subseteq DOMAIN DocumentOperationError
      BY DEF map_document_access_error, DocumentOperationError
    <3> QED BY <3>1, DocumentErrors
  <2>3. \/ \E e \in map_document_access_error \cup {"DocumentUnavailable", "NotFound"} :
             o = [app |-> app, answer |-> Err(DocumentOperationError, e), event |-> FALSE]
        \/ o \in Answered(app, c.id)
    BY <2>1 DEF read_document
  <2>4. o.app = app /\ Reads(c.cmd, o.answer)
    BY <1>8, <2>2, <2>3 DEF Err, Answered, Ok, Reads, parseDocumentFailure
  <2> QED BY <1>8, <2>4, KeptShown
<1>9. CASE c.cmd = "running"
  <2>1. o \in running_configuration(app) BY <1>9 DEF Outcomes, SubscriptionCommands, DocumentOutcomes
  <2>2. \A e \in {"Busy", "RecoveryRequired", "ContentTooLarge", "NotRunning"} :
          RunningConfigurationError[e] \in documentMessages \cup subscriptionErrors \cup activationErrors
    <3>1. {"Busy", "RecoveryRequired", "ContentTooLarge", "NotRunning"} \subseteq DOMAIN RunningConfigurationError
      BY DEF RunningConfigurationError
    <3> QED BY <3>1, DocumentErrors
  <2>3. \/ \E e \in {"Busy", "RecoveryRequired", "ContentTooLarge", "NotRunning"} :
             o = [app |-> app, answer |-> Err(RunningConfigurationError, e), event |-> FALSE]
        \/ o \in Answered(app, app.applied)
    BY <2>1 DEF running_configuration
  <2>4. o.app = app /\ Reads(c.cmd, o.answer)
    BY <1>9, <2>2, <2>3 DEF Err, Answered, Ok, Reads, parseDocumentFailure
  <2> QED BY <1>9, <2>4, KeptShown
<1> QED BY <1>2, <1>3, <1>4, <1>5, <1>6, <1>7, <1>8, <1>9 DEF Commands, Exclusive, Writes

-----------------------------------------------------------------------------
(* What a step leaves *)

Batches == {"all", "selected"}
InEdit(d) == d # Nil /\ d.mode = "edit"

\* A call that a step makes or answers, and that no dialog reads with.
CallFine(c) ==
  /\ c.cmd \notin {"settings", "share"}
  /\ c.answer = NoAnswer => RequestFits(c)
  /\ c.cmd \in Writes => /\ page'.pending \in Batches => c.cmd \in {"update", "delete"}
                         /\ InEdit(dialog') => c.cmd = "edit"
CallsFine == \A c \in calls' : c \in calls \/ CallFine(c)
BatchKept == page'.pending \in Batches => page'.pending = page.pending \/ \A c \in calls : c.cmd \notin Writes

\* The part of ReadingsFit that is about the calls.
ReadingsApart ==
  /\ \A c \in Readings : c.owner <= epoch
  /\ \A c, d \in Readings : c.owner = d.owner => c = d
  /\ \A c \in Readings :
       /\ c.cmd = "settings" /\ c.answer.status = "ok" => ViewShaped(c.answer.value)
       /\ c.cmd = "share" /\ c.answer.status = "ok" => c.answer.value \in PageUrls
       /\ c.cmd = "share" /\ c.arg # Nil => ViewShaped(c.arg) /\ c.arg.kind = "remote"

\* What is stored keeps its shape, and requests keep fitting it.
LEMMA SameShaped ==
  ASSUME NEW a, NEW b, SameSubs(a, b), StoreShaped(a)
  PROVE  StoreShaped(b) /\ \A i \in DOMAIN a.subs : SettingsOf(b, i) = SettingsOf(a, i)
<1>1. StoreShaped(b)
  <2>1. ASSUME NEW i \in DOMAIN b.subs PROVE SubShaped(b.subs[i])
    <3> DEFINE s == a.subs[i]
               n == b.subs[i]
    <3>1. SubShaped(s) /\ SameFields(s, n) BY DEF StoreShaped, SameSubs
    <3> HIDE DEF s, n
    <3>2. SubShaped(n) BY <3>1 DEF SubShaped, SameFields
    <3> QED BY <3>2 DEF n
  <2> QED BY <2>1 DEF StoreShaped
<1>2. ASSUME NEW i \in DOMAIN a.subs PROVE settings_for(b, i) = settings_for(a, i)
  BY DEF settings_for, SourceKind, SameSubs, SameFields
<1> QED BY <1>1, <1>2 DEF SettingsOf

\* A request keeps what it kept, while the fields are the same.
LEMMA SameKeeps ==
  ASSUME NEW s, NEW n, SameFields(s, n), NEW r, NEW t, EditKeeps(r, t, s)
  PROVE  EditKeeps(r, t, n)
BY DEF EditKeeps, SameFields

\* A form shows what it showed, while the fields are the same.
LEMMA SameEditShows ==
  ASSUME NEW s, NEW n, SameFields(s, n), NEW d, EditShows(d, s)
  PROVE  EditShows(d, n)
BY DEF EditShows, SameFields

\* What the calls are about.
LEMMA CallsFrame ==
  ASSUME ShownIInv, SameSubs(app, app'), epoch \in Nat, epoch' \in Nat, epoch <= epoch', CallsFine, BatchKept,
         \A c \in calls : c.owner \in Nat
  PROVE  StoreShaped(app)' /\ RequestsFit' /\ BatchFits' /\ ReadingsApart'
<1>i. StoreShaped(app) /\ RequestsFit /\ BatchFits /\ ReadingsFit BY DEF ShownIInv
<1>1. StoreShaped(app') BY <1>i, SameShaped
<1>2. ASSUME NEW c \in calls', c.answer = NoAnswer, c.cmd = "import" PROVE ImportShaped(c.arg)
  BY <1>i, <1>2 DEF RequestsFit, CallsFine, CallFine, RequestFits
<1>3. ASSUME NEW c \in calls', c.answer = NoAnswer, c.cmd = "edit"
      PROVE  EditShaped(c.arg) /\ c.arg.id = c.id /\
             (c.id \in DOMAIN app'.subs => EditKeeps(c.arg, c.touched, app'.subs[c.id]))
  <2>1. EditShaped(c.arg) /\ c.arg.id = c.id /\ (c.id \in DOMAIN app.subs => EditKeeps(c.arg, c.touched, app.subs[c.id]))
    BY <1>i, <1>3 DEF RequestsFit, CallsFine, CallFine, RequestFits
  <2>2. c.id \in DOMAIN app'.subs => c.id \in DOMAIN app.subs /\ SameFields(app.subs[c.id], app'.subs[c.id])
    BY DEF SameSubs
  <2> QED BY <2>1, <2>2, SameKeeps
<1>4. RequestsFit' BY <1>2, <1>3 DEF RequestsFit
<1>5. BatchFits' BY <1>i DEF BatchFits, CallsFine, CallFine, BatchKept, Batches
<1>6. Readings' \subseteq Readings BY DEF Readings, CallsFine, CallFine
<1>7. ReadingsApart'
  <2>1. \A c \in Readings : c.owner \in Nat BY DEF Readings
  <2> QED BY <1>i, <1>6, <2>1 DEF ReadingsFit, ReadingsApart
<1> QED BY <1>1, <1>4, <1>5, <1>7

\* What the dialog is about, when it is the same, sent or not.
DialogKept ==
  /\ dialog' = dialog \/ (dialog # Nil /\ dialog' = [dialog EXCEPT !.sent = TRUE])
  /\ InEdit(dialog) =>
       /\ \A c \in calls : c.cmd = "edit" /\ c.answer.status = "ok" => c \in calls'
       /\ \/ page'.pending \in {page.pending, Nil}
          \/ page'.pending = "dialog" /\ ~dialog.loading /\ dialog'.sent

FormFilled == dialog # Nil /\ dialog.mode = "edit" /\ ~dialog.loading => \A c \in Readings : c.owner # epoch

\* What the dialogs are about.
LEMMA DialogFrame ==
  ASSUME ShownIInv, DialogFormed, SameSubs(app, app'), epoch' = epoch, CallsFine, DialogKept
  PROVE  ReadingsTrue' /\ DialogShaped' /\ DialogTrue' /\ FormFilled'
<1>i. StoreShaped(app) /\ ReadingsFit /\ ReadingsTrue /\ DialogShaped /\ DialogTrue BY DEF ShownIInv
<1>1. Readings' \subseteq Readings BY DEF Readings, CallsFine, CallFine
<1>2. CASE dialog' = Nil BY <1>2 DEF ReadingsTrue, DialogShaped, DialogTrue, FormFilled
<1>3. CASE dialog' # Nil
  <2>1. dialog # Nil BY <1>3 DEF DialogKept
  <2> DEFINE d == dialog
             e == dialog'
  <2>2. /\ e.mode = d.mode /\ e.id = d.id /\ e.loading = d.loading /\ e.form = d.form /\ e.original = d.original
        /\ e.touched = d.touched /\ e.share = d.share /\ e.sent \in {d.sent, TRUE}
    BY <2>1 DEF DialogKept, DialogFormed
  <2>3. DOMAIN app'.subs = DOMAIN app.subs /\ \A i \in DOMAIN app.subs : SameFields(app.subs[i], app'.subs[i])
    BY DEF SameSubs
  <2>4. FormFilled' BY <1>i, <1>1, <2>1, <2>2 DEF ReadingsFit, FormFilled
  <2>5. \A i \in DOMAIN app.subs : View(i)' = View(i) /\ app'.subs[i].url = app.subs[i].url
    BY <1>i, <2>3, SameShaped DEF View, SettingsOf, SameFields
  <2>6. ReadingsTrue' BY <1>i, <1>1, <2>1, <2>2, <2>3, <2>5 DEF ReadingsTrue
  <2>7. DialogShaped'
    <3>1. FormShaped(e.form) /\ {e.loading, e.sent} \subseteq BOOLEAN /\ (e.share # Nil => e.mode = "qr")
          /\ (e.mode \in {"create", "edit"} => e.form.kind \in {"remote", "manual"})
      BY <1>i, <2>1, <2>2 DEF DialogShaped
    <3>2. ASSUME e.mode = "edit"
          PROVE  /\ page'.pending \in {Nil, "dialog"}
                 /\ page'.pending = "dialog" => ~e.loading /\ e.sent
                 /\ \A c \in calls' : c.cmd \in Writes => c.cmd = "edit"
      <4>1. /\ page.pending \in {Nil, "dialog"}
            /\ page.pending = "dialog" => ~d.loading /\ d.sent
            /\ \A c \in calls : c.cmd \in Writes => c.cmd = "edit"
        BY <1>i, <2>1, <2>2, <3>2 DEF DialogShaped
      <4>2. \/ page'.pending \in {page.pending, Nil}
            \/ page'.pending = "dialog" /\ ~d.loading /\ e.sent
        BY <2>1, <2>2, <3>2 DEF DialogKept, InEdit
      <4>3. \A c \in calls' : c.cmd \in Writes => c.cmd = "edit"
        BY <1>3, <3>2, <4>1 DEF CallsFine, CallFine, InEdit
      <4>4. d.sent = TRUE => e.sent BY <2>2
      <4>5. d.sent \in BOOLEAN BY <1>i, <2>1 DEF DialogShaped
      <4>6. "dialog" # Nil BY DEF Pendings
      <4> QED BY <2>2, <4>1, <4>2, <4>3, <4>4, <4>5, <4>6
    <3> HIDE DEF e
    <3> QED BY <3>1, <3>2 DEF DialogShaped, e
  <2>8. DialogTrue'
    <3> SUFFICES ASSUME e.id \in DOMAIN app'.subs
                 PROVE  /\ e.share # Nil => e.share = app'.subs[e.id].url
                        /\ e.mode = "edit" /\ ~e.loading =>
                             \/ EditShows(e, app'.subs[e.id])
                             \/ e.sent /\ app'.subs[e.id].name = "tabbed"
                             \/ \E c \in calls' : c.cmd = "edit" /\ c.answer.status = "ok"
      BY DEF DialogTrue
    <3> DEFINE s == app.subs[d.id]
               n == app'.subs[d.id]
    <3>1. /\ d.share # Nil => d.share = s.url
          /\ d.mode = "edit" /\ ~d.loading =>
               \/ EditShows(d, s)
               \/ d.sent /\ s.name = "tabbed"
               \/ \E c \in calls : c.cmd = "edit" /\ c.answer.status = "ok"
      BY <1>i, <2>1, <2>2, <2>3 DEF DialogTrue
    <3>2. SameFields(s, n) BY <2>2, <2>3
    <3>3. ASSUME EditShows(d, s) PROVE EditShows(e, n)
      <4>1. EditShows(d, n) BY <3>2, <3>3, SameEditShows
      <4> HIDE DEF d, e, n
      <4> QED BY <2>2, <4>1 DEF EditShows
    <3>4. n.url = s.url /\ n.name = s.name BY <3>2 DEF SameFields
    <3>5. InEdit(d) => \A c \in calls : c.cmd = "edit" /\ c.answer.status = "ok" => c \in calls' BY DEF DialogKept
    <3>6. d.mode = "edit" => InEdit(d) BY <2>1 DEF InEdit
    <3>7. d.sent => e.sent BY <2>2
    <3> HIDE DEF d, e, s
    <3> QED BY <2>2, <3>1, <3>3, <3>4, <3>5, <3>6, <3>7
  <2> QED BY <2>4, <2>6, <2>7, <2>8
<1> QED BY <1>2, <1>3

\* A step that leaves what is stored and the dialog.
LEMMA ShownFrame ==
  ASSUME LocksIInv, ShownIInv, SameSubs(app, app'), epoch' = epoch, CallsFine, BatchKept, DialogKept
  PROVE  ShownIInv'
<1>1. DialogFormed /\ epoch \in Nat /\ \A c \in calls : c.owner \in Nat
  BY DEF LocksIInv, Formed, DialogFormed, CallFormed
<1>2. StoreShaped(app)' /\ RequestsFit' /\ BatchFits' /\ ReadingsApart' BY <1>1, CallsFrame
<1>3. ReadingsTrue' /\ DialogShaped' /\ DialogTrue' /\ FormFilled' BY <1>1, DialogFrame
<1>4. ReadingsFit' BY <1>2, <1>3 DEF ReadingsFit, ReadingsApart, FormFilled
<1> QED BY <1>2, <1>3, <1>4 DEF ShownIInv

\* A step that closes the dialog.
LEMMA ClosedShown ==
  ASSUME LocksIInv, ShownIInv, app' = app, dialog' = Nil, epoch' \in Nat, epoch <= epoch', CallsFine, BatchKept
  PROVE  ShownIInv'
<1>1. epoch \in Nat /\ \A c \in calls : c.owner \in Nat
  BY DEF LocksIInv, Formed, DialogFormed, CallFormed
<1>2. SameSubs(app, app') BY DEF SameSubs, SameFields
<1>3. StoreShaped(app)' /\ RequestsFit' /\ BatchFits' /\ ReadingsApart' BY <1>1, <1>2, CallsFrame
<1>4. ReadingsTrue' /\ DialogShaped' /\ DialogTrue' BY DEF ReadingsTrue, DialogShaped, DialogTrue
<1>5. ReadingsFit' BY <1>3 DEF ReadingsFit, ReadingsApart
<1> QED BY <1>3, <1>4, <1>5 DEF ShownIInv

-----------------------------------------------------------------------------
(* The steps that leave the subscriptions and the dialog *)

\* The commands that write no subscription, and that no dialog reads with.
QuietCommands == {"activate", "document", "running", "save"}
QuietStep ==
  /\ app'.subs = app.subs /\ UNCHANGED <<dialog, epoch>>
  /\ \A c \in calls' : c \in calls \/ c.cmd \in QuietCommands
  /\ \A c \in calls : c \in calls' \/ c.cmd \in QuietCommands
  /\ page'.pending \in {page.pending, Nil} \/ (dialog = Nil /\ page'.pending \notin Batches)

\* They leave what is shown.
LEMMA QuietShown == ASSUME LocksIInv, ShownIInv, QuietStep PROVE ShownIInv'
<1>1. SameSubs(app, app') /\ epoch' = epoch BY DEF QuietStep, SameSubs, SameFields
<1>2. CallsFine BY DEF QuietStep, CallsFine, CallFine, QuietCommands, RequestFits, Writes
<1>3. BatchKept BY DEF QuietStep, BatchKept, Batches, Pendings
<1>4. DialogKept BY DEF QuietStep, DialogKept, InEdit, QuietCommands
<1> QED BY <1>1, <1>2, <1>3, <1>4, ShownFrame

\* The list, and what the activation tells.
LEMMA ListQuiet == ASSUME LocksIInv, PerformList \/ Load \/ AnswerList PROVE QuietStep
<1>1. page'.pending = page.pending
  BY DEF LocksIInv, Formed, PageFormed, PerformList, Load, AnswerList
<1>2. UNCHANGED <<app, calls, dialog, epoch>> BY DEF PerformList, Load, AnswerList
<1> QED BY <1>1, <1>2 DEF QuietStep

\* A call of activate_subscription is answered, or waits for the worker.
LEMMA ActivationQuiet ==
  ASSUME LocksIInv, RefuseActivation \/ AlreadyCurrent \/ SendActivation \/ ResponseTimeout PROVE QuietStep
<1>1. UNCHANGED <<app, page, dialog, epoch>>
  BY Zenon DEF RefuseActivation, AlreadyCurrent, SendActivation, ResponseTimeout
<1>2. PICK c \in Activations : (\E x : AnswerCall(c, x)) \/ calls' = (calls \ {c}) \cup {[c EXCEPT !.waits = TRUE]}
  BY Zenon DEF RefuseActivation, AlreadyCurrent, SendActivation, ResponseTimeout
<1>3. PICK x : calls' = (calls \ {c}) \cup {[c EXCEPT !.answer = x]}
                 \/ calls' = (calls \ {c}) \cup {[c EXCEPT !.waits = TRUE]}
  BY <1>2 DEF AnswerCall
<1>4. c \in calls /\ c.cmd = "activate" /\ CallFormed(c, used) BY DEF Activations, LocksIInv, Formed
<1>5. [c EXCEPT !.answer = x].cmd = "activate" /\ [c EXCEPT !.waits = TRUE].cmd = "activate"
  BY <1>4, CallFields
<1> QED BY <1>1, <1>3, <1>4, <1>5 DEF QuietStep, QuietCommands

\* The worker records what it does, and answers the call that waits.
LEMMA WorkQuiet ==
  ASSUME LocksIInv, WorkQueued \/ WorkGivenUp \/ WorkPersisted \/ WorkApplied PROVE QuietStep
<1>i. used \in Nat /\ AppFormed(app, used) BY DEF LocksIInv, Formed
<1>1. work # Nil /\ UNCHANGED <<page, dialog, epoch>>
  BY Zenon DEF WorkQueued, WorkGivenUp, WorkPersisted, WorkApplied
<1>2. work.op \in Nat /\ work.op <= used BY <1>1, WorkHeld
<1>3. calls' = calls \/ \E a : Respond(a)
  BY Zenon DEF WorkQueued, WorkGivenUp, WorkPersisted, WorkApplied, Fail
<1> DEFINE CallsGo == /\ \A c \in calls' : c \in calls \/ c.cmd = "activate"
                    /\ \A c \in calls : c \in calls' \/ c.cmd = "activate"
<1>4. CallsGo
  <2>1. ASSUME NEW a, Respond(a) PROVE CallsGo
    <3>1. \/ calls' = calls
          \/ \E c \in calls : /\ c.cmd = "activate"
                              /\ calls' = (calls \ {c}) \cup {[c EXCEPT !.answer = Received("activate", a)]}
      BY <1>1, <2>1, RespondCases
    <3>2. ASSUME NEW c \in calls, c.cmd = "activate",
                 calls' = (calls \ {c}) \cup {[c EXCEPT !.answer = Received("activate", a)]}
          PROVE  CallsGo
      <4> DEFINE d == [c EXCEPT !.answer = Received("activate", a)]
      <4>1. d.cmd = "activate"
        <5>1. CallFormed(c, used) BY DEF LocksIInv, Formed
        <5> QED BY <3>2, <5>1, CallFields
      <4>2. calls' = (calls \ {c}) \cup {d} BY <3>2
      <4> HIDE DEF d
      <4> QED BY <3>2, <4>1, <4>2
    <3> QED BY <3>1, <3>2
  <2> QED BY <1>3, <2>1
<1>5. app'.subs = app.subs
  <2> DEFINE Steps(a) == \E status \in {"queued", "applying", "cancelled", "failed", "ready"} : app' = SwitchTo(a, status)
  <2>1. ASSUME NEW a, AppFormed(a, used), a.subs = app.subs, Steps(a) PROVE app'.subs = app.subs
    BY <1>i, <1>2, <2>1, SwitchToStep DEF SameState
  <2>2. CASE WorkQueued
    <3>1. Steps(app) BY <2>2 DEF WorkQueued
    <3> HIDE DEF Steps
    <3> QED BY <1>i, <2>1, <3>1
  <2>3. CASE WorkGivenUp
    <3> DEFINE lost == Lost(app)
    <3>1. Steps(app) \/ Steps(lost) BY <2>3 DEF WorkGivenUp
    <3>2. AppFormed(lost, used) /\ lost.subs = app.subs BY <1>i, StopSteps DEF SameState
    <3> HIDE DEF Steps, lost
    <3> QED BY <1>i, <2>1, <3>1, <3>2
  <2>4. CASE WorkPersisted
    <3> DEFINE b == [app EXCEPT !.active = work.id]
               n == next_generation(b)
    <3>1. Steps(app) \/ Steps(n) BY <2>4 DEF WorkPersisted
    <3>2. AppFormed(b, used) /\ b.subs = app.subs
      <4>1. work.id \in Ids BY <1>1 DEF LocksIInv, WorkFits, Works
      <4> QED BY <1>i, <4>1, SelectStep
    <3> HIDE DEF b
    <3>3. AppFormed(n, used) /\ n.subs = app.subs BY <3>2, GenerationStep
    <3> HIDE DEF Steps, n
    <3> QED BY <1>i, <2>1, <3>1, <3>3
  <2>5. CASE WorkApplied
    <3>1. CASE app' = Ready(app, app.active, app.gen, work.op)
      <4>1. app' = [app EXCEPT !.life = "ready", !.applied = [id |-> app.active, gen |-> app.gen],
                               !.switch = IF work.op = Nil THEN Nil ELSE Switch(work.op, "ready")]
        BY <3>1 DEF Ready
      <4> QED BY <1>i, <4>1 DEF AppFormed
    <3>2. ASSUME NEW l \in {"stopped", "recovery"}, app' = SwitchTo([Lost(app) EXCEPT !.life = l], "failed")
          PROVE  app'.subs = app.subs
      <4> DEFINE lost == [Lost(app) EXCEPT !.life = l]
      <4>1. AppFormed(lost, used) /\ lost.subs = app.subs BY <1>i, StopSteps DEF SameState
      <4>2. Steps(lost) BY <3>2
      <4> HIDE DEF Steps, lost
      <4> QED BY <2>1, <4>1, <4>2
    <3> QED BY <2>5, <3>1, <3>2 DEF WorkApplied
  <2> QED BY <2>2, <2>3, <2>4, <2>5
<1> QED BY <1>1, <1>4, <1>5 DEF QuietStep, QuietCommands

\* The core moves.
LEMMA CoreQuiet == ASSUME LocksIInv, CoreMoves PROVE QuietStep
<1>i. AppFormed(app, used) BY DEF LocksIInv, Formed
<1>1. UNCHANGED <<calls, page, dialog, epoch>> BY DEF CoreMoves, Around
<1>2. \/ app' = Lost(app) \/ app' = Stopped(app)
      \/ \E op : app' = Ready(app, app.active, app.gen, op)
      \/ \E s : app' = [app EXCEPT !.switch = s]
  BY Zenon DEF CoreMoves
<1>3. app'.subs = app.subs
  <2>1. CASE app' = Lost(app) BY <1>i, <2>1 DEF Lost, AppFormed
  <2>2. CASE app' = Stopped(app) BY <1>i, <2>2 DEF Stopped, AppFormed
  <2>3. ASSUME NEW op, app' = Ready(app, app.active, app.gen, op) PROVE app'.subs = app.subs
    BY <1>i, <2>3 DEF Ready, AppFormed
  <2>4. ASSUME NEW s, app' = [app EXCEPT !.switch = s] PROVE app'.subs = app.subs BY <1>i, <2>4 DEF AppFormed
  <2> QED BY <1>2, <2>1, <2>2, <2>3, <2>4
<1> QED BY <1>1, <1>3 DEF QuietStep

\* The effects of an observation end what is pending, or leave it.
LEMMA SettleQuiet ==
  ASSUME LocksIInv, app' = app, UNCHANGED <<dialog, epoch>>, NEW p, DOMAIN p = DOMAIN page, p.pending = page.pending,
         NEW o, page' = Settled(p, o),
         \A c \in calls' : c \in calls, \A c \in calls : c \in calls' \/ c.cmd \in QuietCommands
  PROVE  QuietStep
<1>1. Formed BY DEF LocksIInv
<1>2. Settled(p, o).pending \in {page.pending, Nil} BY <1>1, SettledFacts
<1> QED BY <1>2 DEF QuietStep

\* The observation arrives, and so does the answer of an activation.
LEMMA ObserveQuiet == ASSUME LocksIInv, Observe PROVE QuietStep
<1>1. page' = Settled(page, seen') /\ UNCHANGED <<app, calls, dialog, epoch>> BY Zenon DEF Observe, Settle
<1> DEFINE o == seen'
<1>2. page' = Settled(page, o) BY <1>1
<1> HIDE DEF o
<1> QED BY <1>1, <1>2, SettleQuiet

\* The answer of an activation.
LEMMA AnswerActivateQuiet == ASSUME LocksIInv, AnswerActivate PROVE QuietStep
<1>i. Formed /\ LocksFit /\ ActivationFits BY DEF LocksIInv
<1>1. PICK c \in calls :
        /\ c.cmd = "activate" /\ calls' = calls \ {c} /\ UNCHANGED <<app, dialog, epoch>>
        /\ \/ page' = [page EXCEPT !.pending = Nil, !.awaiting = Nil]
           \/ \E w : page' = Settled([page EXCEPT !.awaiting = w], seen)
           \/ c.answer.status = "ok" /\ \E w : page' =
                                     Settled([upsert(page, c.answer.value.subscription) EXCEPT !.awaiting = w], seen)
  <2>1. PICK c \in calls : /\ c.cmd = "activate" /\ c.answer # NoAnswer
                           /\ calls' = calls \ {c} /\ UNCHANGED <<app, dialog, epoch>>
                           /\ \/ page' = [page EXCEPT !.pending = Nil, !.awaiting = Nil]
                              \/ c.answer.status = "pending" /\ page' =
                                       Settled([page EXCEPT !.awaiting = Awaiting(c.id, c.owner, FALSE, 0)], seen)
                              \/ /\ Succeeded(c.answer) /\ c.answer.status # "pending"
                                 /\ page' = Settled([upsert(page, c.answer.value.subscription) EXCEPT
                                              !.awaiting = Awaiting(c.id, c.answer.value.op,
                                                            c.answer.value.current, c.answer.value.gen)], seen)
    BY DEF AnswerActivate, Settle
  <2>2. c.answer.status \in {"error", "pending", "ok"} BY <1>i, <2>1 DEF Formed, CallFormed, AnswerFormed
  <2>3. CASE page' = [page EXCEPT !.pending = Nil, !.awaiting = Nil] BY <2>1, <2>3
  <2>4. CASE c.answer.status = "pending" /\ page' =
             Settled([page EXCEPT !.awaiting = Awaiting(c.id, c.owner, FALSE, 0)], seen)
    BY <2>1, <2>4
  <2>5. CASE /\ Succeeded(c.answer) /\ c.answer.status # "pending"
             /\ page' = Settled([upsert(page, c.answer.value.subscription) EXCEPT
                          !.awaiting = Awaiting(c.id, c.answer.value.op, c.answer.value.current, c.answer.value.gen)], seen)
    BY <2>1, <2>2, <2>5 DEF Succeeded
  <2> QED BY <2>1, <2>3, <2>4, <2>5
<1>2. (\A x \in calls' : x \in calls) /\ \A x \in calls : x \in calls' \/ x.cmd \in QuietCommands
  BY <1>1 DEF QuietCommands
<1>3. CASE page' = [page EXCEPT !.pending = Nil, !.awaiting = Nil]
  <2>1. page'.pending = Nil BY <1>i, <1>3 DEF Formed, PageFormed
  <2> QED BY <1>1, <1>2, <2>1 DEF QuietStep
<1>4. ASSUME NEW q, DOMAIN q = DOMAIN page, q.pending = page.pending,
             NEW w, page' = Settled([q EXCEPT !.awaiting = w], seen) PROVE QuietStep
  <2> DEFINE p == [q EXCEPT !.awaiting = w]
  <2>1. DOMAIN p = DOMAIN page /\ p.pending = page.pending BY <1>i, <1>4 DEF Formed, PageFormed
  <2>2. page' = Settled(p, seen) BY <1>4
  <2> HIDE DEF p
  <2> QED BY <1>1, <1>2, <2>1, <2>2, SettleQuiet
<1>5. ASSUME c.answer.status = "ok"
      PROVE LET u == upsert(page, c.answer.value.subscription) IN DOMAIN u = DOMAIN page /\ u.pending = page.pending
  <2> DEFINE x == c.answer.value.subscription
  <2>1. x.id \in Ids BY <1>i, <1>1, <1>5 DEF Formed, CallFormed, AnswerFormed
  <2> HIDE DEF x
  <2>2. Relisted(upsert(page, x)) BY <1>i, <2>1, RelistedSteps
  <2> QED BY <2>2 DEF Relisted, PageKept, x
<1> QED BY <1>1, <1>3, <1>4, <1>5

\* An activation or a document is asked for: no dialog is open.
LEMMA AskQuiet ==
  ASSUME LocksIInv, activate \/ openDocument \/ openRunningDocument \/ saveDocument PROVE QuietStep
<1>i. Formed /\ LocksFit BY DEF LocksIInv
<1>0. PICK cmd \in QuietCommands : \E i, owner, arg : calls' = calls \cup {Call(cmd, i, owner, arg)}
  BY Zenon DEF activate, Begin, openDocument, openRunningDocument, OpenDoc, saveDocument, QuietCommands
<1>1. PICK i, owner, arg : calls' = calls \cup {Call(cmd, i, owner, arg)} BY <1>0
<1>2. Call(cmd, i, owner, arg).cmd = cmd BY DEF Call
<1>3. UNCHANGED <<app, dialog, epoch>>
  BY Zenon DEF activate, Begin, openDocument, openRunningDocument, OpenDoc, saveDocument
<1>4. CASE saveDocument
  <2>1. page' = page BY <1>4 DEF saveDocument
  <2> QED BY <1>1, <1>2, <1>3, <2>1 DEF QuietStep
<1>5. CASE activate \/ openDocument \/ openRunningDocument
  <2>1. dialog = Nil BY <1>5, Zenon DEF activate, Begin, openDocument, openRunningDocument, OpenDoc, Idle
  <2>2. page'.pending \in {"activate", "document", "running"}
    BY <1>i, <1>5 DEF activate, openDocument, openRunningDocument, OpenDoc, Formed, PageFormed
  <2> QED BY <1>1, <1>2, <1>3, <2>1, <2>2 DEF QuietStep, Batches
<1> QED BY <1>4, <1>5

\* A document is read, saved or closed.
LEMMA DocumentQuiet ==
  ASSUME LocksIInv, LeavePage \/ AnswerDocument \/ AnswerRunning \/ closeDocument \/ AnswerSave PROVE QuietStep
<1>i. Formed BY DEF LocksIInv
<1>1. UNCHANGED <<app, dialog, epoch>>
  BY Zenon DEF LeavePage, AnswerDocument, AnswerRunning, closeDocument, AnswerSave
<1>2. CASE LeavePage \/ closeDocument
  <2>1. calls' = calls BY <1>2 DEF LeavePage, closeDocument
  <2>2. page'.pending = page.pending BY <1>i, <1>2 DEF LeavePage, closeDocument, Formed, PageFormed
  <2> QED BY <1>1, <2>1, <2>2 DEF QuietStep
<1>3. CASE AnswerDocument \/ AnswerRunning
  <2>1. PICK c \in calls : c.cmd \in QuietCommands /\ calls' = calls \ {c}
    BY <1>3 DEF AnswerDocument, AnswerRunning, QuietCommands
  <2>2. page'.pending = Nil BY <1>i, <1>3 DEF AnswerDocument, AnswerRunning, Formed, PageFormed
  <2> QED BY <1>1, <2>1, <2>2 DEF QuietStep
<1>4. CASE AnswerSave
  <2>1. PICK c \in calls :
          /\ c.cmd = "save" /\ c.answer # NoAnswer /\ calls' = calls \ {c}
          /\ LET shown == IF Succeeded(c.answer) THEN upsert(page, c.answer.value.subscription) ELSE page
             IN page' = [shown EXCEPT !.doc = Nil, !.docEpoch = @ + 1] \/ page' = shown
    BY <1>4, Zenon DEF AnswerSave
  <2> DEFINE shown == IF Succeeded(c.answer) THEN upsert(page, c.answer.value.subscription) ELSE page
  <2>2. DOMAIN shown = DOMAIN page /\ shown.pending = page.pending
    <3>1. CASE ~Succeeded(c.answer) BY <3>1
    <3>2. CASE Succeeded(c.answer)
      <4> DEFINE x == c.answer.value.subscription
      <4>1. c.answer.status = "ok" BY <1>i, <2>1, <3>2 DEF Formed, CallFormed, AnswerFormed, Succeeded
      <4>2. x.id \in Ids BY <1>i, <2>1, <4>1 DEF Formed, CallFormed, AnswerFormed
      <4>3. shown = upsert(page, x) BY <3>2
      <4> HIDE DEF x, shown
      <4>4. Relisted(upsert(page, x)) BY <1>i, <4>2, RelistedSteps
      <4> QED BY <4>3, <4>4 DEF Relisted, PageKept
    <3> QED BY <3>1, <3>2
  <2>3. page' = [shown EXCEPT !.doc = Nil, !.docEpoch = @ + 1] \/ page' = shown BY <2>1
  <2> HIDE DEF shown
  <2>4. page'.pending = page.pending BY <1>i, <2>2, <2>3 DEF Formed, PageFormed
  <2> QED BY <1>1, <2>1, <2>4 DEF QuietStep, QuietCommands
<1> QED BY <1>2, <1>3, <1>4

\* The steps that are not about what is shown in a dialog.
QuietAction ==
  \/ PerformList \/ Load \/ AnswerList \/ RefuseActivation \/ AlreadyCurrent \/ SendActivation \/ ResponseTimeout
  \/ WorkQueued \/ WorkGivenUp \/ WorkPersisted \/ WorkApplied \/ CoreMoves \/ Observe
  \/ activate \/ AnswerActivate
  \/ openDocument \/ openRunningDocument \/ LeavePage \/ AnswerDocument \/ AnswerRunning
  \/ closeDocument \/ saveDocument \/ AnswerSave

\* All of them leave it.
LEMMA QuietActions == ASSUME LocksIInv, QuietAction PROVE QuietStep
<1>1. CASE PerformList \/ Load \/ AnswerList BY <1>1, ListQuiet
<1>2. CASE RefuseActivation \/ AlreadyCurrent \/ SendActivation \/ ResponseTimeout BY <1>2, ActivationQuiet
<1>3. CASE WorkQueued \/ WorkGivenUp \/ WorkPersisted \/ WorkApplied BY <1>3, WorkQuiet
<1>4. CASE CoreMoves BY <1>4, CoreQuiet
<1>5. CASE Observe BY <1>5, ObserveQuiet
<1>6. CASE AnswerActivate BY <1>6, AnswerActivateQuiet
<1>7. CASE activate \/ openDocument \/ openRunningDocument \/ saveDocument BY <1>7, AskQuiet
<1>8. CASE LeavePage \/ AnswerDocument \/ AnswerRunning \/ closeDocument \/ AnswerSave BY <1>8, DocumentQuiet
<1> QED BY <1>1, <1>2, <1>3, <1>4, <1>5, <1>6, <1>7, <1>8, Zenon DEF QuietAction

\* The scheduler updates what has an interval, and changes none of what is shown.
LEMMA ScheduledShown == ASSUME LocksIInv, ShownIInv, ScheduledUpdate PROVE ShownIInv'
<1>1. UNCHANGED <<calls, page, dialog, epoch>> BY DEF ScheduledUpdate, Around
<1>2. PICK i \in DOMAIN app.subs : \E o \in update_with_route(app, i, Nil) :
        app.subs[i].policy.interval # Nil /\ app' = o.app
  BY DEF ScheduledUpdate
<1>3. PICK o \in update_with_route(app, i, Nil) : app.subs[i].policy.interval # Nil /\ app' = o.app BY <1>2
<1>4. AppFormed(app, used) /\ StoreShaped(app) BY DEF LocksIInv, Formed, ShownIInv
<1>5. SameSubs(app, o.app) BY <1>3, <1>4, UpdateStores
<1>6. SameSubs(app, app') BY <1>3, <1>5
<1>7. CallsFine /\ BatchKept /\ DialogKept BY <1>1 DEF CallsFine, BatchKept, DialogKept
<1> QED BY <1>1, <1>6, <1>7, ShownFrame

-----------------------------------------------------------------------------
(* The ends of operations *)

\* The page is pending for no write once none is under way.
LEMMA WriteOver ==
  ASSUME LocksIInv, LocksIInv', NEW c \in calls, c.cmd \in Writes, calls' = calls \ {c}
  PROVE  page'.pending \notin Batches
<1>1. \A x \in calls : x.cmd \in Exclusive => x = c BY DEF LocksIInv, LocksFit, Exclusive
<1>2. ~\E x \in calls' : x.cmd \in Writes BY <1>1 DEF Exclusive
<1>3. page'.pending \notin WritePendings BY <1>2 DEF LocksIInv, LocksFit
<1> QED BY <1>3 DEF WritePendings, Batches

\* The answer of a write closes the dialog it was sent from, or was a failure.
LEMMA AnswerOneShown == ASSUME LocksIInv, LocksIInv', ShownIInv, AnswerOne PROVE ShownIInv'
<1>i. Formed /\ epoch \in Nat BY DEF LocksIInv, Formed, DialogFormed
<1>1. PICK c \in calls :
        /\ c.cmd \in Writes /\ calls' = calls \ {c} /\ app' = app
        /\ \/ dialog' = Nil /\ epoch' = epoch + 1
           \/ dialog = Nil /\ UNCHANGED <<dialog, epoch>>
           \/ /\ ~Succeeded(c.answer) /\ UNCHANGED <<dialog, epoch>>
              /\ \E l : page' = [page EXCEPT !.pending = Nil, !.load = l]
  <2>1. PICK c \in calls :
          /\ c.cmd \in Writes /\ calls' = calls \ {c} /\ app' = app
          /\ \E shown, l :
               /\ ~Succeeded(c.answer) => shown = page
               /\ LET done == [shown EXCEPT !.pending = Nil, !.load = l]
                  IN IF Succeeded(c.answer) /\ dialog # Nil THEN resetDialog(done)
                     ELSE page' = done /\ UNCHANGED <<dialog, epoch>>
    BY DEF AnswerOne
  <2> QED BY <2>1, Zenon DEF resetDialog
<1>2. page'.pending \notin Batches BY <1>1, WriteOver
<1>3. CallsFine /\ BatchKept BY <1>1, <1>2 DEF CallsFine, BatchKept
<1>4. CASE dialog' = Nil /\ epoch' = epoch + 1
  <2>1. epoch' \in Nat /\ epoch <= epoch' BY <1>i, <1>4
  <2> QED BY <1>1, <1>3, <1>4, <2>1, ClosedShown
<1>5. SameSubs(app, app') BY <1>1 DEF SameSubs, SameFields
<1>6. CASE dialog = Nil /\ UNCHANGED <<dialog, epoch>>
  <2>1. DialogKept BY <1>6 DEF DialogKept, InEdit
  <2> QED BY <1>3, <1>5, <1>6, <2>1, ShownFrame
<1>7. CASE /\ ~Succeeded(c.answer) /\ UNCHANGED <<dialog, epoch>>
           /\ \E l : page' = [page EXCEPT !.pending = Nil, !.load = l]
  <2>1. page'.pending = Nil BY <1>i, <1>7 DEF Formed, PageFormed
  <2>2. c.answer.status = "error" BY <1>7 DEF Succeeded
  <2>3. DialogKept BY <1>1, <1>7, <2>1, <2>2 DEF DialogKept, InEdit
  <2> QED BY <1>3, <1>5, <1>7, <2>3, ShownFrame
<1> QED BY <1>1, <1>4, <1>6, <1>7

\* A batch goes on with the same command, or is over.
LEMMA AnswerNextShown == ASSUME LocksIInv, LocksIInv', ShownIInv, AnswerNext PROVE ShownIInv'
<1>i. Formed /\ epoch \in Nat BY DEF LocksIInv, Formed, DialogFormed
<1>1. PICK c \in calls :
        /\ c.cmd \in Writes /\ app' = app /\ page.pending \in Batches
        /\ \/ /\ \E i : calls' = (calls \ {c}) \cup {Call(c.cmd, i, c.owner, Nil)}
              /\ \E shown \in {page, upsert(page, c.answer.value)} : \E rest, removed :
                   page' = [shown EXCEPT !.rest = rest, !.removed = removed]
              /\ UNCHANGED <<dialog, epoch>>
           \/ /\ calls' = calls \ {c}
              /\ (dialog' = Nil /\ epoch' = epoch + 1) \/ UNCHANGED <<dialog, epoch>>
  <2>1. PICK c \in calls :
          /\ c.cmd \in Writes /\ app' = app /\ page.pending \in Batches
          /\ \E shown \in {page, upsert(page, c.answer.value)} : \E removed :
             \/ \E i :
                  /\ calls' = (calls \ {c}) \cup {Call(c.cmd, i, c.owner, Nil)}
                  /\ page' = [shown EXCEPT !.rest = @ \ {i}, !.removed = removed]
                  /\ UNCHANGED <<dialog, epoch>>
             \/ /\ calls' = calls \ {c}
                /\ \E done : resetDialog(done) \/ (page' = done /\ UNCHANGED <<dialog, epoch>>)
    BY DEF AnswerNext, Batches
  <2> QED BY <2>1 DEF resetDialog
<1>2. ~InEdit(dialog) BY <1>1 DEF ShownIInv, DialogShaped, InEdit, Batches, Pendings
<1>3. c.cmd \in {"update", "delete"} BY <1>1 DEF ShownIInv, BatchFits, Batches
<1>4. SameSubs(app, app') BY <1>1 DEF SameSubs, SameFields
<1>5. CASE /\ \E i : calls' = (calls \ {c}) \cup {Call(c.cmd, i, c.owner, Nil)}
           /\ \E shown \in {page, upsert(page, c.answer.value)} : \E rest, removed :
                page' = [shown EXCEPT !.rest = rest, !.removed = removed]
           /\ UNCHANGED <<dialog, epoch>>
  <2>1. PICK i : calls' = (calls \ {c}) \cup {Call(c.cmd, i, c.owner, Nil)} BY <1>5
  <2>2. Call(c.cmd, i, c.owner, Nil).cmd = c.cmd BY DEF Call
  <2>3. page'.pending = page.pending
    <3>1. DOMAIN upsert(page, c.answer.value) = DOMAIN page /\ upsert(page, c.answer.value).pending = page.pending
      BY <1>i DEF upsert, Formed, PageFormed
    <3> QED BY <1>i, <1>5, <3>1 DEF Formed, PageFormed
  <2>4. CallsFine BY <1>2, <1>3, <1>5, <2>1, <2>2 DEF CallsFine, CallFine, RequestFits
  <2>5. BatchKept /\ DialogKept BY <1>2, <1>5, <2>3 DEF BatchKept, DialogKept
  <2> QED BY <1>4, <1>5, <2>4, <2>5, ShownFrame
<1>6. CASE calls' = calls \ {c}
  <2>1. page'.pending \notin Batches BY <1>1, <1>6, WriteOver
  <2>2. CallsFine /\ BatchKept BY <1>6, <2>1 DEF CallsFine, BatchKept
  <2>3. CASE dialog' = Nil /\ epoch' = epoch + 1
    <3>1. epoch' \in Nat /\ epoch <= epoch' BY <1>i, <2>3
    <3> QED BY <1>1, <2>2, <2>3, <3>1, ClosedShown
  <2>4. CASE UNCHANGED <<dialog, epoch>>
    <3>1. DialogKept BY <1>2, <2>4 DEF DialogKept
    <3> QED BY <1>4, <2>2, <2>4, <3>1, ShownFrame
  <2>5. (dialog' = Nil /\ epoch' = epoch + 1) \/ UNCHANGED <<dialog, epoch>> BY <1>1, <1>6
  <2> QED BY <2>3, <2>4, <2>5
<1> QED BY <1>1, <1>5, <1>6

\* What closes a dialog, with the calls that are left.
LEMMA ResetShown ==
  ASSUME LocksIInv, ShownIInv, app' = app, resetDialog(page), calls' \subseteq calls PROVE ShownIInv'
<1>1. epoch \in Nat /\ Formed BY DEF LocksIInv, Formed, DialogFormed
<1>2. dialog' = Nil /\ epoch' = epoch + 1 /\ page'.pending \in {page.pending, Nil}
  BY <1>1 DEF resetDialog, Freed, Formed, PageFormed
<1>3. epoch' \in Nat /\ epoch <= epoch' BY <1>1, <1>2
<1>4. CallsFine /\ BatchKept BY <1>2 DEF CallsFine, BatchKept, Batches, Pendings
<1> QED BY <1>2, <1>3, <1>4, ClosedShown

\* A call whose answer no dialog takes is dropped.
LEMMA DropShown ==
  ASSUME LocksIInv, ShownIInv, UNCHANGED <<app, dialog, epoch, page>>, NEW c \in calls, calls' = calls \ {c},
         c.cmd \in {"settings", "share"}
  PROVE  ShownIInv'
<1>1. SameSubs(app, app') BY DEF SameSubs, SameFields
<1>2. CallsFine /\ BatchKept /\ DialogKept BY DEF CallsFine, BatchKept, DialogKept
<1> QED BY <1>1, <1>2, ShownFrame

-----------------------------------------------------------------------------
(* What the page sends *)

\* The fields of a call that is made.
LEMMA CallSent ==
  ASSUME NEW cmd, NEW i, NEW owner, NEW arg, NEW fields
  PROVE  /\ LET c == Call(cmd, i, owner, arg)
            IN c.cmd = cmd /\ c.id = i /\ c.owner = owner /\ c.arg = arg /\ c.answer = NoAnswer
         /\ LET c == [Call(cmd, i, owner, arg) EXCEPT !.touched = fields]
            IN c.cmd = cmd /\ c.id = i /\ c.owner = owner /\ c.arg = arg /\ c.answer = NoAnswer /\ c.touched = fields
BY DEF Call

\* An import asks for what the form says.
LEMMA ImportFitsForm == ASSUME NEW f, FormShaped(f) PROVE ImportShaped(ImportRequest(f))
<1> DEFINE r == ImportRequest(f)
           p == [auto |-> f.auto, interval |-> f.interval]
<1>1. r.url = IF f.kind = "remote" THEN f.url ELSE Nil BY DEF ImportRequest
<1>2. r.options.timeout = f.timeout /\ r.options.proxy = f.proxy /\ r.options.tls = f.tls /\ r.options.auto = f.auto
      /\ r.options.interval = f.interval
  BY DEF ImportRequest
<1>3. f.url \in PageUrls /\ f.timeout \in Nat /\ f.proxy \in ProxyNames /\ f.tls \in BOOLEAN BY DEF FormShaped
<1>4. f.kind = "remote" => p \in Policies BY DEF FormShaped, Policies
<1> HIDE DEF r
<1> QED BY <1>1, <1>2, <1>3, <1>4 DEF ImportShaped, r

\* The form that the page starts with.
LEMMA DefaultShaped ==
  /\ FormShaped(defaultForm)
  /\ \A x \in Sites : FormShaped([defaultForm EXCEPT !.url = Url(x)])
  /\ \A k : FormShaped([defaultForm EXCEPT !.kind = k])
<1>1. /\ DOMAIN defaultForm = {"kind", "name", "desc", "url", "ua", "timeout", "proxy", "tls", "auto", "interval", "content"}
      /\ defaultForm.kind = "remote" /\ defaultForm.url = Blank /\ defaultForm.timeout = 30
      /\ defaultForm.proxy = "direct" /\ defaultForm.tls = TRUE /\ defaultForm.auto = TRUE /\ defaultForm.interval = Nil
  BY DEF defaultForm
<1>2. Blank \in PageUrls /\ \A x \in Sites : Url(x) \in PageUrls BY DEF Blank, PageUrls, Url
<1>3. "direct" \in ProxyNames BY DEF ProxyNames
<1>4. ASSUME NEW f, DOMAIN f = DOMAIN defaultForm, f.url \in PageUrls,
             f.timeout = 30, f.proxy = "direct", f.tls = TRUE, f.auto = TRUE, f.interval = Nil
      PROVE  FormShaped(f)
  <2>1. f.tls \in BOOLEAN /\ f.auto \in BOOLEAN BY <1>4
  <2>2. {f.tls, f.auto} \subseteq BOOLEAN BY <2>1
  <2>3. f.timeout \in Nat /\ f.proxy \in ProxyNames /\ f.interval \in Nat \cup {Nil} BY <1>3, <1>4
  <2> QED BY <1>4, <2>2, <2>3, Zenon DEF FormShaped
<1>5. FormShaped(defaultForm) BY <1>1, <1>2, <1>4
<1>6. ASSUME NEW x \in Sites PROVE FormShaped([defaultForm EXCEPT !.url = Url(x)])
  <2> DEFINE u == Url(x)
             f == [defaultForm EXCEPT !.url = u]
  <2>1. u \in PageUrls BY <1>2
  <2> HIDE DEF u
  <2>2. /\ DOMAIN f = DOMAIN defaultForm /\ f.kind = "remote" /\ f.url = u /\ f.timeout = 30 /\ f.proxy = "direct"
        /\ f.tls = TRUE /\ f.auto = TRUE /\ f.interval = Nil
    BY <1>1
  <2> HIDE DEF f
  <2> QED BY <1>4, <2>1, <2>2 DEF f, u
<1>7. ASSUME NEW k PROVE FormShaped([defaultForm EXCEPT !.kind = k])
  <2> DEFINE f == [defaultForm EXCEPT !.kind = k]
  <2>2. /\ DOMAIN f = DOMAIN defaultForm /\ f.kind = k /\ f.url = Blank /\ f.timeout = 30 /\ f.proxy = "direct"
        /\ f.tls = TRUE /\ f.auto = TRUE /\ f.interval = Nil
    BY <1>1
  <2> HIDE DEF f
  <2> QED BY <1>2, <1>4, <2>2 DEF f
<1> QED BY <1>5, <1>6, <1>7

\* The fields of an edit, of a manual and of a remote subscription.
LEMMA EditFields ==
  ASSUME NEW d
  PROVE  LET r == EditRequest(d)
             f == d.form
         IN /\ DOMAIN r = DOMAIN NoEdit(d.id) /\ r.id = d.id
            /\ r.name = {normalizedSubscriptionName(f)} /\ r.desc = {f.desc}
            /\ f.kind = "manual" => r.url = {} /\ r.request = {} /\ r.policy = {}
            /\ f.kind # "manual" =>
                 /\ r.url = IF f.url # d.original THEN {f.url} ELSE {}
                 /\ r.request = {[timeout |-> {f.timeout}, proxy |-> {f.proxy}, tls |-> {f.tls},
                                  ua |-> IF f.ua = "preserve" THEN {} ELSE {Or(selectedUserAgent(f), "")}]}
                 /\ r.policy = {[auto |-> {f.auto}, interval |-> {f.interval}]}
BY DEF EditRequest, NoEdit

\* An edit asks for what the form says, and leaves what the user did not touch.
LEMMA EditFitsForm ==
  ASSUME NEW d, FormShaped(d.form), d.form.kind \in {"remote", "manual"}
  PROVE  /\ EditShaped(EditRequest(d)) /\ EditRequest(d).id = d.id
         /\ \A s : EditShows(d, s) => EditKeeps(EditRequest(d), d.touched, s)
<1> DEFINE r == EditRequest(d)
           f == d.form
           q == [timeout |-> {f.timeout}, proxy |-> {f.proxy}, tls |-> {f.tls},
                 ua |-> IF f.ua = "preserve" THEN {} ELSE {Or(selectedUserAgent(f), "")}]
           w == [auto |-> {f.auto}, interval |-> {f.interval}]
<1>1. /\ DOMAIN r = DOMAIN NoEdit(d.id) /\ r.id = d.id
      /\ r.name = {normalizedSubscriptionName(f)} /\ r.desc = {f.desc}
      /\ f.kind = "manual" => r.url = {} /\ r.request = {} /\ r.policy = {}
      /\ f.kind # "manual" =>
           /\ r.url = IF f.url # d.original THEN {f.url} ELSE {}
           /\ r.request = {q} /\ r.policy = {w}
  BY EditFields
<1>2. q.timeout = {f.timeout} /\ q.proxy = {f.proxy} /\ q.tls = {f.tls}
      /\ q.ua = IF f.ua = "preserve" THEN {} ELSE {Or(selectedUserAgent(f), "")}
  OBVIOUS
<1>3. w.auto = {f.auto} /\ w.interval = {f.interval} OBVIOUS
<1>4. f.url \in PageUrls /\ f.timeout \in Nat /\ f.proxy \in ProxyNames BY DEF FormShaped
<1>5. f.tls \in BOOLEAN /\ f.kind \in {"remote", "manual"} BY DEF FormShaped
<1>7. f.kind = "remote" => [auto |-> f.auto, interval |-> f.interval] \in Policies BY DEF FormShaped, Policies
<1> HIDE DEF r, q, w, f
<1>8. EditShaped(r)
  <2>1. CASE f.kind = "manual" BY <1>1, <2>1 DEF EditShaped
  <2>2. CASE f.kind = "remote"
    <3>1. r.url \subseteq PageUrls BY <1>1, <1>4, <2>2
    <3>2. r.request = {q} /\ r.policy = {w} BY <1>1, <2>2
    <3>3. q.timeout \subseteq Nat /\ q.proxy \subseteq ProxyNames BY <1>2, <1>4
    <3>4. q.tls \subseteq BOOLEAN
      <4>1. q.tls = {f.tls} BY <1>2
      <4> QED BY <1>5, <4>1
    <3>5. \E b \in w.auto, n \in w.interval : w.auto = {b} /\ w.interval = {n} /\ [auto |-> b, interval |-> n] \in Policies
      <4>1. f.auto \in w.auto /\ f.interval \in w.interval BY <1>3
      <4> QED BY <1>3, <1>7, <2>2, <4>1
    <3> QED BY <1>1, <3>1, <3>2, <3>3, <3>4, <3>5 DEF EditShaped
  <2> QED BY <1>5, <2>1, <2>2
<1>6. ASSUME NEW s, EditShows(d, s) PROVE EditKeeps(r, d.touched, s)
  <2> DEFINE Untouched(field) == field \notin d.touched
  <2>1. Untouched("name") => r.name \subseteq {s.name, safe_display_name(s.name)}
    <3>1. safe_display_name(s.name) # "" BY DEF safe_display_name
    <3> QED BY <1>1, <1>6, <3>1 DEF EditShows, normalizedSubscriptionName, f
  <2>2. Untouched("desc") => r.desc \subseteq {s.desc} BY <1>1, <1>6 DEF EditShows, f
  <2>3. Untouched("url") => r.url \subseteq {s.url} BY <1>1, <1>5, <1>6 DEF EditShows, f
  <2>4. ASSUME s.url # Nil
        PROVE  /\ \A p \in r.policy : /\ Untouched("auto") => p.auto \subseteq {s.policy.auto}
                                      /\ Untouched("interval") => p.interval \subseteq {s.policy.interval}
               /\ \A p \in r.request :
                    /\ Untouched("ua") => p.ua = {} \/ (p.ua = {""} /\ s.request.ua = Nil)
                    /\ Untouched("timeout") => p.timeout \subseteq {s.request.timeout}
                    /\ Untouched("proxy") => p.proxy \subseteq {ProxyModes[s.request.proxy]}
                    /\ Untouched("tls") => p.tls \subseteq {s.request.tls}
    <3>1. r.request = {q} /\ r.policy = {w} BY <1>1, <1>6, <2>4 DEF EditShows, f
    <3>2. Untouched("ua") => (f.ua = "preserve" <=> s.request.ua # Nil) /\ f.ua \in {"preserve", "clash"}
      BY <1>6, <2>4 DEF EditShows, f
    <3>3. f.ua = "clash" => Or(selectedUserAgent(f), "") = "" BY DEF selectedUserAgent, Or
    <3>4. Untouched("ua") => q.ua = {} \/ (q.ua = {""} /\ s.request.ua = Nil) BY <1>2, <3>2, <3>3
    <3>5. /\ Untouched("timeout") => q.timeout = {s.request.timeout}
          /\ Untouched("proxy") => q.proxy = {ProxyModes[s.request.proxy]}
          /\ Untouched("tls") => q.tls = {s.request.tls}
          /\ Untouched("auto") => w.auto = {s.policy.auto}
          /\ Untouched("interval") => w.interval = {s.policy.interval}
      BY <1>2, <1>3, <1>6, <2>4 DEF EditShows, f
    <3> QED BY <3>1, <3>4, <3>5
  <2> QED BY <2>1, <2>2, <2>3, <2>4 DEF EditKeeps
<1> QED BY <1>1, <1>6, <1>8 DEF r

\* A write begins while nothing is pending: its request is of what is stored.
LEMMA BegunShown ==
  ASSUME LocksIInv, ShownIInv, UNCHANGED <<app, epoch>>, page.pending = Nil, page.doc = Nil,
         NEW c, calls' = calls \cup {c}, c.cmd \in Writes, RequestFits(c),
         page'.pending \in Batches => c.cmd \in {"update", "delete"},
         \/ dialog = Nil /\ dialog' = Nil
         \/ /\ dialog # Nil /\ dialog' = [dialog EXCEPT !.sent = TRUE]
            /\ InEdit(dialog) => c.cmd = "edit" /\ page'.pending = "dialog" /\ ~dialog.loading
  PROVE  ShownIInv'
<1>1. \A x \in calls : x.cmd \notin Writes BY IdleFacts DEF Exclusive
<1>2. SameSubs(app, app') BY DEF SameSubs, SameFields
<1>3. dialog # Nil => dialog'.mode = dialog.mode /\ dialog'.sent = TRUE BY DEF LocksIInv, Formed, DialogFormed
<1>4. c.cmd \notin {"settings", "share"} BY DEF Writes
<1>5. InEdit(dialog') => c.cmd = "edit" BY <1>3 DEF InEdit
<1>6. CallsFine BY <1>4, <1>5 DEF CallsFine, CallFine
<1>7. BatchKept BY <1>1 DEF BatchKept
<1>8. DialogKept BY <1>3 DEF DialogKept, InEdit
<1> QED BY <1>2, <1>6, <1>7, <1>8, ShownFrame

\* The operations of the page itself.
LEMMA BeginShown ==
  ASSUME LocksIInv, ShownIInv, submitQuickImport \/ updateOne \/ updateAll PROVE ShownIInv'
<1>i. Formed BY DEF LocksIInv
<1>1. /\ page.pending = Nil /\ page.doc = Nil /\ dialog = Nil /\ UNCHANGED <<app, dialog, epoch>>
  BY Zenon DEF submitQuickImport, updateOne, updateAll, Begin, Idle
<1>2. PICK cmd \in {"import", "update"} : \E i, owner, arg :
        /\ calls' = calls \cup {Call(cmd, i, owner, arg)}
        /\ cmd = "import" => page'.pending = "import" /\ ImportShaped(arg)
  <2>1. CASE submitQuickImport
    <3>1. PICK x \in Sites : Begin("import", Nil, ImportRequest([defaultForm EXCEPT !.url = Url(x)]))
      BY <2>1 DEF submitQuickImport
    <3> DEFINE f == [defaultForm EXCEPT !.url = Url(x)]
               r == ImportRequest(f)
    <3>2. FormShaped(f) BY DefaultShaped
    <3>3. calls' = calls \cup {Call("import", Nil, used + 1, r)} BY <3>1 DEF Begin
    <3>4. page'.pending = "import" BY <1>i, <2>1 DEF submitQuickImport, Pending, Formed, PageFormed
    <3> HIDE DEF f
    <3>5. ImportShaped(r) BY <3>2, ImportFitsForm
    <3> HIDE DEF r
    <3> QED BY <3>3, <3>4, <3>5
  <2>2. CASE updateOne \/ updateAll
    <3>1. \E i : Begin("update", i, Nil) BY <2>2 DEF updateOne, updateAll
    <3> QED BY <3>1 DEF Begin
  <2> QED BY <2>1, <2>2
<1>3. PICK i, owner, arg :
        /\ calls' = calls \cup {Call(cmd, i, owner, arg)}
        /\ cmd = "import" => page'.pending = "import" /\ ImportShaped(arg)
  BY <1>2
<1> DEFINE c == Call(cmd, i, owner, arg)
<1>4. c.cmd = cmd /\ c.arg = arg BY CallSent
<1>5. calls' = calls \cup {c} BY <1>3
<1> HIDE DEF c
<1>6. c.cmd \in Writes /\ RequestFits(c) BY <1>3, <1>4 DEF Writes, RequestFits
<1>7. page'.pending \in Batches => c.cmd \in {"update", "delete"} BY <1>3, <1>4 DEF Batches
<1> QED BY <1>1, <1>5, <1>6, <1>7, BegunShown

\* The form of a dialog that edits shows what is stored, when it is sent.
LEMMA FormIsTrue ==
  ASSUME LocksIInv, ShownIInv, dialog # Nil, dialog.mode = "edit", ~dialog.loading, ~dialog.sent,
         page.pending = Nil, dialog.id \in DOMAIN app.subs
  PROVE  EditShows(dialog, app.subs[dialog.id])
<1>1. page.doc = Nil BY DEF LocksIInv, LocksFit
<1>2. ~\E c \in calls : c.cmd = "edit" BY <1>1, IdleFacts DEF Exclusive, Writes
<1> QED BY <1>2 DEF ShownIInv, DialogTrue

\* What a dialog sends.
LEMMA SentShown ==
  ASSUME LocksIInv, ShownIInv, dialog # Nil, NEW cmd \in Writes, NEW i, NEW arg, NEW fields,
         Send(cmd, i, arg, fields),
         cmd = "import" => ImportShaped(arg),
         cmd = "edit" => /\ EditShaped(arg) /\ arg.id = i
                         /\ i \in DOMAIN app.subs => EditKeeps(arg, fields, app.subs[i]),
         page'.pending \in Batches => cmd \in {"update", "delete"},
         InEdit(dialog) => cmd = "edit" /\ page'.pending = "dialog" /\ ~dialog.loading
  PROVE  ShownIInv'
<1>1. page.pending = Nil /\ UNCHANGED <<app, epoch>> /\ dialog' = [dialog EXCEPT !.sent = TRUE] BY DEF Send
<1>2. page.doc = Nil BY DEF LocksIInv, LocksFit
<1> DEFINE c == [Call(cmd, i, used + 1, arg) EXCEPT !.touched = fields]
<1>3. c.cmd = cmd /\ c.id = i /\ c.arg = arg /\ c.touched = fields BY CallSent
<1>4. calls' = calls \cup {c} BY DEF Send
<1> HIDE DEF c
<1>5. RequestFits(c) BY <1>3 DEF RequestFits
<1> QED BY <1>1, <1>2, <1>3, <1>4, <1>5, BegunShown

\* The operations of a dialog.
LEMMA SendShown ==
  ASSUME LocksIInv, ShownIInv, submitDialog \/ confirmDelete \/ deleteSelected PROVE ShownIInv'
<1>i. Formed /\ DialogShaped BY DEF LocksIInv, ShownIInv
<1>1. CASE submitDialog
  <2> DEFINE f == dialog.form
             i == dialog.id
  <2>1. dialog # Nil /\ ~dialog.loading /\ dialog.mode \in {"create", "edit", "replace"} BY <1>1 DEF submitDialog
  <2>2. page'.pending = "dialog" /\ "dialog" \notin Batches
    BY <1>i, <1>1 DEF submitDialog, Pending, Formed, PageFormed, Batches
  <2>3. FormShaped(f) BY <1>i, <2>1 DEF DialogShaped
  <2>4. \/ dialog.mode = "create" /\ Send("import", Nil, ImportRequest(f), {})
        \/ dialog.mode = "edit" /\ Send("edit", i, EditRequest(dialog), dialog.touched)
        \/ dialog.mode = "replace" /\ Send("edit", i, [NoEdit(i) EXCEPT !.url = {f.url}], {"url"})
        \/ dialog.mode = "replace" /\ Send("update", i, "text", {})
    BY <1>1, Zenon DEF submitDialog
  <2>5. CASE dialog.mode = "create" /\ Send("import", Nil, ImportRequest(f), {})
    <3> DEFINE r == ImportRequest(f)
    <3>1. ImportShaped(r) BY <2>3, ImportFitsForm
    <3>2. Send("import", Nil, r, {}) /\ ~InEdit(dialog) BY <2>5 DEF InEdit
    <3> HIDE DEF r
    <3> QED BY <2>1, <2>2, <3>1, <3>2, SentShown DEF Writes
  <2>6. CASE dialog.mode = "edit" /\ Send("edit", i, EditRequest(dialog), dialog.touched)
    <3> DEFINE r == EditRequest(dialog)
               t == dialog.touched
    <3>0. dialog.form.kind \in {"remote", "manual"} BY <1>i, <2>1, <2>6 DEF DialogShaped
    <3>1. EditShaped(r) /\ r.id = i BY <2>3, <3>0, EditFitsForm
    <3>2. ASSUME i \in DOMAIN app.subs PROVE EditKeeps(r, t, app.subs[i])
      <4>1. page.pending = Nil /\ ~dialog.sent BY <2>6 DEF Send
      <4>2. EditShows(dialog, app.subs[i]) BY <2>1, <2>6, <3>2, <4>1, FormIsTrue
      <4> QED BY <2>3, <3>0, <4>2, EditFitsForm
    <3>3. Send("edit", i, r, t) BY <2>6
    <3> HIDE DEF r, t, i
    <3> QED BY <2>1, <2>2, <3>1, <3>2, <3>3, SentShown DEF Writes
  <2>7. CASE dialog.mode = "replace" /\ Send("edit", i, [NoEdit(i) EXCEPT !.url = {f.url}], {"url"})
    <3> DEFINE r == [NoEdit(i) EXCEPT !.url = {f.url}]
               t == {"url"}
    <3>1. /\ DOMAIN r = DOMAIN NoEdit(r.id) /\ r.id = i /\ r.name = {} /\ r.desc = {} /\ r.url = {f.url}
          /\ r.request = {} /\ r.policy = {}
      BY DEF NoEdit
    <3>2. f.url \in PageUrls BY <2>3 DEF FormShaped
    <3>3. Send("edit", i, r, t) /\ ~InEdit(dialog) BY <2>7 DEF InEdit
    <3>4. "url" \in t OBVIOUS
    <3> HIDE DEF r, t, i
    <3>5. EditShaped(r) BY <3>1, <3>2 DEF EditShaped
    <3>6. \A s : EditKeeps(r, t, s) BY <3>1, <3>4 DEF EditKeeps
    <3> QED BY <2>1, <2>2, <3>1, <3>3, <3>5, <3>6, SentShown DEF Writes
  <2>8. CASE dialog.mode = "replace" /\ Send("update", i, "text", {})
    <3>1. ~InEdit(dialog) BY <2>8 DEF InEdit
    <3> HIDE DEF i
    <3> QED BY <2>1, <2>2, <2>8, <3>1, SentShown DEF Writes
  <2> HIDE DEF f, i
  <2> QED BY <2>4, <2>5, <2>6, <2>7, <2>8
<1>2. CASE confirmDelete \/ deleteSelected
  <2>1. dialog # Nil /\ ~InEdit(dialog) /\ \E i : Send("delete", i, Nil, {})
    BY <1>2 DEF confirmDelete, deleteSelected, InEdit
  <2>2. PICK i : Send("delete", i, Nil, {}) BY <2>1
  <2> QED BY <2>1, <2>2, SentShown DEF Writes
<1> QED BY <1>1, <1>2

-----------------------------------------------------------------------------
(* What is read for a dialog *)

\* A dialog opens, and asks for what it shows: its call is told apart by its epoch.
LEMMA OpenedShown ==
  ASSUME LocksIInv, ShownIInv, app' = app, epoch' = epoch + 1, page.pending = Nil, page.doc = Nil,
         dialog'.share = Nil, FormShaped(dialog'.form), dialog'.form.kind = "remote" \/ dialog'.mode = "replace",
         {dialog'.loading, dialog'.sent} \subseteq BOOLEAN,
         dialog'.mode = "edit" => dialog'.loading /\ page'.pending = Nil,
         page'.pending \in {Nil, "share"},
         \/ calls' = calls
         \/ \E c : /\ calls' = calls \cup {c} /\ c.owner = epoch + 1 /\ c.answer = NoAnswer
                   /\ c.cmd \in {"settings", "share"} /\ c.arg = Nil
  PROVE  ShownIInv'
<1>i. StoreShaped(app) /\ RequestsFit /\ ReadingsFit BY DEF ShownIInv
<1>1. \A x \in calls : x.cmd \notin Writes BY IdleFacts DEF Exclusive
<1>2. epoch \in Nat /\ \A x \in calls : x.owner \in Nat BY DEF LocksIInv, Formed, DialogFormed, CallFormed
<1>3. \A c \in calls' : c \in calls \/ /\ c.owner = epoch + 1 /\ c.answer = NoAnswer
                                       /\ c.cmd \in {"settings", "share"} /\ c.arg = Nil
  OBVIOUS
<1>4. \A c, d \in calls' : c \notin calls /\ d \notin calls => c = d OBVIOUS
<1>5. StoreShaped(app)' BY <1>i
<1>6. \A c \in calls' : c.cmd \in Writes => FALSE BY <1>1, <1>3 DEF Writes
<1>7. RequestsFit' /\ BatchFits' BY <1>6 DEF RequestsFit, BatchFits, Writes
<1>8. NoAnswer.status = "none" BY DEF NoAnswer
<1>9. \A c \in Readings' : \/ c \in Readings /\ c.owner \in Nat /\ c.owner <= epoch
                           \/ c.owner = epoch + 1 /\ c.answer.status = "none" /\ c.arg = Nil /\ c \notin calls
  BY <1>i, <1>2, <1>3, <1>8 DEF Readings, ReadingsFit
<1>10. \A c \in Readings' : c.owner <= epoch' BY <1>2, <1>9
<1>11. ASSUME NEW c \in Readings', NEW d \in Readings', c.owner = d.owner PROVE c = d
  <2>1. CASE c \in Readings /\ c.owner <= epoch /\ c.owner \in Nat
    <3>1. d \in Readings BY <1>2, <1>9, <1>11, <2>1
    <3> QED BY <1>i, <1>11, <2>1, <3>1 DEF ReadingsFit
  <2>2. CASE c.owner = epoch + 1 /\ c \notin calls
    <3>1. d \notin calls
      <4>1. \/ d \in Readings /\ d.owner \in Nat /\ d.owner <= epoch
            \/ d \notin calls
        BY <1>9
      <4>2. ~(d.owner \in Nat /\ d.owner <= epoch) BY <1>2, <1>11, <2>2
      <4> QED BY <4>1, <4>2
    <3>2. c \in calls' /\ d \in calls' BY DEF Readings
    <3> QED BY <1>4, <2>2, <3>1, <3>2
  <2> QED BY <1>9, <2>1, <2>2
<1>12. \A c \in Readings' :
         /\ c.cmd = "settings" /\ c.answer.status = "ok" => ViewShaped(c.answer.value)
         /\ c.cmd = "share" /\ c.answer.status = "ok" => c.answer.value \in PageUrls
         /\ c.cmd = "share" /\ c.arg # Nil => ViewShaped(c.arg) /\ c.arg.kind = "remote"
  BY <1>i, <1>9 DEF ReadingsFit
<1>13. ReadingsFit' BY <1>10, <1>11, <1>12 DEF ReadingsFit
<1>14. \A c \in Readings' : c.owner = epoch' => c.answer.status = "none" /\ c.arg = Nil BY <1>2, <1>9
<1>15. ReadingsTrue' BY <1>14 DEF ReadingsTrue
<1>16. DialogShaped'
  <2>1. dialog'.mode \in {"create", "edit"} => dialog'.form.kind \in {"remote", "manual"} OBVIOUS
  <2>2. "dialog" # Nil BY DEF Pendings
  <2>3. /\ page'.pending \in {Nil, "dialog"} \/ dialog'.mode # "edit"
        /\ dialog'.mode = "edit" /\ page'.pending = "dialog" => ~dialog'.loading /\ dialog'.sent
    BY <2>2
  <2> QED BY <1>6, <2>1, <2>3, Zenon DEF DialogShaped
<1>17. DialogTrue' BY DEF DialogTrue
<1> QED BY <1>5, <1>7, <1>13, <1>15, <1>16, <1>17 DEF ShownIInv

\* The dialogs of the page.
LEMMA OpenShown ==
  ASSUME LocksIInv, ShownIInv,
         openCreateDialog \/ openReplaceDialog \/ openDeleteDialog \/ openSettingsDialog \/ openQrDialog
  PROVE  ShownIInv'
<1>i. Formed BY DEF LocksIInv
<1>f. FormShaped(defaultForm) /\ defaultForm.kind = "remote" /\ \A k : FormShaped([defaultForm EXCEPT !.kind = k])
  BY DefaultShaped DEF defaultForm
<1> DEFINE Opens(d) == /\ beginDialog(d) /\ d.share = Nil /\ FormShaped(d.form) /\ d.sent = FALSE
                       /\ d.form.kind = "remote" \/ d.mode = "replace"
<1>0. ASSUME NEW d, Opens(d), d.loading = TRUE \/ d.loading = FALSE
      PROVE  /\ app' = app /\ epoch' = epoch + 1 /\ page.pending = Nil /\ page.doc = Nil /\ dialog' = d
             /\ {d.loading, d.sent} \subseteq BOOLEAN
  <2>1. d.loading \in BOOLEAN /\ d.sent \in BOOLEAN BY <1>0
  <2> QED BY <1>0, <2>1 DEF beginDialog, Idle
<1>1. ASSUME NEW d, Opens(d), d.loading = FALSE, d.mode # "edit", UNCHANGED <<calls, page>> PROVE ShownIInv'
  <2>1. /\ app' = app /\ epoch' = epoch + 1 /\ page.pending = Nil /\ page.doc = Nil /\ dialog' = d
        /\ {d.loading, d.sent} \subseteq BOOLEAN
    BY <1>0, <1>1
  <2> QED BY <1>1, <2>1, OpenedShown
<1>2. CASE openCreateDialog \/ openReplaceDialog \/ openDeleteDialog
  <2>1. UNCHANGED <<calls, page>> BY <1>2 DEF openCreateDialog, openReplaceDialog, openDeleteDialog
  <2>2. ASSUME NEW d, beginDialog(d), d.share = Nil, d.form = defaultForm, d.loading = FALSE, d.sent = FALSE, d.mode # "edit"
        PROVE  ShownIInv'
    <3>1. Opens(d) BY <1>f, <2>2
    <3> HIDE DEF Opens
    <3> QED BY <1>1, <2>1, <2>2, <3>1
  <2>3. CASE openCreateDialog
    <3> DEFINE d == Dialog("create", Nil, defaultForm)
    <3>1. d.share = Nil /\ d.form = defaultForm /\ d.loading = FALSE /\ d.sent = FALSE /\ d.mode = "create"
      BY DEF Dialog
    <3>2. beginDialog(d) BY <2>3 DEF openCreateDialog
    <3> HIDE DEF d
    <3> QED BY <2>2, <3>1, <3>2
  <2>4. CASE openReplaceDialog
    <3>1. PICK i \in Shown : beginDialog(Dialog("replace", i, [defaultForm EXCEPT !.kind = page.listed[i].kind]))
      BY <2>4 DEF openReplaceDialog
    <3> DEFINE f == [defaultForm EXCEPT !.kind = page.listed[i].kind]
               d == Dialog("replace", i, f)
    <3>2. FormShaped(f) BY <1>f
    <3> HIDE DEF f
    <3>3. d.share = Nil /\ d.form = f /\ d.loading = FALSE /\ d.sent = FALSE /\ d.mode = "replace" BY DEF Dialog
    <3>4. beginDialog(d) BY <3>1 DEF f
    <3> HIDE DEF d
    <3>5. Opens(d) BY <3>2, <3>3, <3>4
    <3> HIDE DEF Opens
    <3> QED BY <1>1, <2>1, <3>3, <3>5
  <2>5. CASE openDeleteDialog
    <3>1. \/ \E i : beginDialog(Dialog("delete", i, defaultForm))
          \/ \E p : beginDialog([Dialog("batchDelete", Nil, defaultForm) EXCEPT !.picked = p])
      BY <2>5, Zenon DEF openDeleteDialog
    <3>2. ASSUME NEW i, beginDialog(Dialog("delete", i, defaultForm)) PROVE ShownIInv'
      <4> DEFINE d == Dialog("delete", i, defaultForm)
      <4>1. d.share = Nil /\ d.form = defaultForm /\ d.loading = FALSE /\ d.sent = FALSE /\ d.mode = "delete"
        BY DEF Dialog
      <4>2. beginDialog(d) BY <3>2
      <4> HIDE DEF d
      <4> QED BY <2>2, <4>1, <4>2
    <3>3. ASSUME NEW p, beginDialog([Dialog("batchDelete", Nil, defaultForm) EXCEPT !.picked = p]) PROVE ShownIInv'
      <4> DEFINE d == [Dialog("batchDelete", Nil, defaultForm) EXCEPT !.picked = p]
      <4>1. d.share = Nil /\ d.form = defaultForm /\ d.loading = FALSE /\ d.sent = FALSE /\ d.mode = "batchDelete"
        BY DEF Dialog
      <4>2. beginDialog(d) BY <3>3
      <4> HIDE DEF d
      <4> QED BY <2>2, <4>1, <4>2
    <3> QED BY <3>1, <3>2, <3>3
  <2> QED BY <1>2, <2>3, <2>4, <2>5
<1>3. CASE openSettingsDialog
  <2>1. PICK i : /\ beginDialog([Dialog("edit", i, defaultForm) EXCEPT !.loading = TRUE])
                 /\ calls' = calls \cup {Call("settings", i, epoch + 1, Nil)} /\ page' = page
    BY <1>3 DEF openSettingsDialog
  <2> DEFINE d == [Dialog("edit", i, defaultForm) EXCEPT !.loading = TRUE]
             c == Call("settings", i, epoch + 1, Nil)
  <2>2. d.share = Nil /\ d.form = defaultForm /\ d.loading = TRUE /\ d.sent = FALSE /\ d.mode = "edit" BY DEF Dialog
  <2>3. c.cmd = "settings" /\ c.owner = epoch + 1 /\ c.arg = Nil /\ c.answer = NoAnswer BY CallSent
  <2>4. beginDialog(d) /\ calls' = calls \cup {c} BY <2>1
  <2> HIDE DEF d, c
  <2>5. Opens(d) BY <1>f, <2>2, <2>4
  <2>6. /\ app' = app /\ epoch' = epoch + 1 /\ page.pending = Nil /\ page.doc = Nil /\ dialog' = d
        /\ {d.loading, d.sent} \subseteq BOOLEAN
    BY <1>0, <2>2, <2>5
  <2>7. \E x : /\ calls' = calls \cup {x} /\ x.owner = epoch + 1 /\ x.answer = NoAnswer
               /\ x.cmd \in {"settings", "share"} /\ x.arg = Nil
    BY <2>3, <2>4
  <2> HIDE DEF Opens
  <2>8. dialog'.share = Nil /\ FormShaped(dialog'.form) /\ dialog'.form.kind = "remote" /\ dialog'.loading
        /\ page'.pending = Nil
    BY <1>f, <2>1, <2>2, <2>6
  <2> QED BY <2>6, <2>7, <2>8, OpenedShown
<1>4. CASE openQrDialog
  <2>1. PICK i : /\ beginDialog(Dialog("qr", i, defaultForm))
                 /\ calls' = calls \cup {Call("share", i, epoch + 1, Nil)} /\ page' = [page EXCEPT !.pending = "share"]
    BY <1>4 DEF openQrDialog
  <2> DEFINE d == Dialog("qr", i, defaultForm)
             c == Call("share", i, epoch + 1, Nil)
  <2>2. d.share = Nil /\ d.form = defaultForm /\ d.loading = FALSE /\ d.sent = FALSE /\ d.mode = "qr" BY DEF Dialog
  <2>3. c.cmd = "share" /\ c.owner = epoch + 1 /\ c.arg = Nil /\ c.answer = NoAnswer BY CallSent
  <2>4. beginDialog(d) /\ calls' = calls \cup {c} BY <2>1
  <2>5. page'.pending = "share" BY <1>i, <2>1 DEF Formed, PageFormed
  <2> HIDE DEF d, c
  <2>6. Opens(d) BY <1>f, <2>2, <2>4
  <2>7. /\ app' = app /\ epoch' = epoch + 1 /\ page.pending = Nil /\ page.doc = Nil /\ dialog' = d
        /\ {d.loading, d.sent} \subseteq BOOLEAN
    BY <1>0, <2>2, <2>6
  <2>8. \E x : /\ calls' = calls \cup {x} /\ x.owner = epoch + 1 /\ x.answer = NoAnswer
               /\ x.cmd \in {"settings", "share"} /\ x.arg = Nil
    BY <2>3, <2>4
  <2> HIDE DEF Opens
  <2>9. dialog'.share = Nil /\ FormShaped(dialog'.form) /\ dialog'.form.kind = "remote" /\ dialog'.mode # "edit"
        /\ page'.pending = "share"
    BY <1>f, <2>2, <2>5, <2>7
  <2> QED BY <2>7, <2>8, <2>9, OpenedShown
<1> QED BY <1>2, <1>3, <1>4

\* An answer that a dialog waits for: who asked, and whether it was read.
LEMMA ReadingFacts ==
  ASSUME LocksIInv, NEW c \in calls, c.cmd \in {"settings", "share"}, c.answer # NoAnswer
  PROVE  /\ c \in Readings /\ c.owner \in Nat /\ (Succeeded(c.answer) => c.answer.status = "ok")
         /\ \A mode : isCurrentDialog(c, mode) =>
              dialog # Nil /\ dialog.mode = mode /\ dialog.id = c.id /\ c.owner = epoch
<1>1. CallFormed(c, used) /\ DialogFormed BY DEF LocksIInv, Formed
<1>2. c.answer.status \in {"error", "pending", "ok"} /\ c.answer.status # "pending" BY <1>1 DEF CallFormed, AnswerFormed
<1> QED BY <1>1, <1>2 DEF Readings, CallFormed, Succeeded, isCurrentDialog, DialogFormed

\* A dialog that reads is not filled yet, and nothing is pending.
LEMMA ReadingLoads ==
  ASSUME ShownIInv, dialog # Nil, dialog.mode = "edit", NEW c \in Readings, c.owner = epoch
  PROVE  dialog.loading = TRUE /\ page.pending = Nil /\ dialog.share = Nil
<1>1. dialog.loading BY DEF ShownIInv, ReadingsFit
<1>2. {dialog.loading, dialog.sent} \subseteq BOOLEAN BY DEF ShownIInv, DialogShaped
<1>3. dialog.loading \in BOOLEAN BY <1>2
<1>4. dialog.loading = TRUE BY <1>1, <1>3
<1>5. page.pending = Nil /\ dialog.share = Nil BY <1>1 DEF ShownIInv, DialogShaped
<1> QED BY <1>4, <1>5

\* It has the shape of a form.
LEMMA FilledShaped ==
  ASSUME DialogFormed, dialog # Nil, NEW x, ViewShaped(x), NEW url \in PageUrls
  PROVE  FormShaped(Filled(dialog, x, url).form)
<1> DEFINE f == Filled(dialog, x, url).form
           q == x.request
           p == x.policy
<1>1. /\ DOMAIN f = DOMAIN defaultForm /\ f.url = url
      /\ f.timeout = (IF q = Nil THEN 30 ELSE q.timeout)
      /\ f.proxy = (IF q = Nil THEN "direct" ELSE q.proxy)
      /\ f.tls = (IF q = Nil THEN TRUE ELSE q.tls)
      /\ f.auto = p.auto /\ f.interval = p.interval
  BY DEF Filled, defaultForm, DialogFormed
<1>2. p \in Policies /\ q \in RequestViews \cup {Nil} BY DEF ViewShaped
<1> HIDE DEF f, q, p
<1>3. q # Nil => q.timeout \in Nat /\ q.proxy \in ProxyNames /\ q.tls \in BOOLEAN BY <1>2 DEF RequestViews
<1>4. p.auto \in BOOLEAN /\ p.interval \in Nat \cup {Nil} /\ (p.interval # Nil => p.auto) BY <1>2 DEF Policies
<1>5. f.timeout \in Nat BY <1>1, <1>3
<1>6. f.proxy \in ProxyNames BY <1>1, <1>3 DEF ProxyNames
<1>7. f.tls \in BOOLEAN /\ f.auto \in BOOLEAN BY <1>1, <1>3, <1>4
<1>8. {f.tls, f.auto} \subseteq BOOLEAN BY <1>7
<1>9. f.interval \in Nat \cup {Nil} /\ (f.interval # Nil => f.auto) BY <1>1, <1>4
<1> QED BY <1>1, <1>5, <1>6, <1>8, <1>9 DEF FormShaped, f

\* Filled with what is stored, it shows it.
LEMMA FilledShows ==
  ASSUME DialogFormed, dialog # Nil, StateValid(app), StoreShaped(app), NEW i \in DOMAIN app.subs, NEW url,
         app.subs[i].url # Nil => url = app.subs[i].url
  PROVE  EditShows(Filled(dialog, SettingsOf(app, i), url), app.subs[i])
<1> DEFINE s == app.subs[i]
           x == SettingsOf(app, i)
           d == Filled(dialog, x, url)
           f == d.form
<1>1. SubShaped(s) /\ SubscriptionValid(s) BY DEF StoreShaped, StateValid
<1>2. /\ x.name = safe_display_name(s.name) /\ x.desc = s.desc /\ x.kind = Kinds[SourceKind(s)]
      /\ x.custom = (s.request # Nil /\ s.request.ua # Nil)
      /\ x.request = (IF s.request = Nil \/ Options(s) = Nil THEN Nil ELSE OptionsShown(s))
      /\ x.policy = s.policy
  BY SettingsFields
<1> HIDE DEF x
<1>3. /\ d.original = url
      /\ f.kind = x.kind /\ f.name = x.name /\ f.desc = x.desc /\ f.url = url
      /\ f.ua = (IF x.custom THEN "preserve" ELSE "clash")
      /\ f.timeout = (IF x.request = Nil THEN 30 ELSE x.request.timeout)
      /\ f.proxy = (IF x.request = Nil THEN "direct" ELSE x.request.proxy)
      /\ f.tls = (IF x.request = Nil THEN TRUE ELSE x.request.tls)
      /\ f.auto = x.policy.auto /\ f.interval = x.policy.interval
  BY DEF Filled, defaultForm, DialogFormed
<1> HIDE DEF d, s
<1>4. f.kind = "remote" <=> s.url # Nil BY <1>2, <1>3 DEF Kinds, SourceKind
<1>5. ASSUME s.url # Nil
      PROVE  /\ f.ua = "preserve" <=> s.request.ua # Nil
             /\ f.ua \in {"preserve", "clash"}
             /\ f.timeout = s.request.timeout /\ f.proxy = ProxyModes[s.request.proxy] /\ f.tls = s.request.tls
  <2>1. s.request # Nil BY <1>1, <1>5 DEF SubscriptionValid
  <2>2. s.request.timeout \in Nat /\ s.request.proxy \in DOMAIN ProxyModes /\ s.request.tls \in BOOLEAN
    BY <1>1, <1>5 DEF SubShaped
  <2>3. Options(s) \in StoredViews BY <2>2 DEF Options, StoredViews
  <2>4. Options(s) # Nil BY <2>3, ViewAssumption
  <2>5. x.request = OptionsShown(s) BY <1>2, <2>1, <2>4
  <2>6. OptionsShown(s) \in RequestViews BY <2>2, ProxyFacts DEF OptionsShown, RequestViews
  <2>7. OptionsShown(s) # Nil BY <2>6, ViewAssumption
  <2>8. f.timeout = s.request.timeout /\ f.proxy = ProxyModes[s.request.proxy] /\ f.tls = s.request.tls
    <3> DEFINE y == OptionsShown(s)
    <3>1. y.timeout = s.request.timeout /\ y.proxy = ProxyModes[s.request.proxy] /\ y.tls = s.request.tls
      BY DEF OptionsShown
    <3> HIDE DEF y
    <3>2. x.request = y /\ y # Nil BY <2>5, <2>7 DEF y
    <3>3. f.timeout = y.timeout /\ f.proxy = y.proxy BY <1>3, <3>2
    <3>4. f.tls = y.tls BY <1>3, <3>2
    <3> QED BY <3>1, <3>3, <3>4
  <2>9. f.ua = IF s.request.ua # Nil THEN "preserve" ELSE "clash" BY <1>2, <1>3, <2>1
  <2> QED BY <2>8, <2>9
<1>6. s.url # Nil => url = s.url BY DEF s
<1>7. f.name = safe_display_name(s.name) /\ f.desc = s.desc /\ f.auto = s.policy.auto /\ f.interval = s.policy.interval
  BY <1>2, <1>3
<1>8. EditShows(d, s) BY <1>3, <1>4, <1>5, <1>6, <1>7 DEF EditShows
<1> QED BY <1>8 DEF d, x, s

\* A dialog is filled with what was read for it.
LEMMA FilledShown ==
  ASSUME LocksIInv, ShownIInv, NEW c \in calls, c \in Readings, isCurrentDialog(c, "edit"), c.owner = epoch,
         calls' = calls \ {c}, UNCHANGED <<app, epoch, page>>, NEW x, NEW url, dialog' = Filled(dialog, x, url),
         ViewShaped(x), url \in PageUrls,
         c.id \in DOMAIN app.subs => x = View(c.id) /\ (x.kind = "remote" => url = app.subs[c.id].url)
  PROVE  ShownIInv'
<1>i. DialogFormed /\ epoch \in Nat /\ (\A d \in calls : d.owner \in Nat) /\ StateValid(app)
  BY DEF LocksIInv, Formed, DialogFormed, CallFormed
<1>s. StoreShaped(app) /\ ReadingsFit /\ DialogShaped BY DEF ShownIInv
<1>1. dialog # Nil /\ dialog.mode = "edit" /\ dialog.id = c.id BY DEF isCurrentDialog
<1>2. dialog.loading = TRUE /\ page.pending = Nil /\ dialog.share = Nil BY <1>1, ReadingLoads
<1>3. SameSubs(app, app') BY DEF SameSubs, SameFields
<1>4. CallsFine /\ BatchKept BY DEF CallsFine, BatchKept
<1>5. StoreShaped(app)' /\ RequestsFit' /\ BatchFits' /\ ReadingsApart' BY <1>i, <1>3, <1>4, CallsFrame
<1>6. \A d \in Readings' : d.owner # epoch' BY <1>s DEF Readings, ReadingsFit
<1>7. ReadingsFit' BY <1>5, <1>6 DEF ReadingsFit, ReadingsApart
<1>8. ReadingsTrue' BY <1>6 DEF ReadingsTrue
<1> DEFINE e == Filled(dialog, x, url)
<1>9. /\ e.mode = "edit" /\ e.id = c.id /\ e.share = Nil /\ e.sent = dialog.sent /\ e.loading = FALSE /\ e.form.kind = x.kind
  BY <1>i, <1>1, <1>2 DEF Filled, defaultForm, DialogFormed
<1>10. FormShaped(e.form) BY <1>i, <1>1, FilledShaped
<1>11. dialog' = e OBVIOUS
<1>12. c.id \in DOMAIN app.subs => EditShows(e, app.subs[c.id])
  <2> SUFFICES ASSUME c.id \in DOMAIN app.subs PROVE EditShows(e, app.subs[c.id]) OBVIOUS
  <2> DEFINE i == c.id
  <2>1. x = SettingsOf(app, i) BY DEF View, SettingsOf
  <2>2. app.subs[i].url # Nil => x.kind = "remote"
    <3>1. SettingsOf(app, i).kind = Kinds[SourceKind(app.subs[i])] BY SettingsFields
    <3> QED BY <2>1, <3>1 DEF Kinds, SourceKind
  <2>3. app.subs[i].url # Nil => url = app.subs[i].url BY <2>2
  <2> HIDE DEF i
  <2>4. i \in DOMAIN app.subs BY DEF i
  <2>5. EditShows(Filled(dialog, SettingsOf(app, i), url), app.subs[i]) BY <1>i, <1>s, <1>1, <2>3, <2>4, FilledShows
  <2> QED BY <2>1, <2>5 DEF i
<1> HIDE DEF e
<1>13. DialogShaped'
  <2>1. e.sent \in BOOLEAN /\ e.loading \in BOOLEAN
    <3>1. {dialog.loading, dialog.sent} \subseteq BOOLEAN BY <1>s, <1>1 DEF DialogShaped
    <3>2. dialog.sent \in BOOLEAN BY <3>1
    <3> QED BY <1>9, <3>2
  <2>2. {e.loading, e.sent} \subseteq BOOLEAN BY <2>1
  <2>3. x.kind \in {"remote", "manual"} BY DEF ViewShaped
  <2>4. \A d \in calls' : d.cmd \in Writes => d.cmd = "edit" BY <1>s, <1>1 DEF DialogShaped
  <2>5. page'.pending = Nil /\ Nil # "dialog" BY <1>2 DEF Pendings
  <2>6. FormShaped(dialog'.form) /\ {dialog'.loading, dialog'.sent} \subseteq BOOLEAN BY <1>10, <1>11, <2>2
  <2>7. dialog'.form.kind \in {"remote", "manual"} /\ dialog'.share = Nil BY <1>9, <1>11, <2>3
  <2> QED BY <2>4, <2>5, <2>6, <2>7, Zenon DEF DialogShaped
<1>14. DialogTrue' BY <1>9, <1>11, <1>12 DEF DialogTrue
<1> QED BY <1>5, <1>7, <1>8, <1>13, <1>14 DEF ShownIInv

\* The settings are there, and the URL is asked for.
LEMMA ReadNextShown ==
  ASSUME LocksIInv, ShownIInv, NEW c \in calls, c.cmd = "settings", c \in Readings, c.answer.status = "ok",
         isCurrentDialog(c, "edit"), c.owner = epoch, c.answer.value.kind = "remote",
         calls' = (calls \ {c}) \cup {Call("share", c.id, c.owner, c.answer.value)},
         UNCHANGED <<app, dialog, epoch, page>>
  PROVE  ShownIInv'
<1>i. DialogFormed /\ epoch \in Nat BY DEF LocksIInv, Formed, DialogFormed
<1>s. StoreShaped(app) /\ RequestsFit /\ BatchFits /\ ReadingsFit /\ ReadingsTrue /\ DialogShaped /\ DialogTrue
  BY DEF ShownIInv
<1>1. dialog # Nil /\ dialog.mode = "edit" /\ dialog.id = c.id BY DEF isCurrentDialog
<1>2. dialog.loading = TRUE /\ page.pending = Nil BY <1>1, ReadingLoads
<1> DEFINE n == Call("share", c.id, c.owner, c.answer.value)
<1>3. n.cmd = "share" /\ n.id = c.id /\ n.owner = c.owner /\ n.arg = c.answer.value /\ n.answer = NoAnswer BY CallSent
<1>4. calls' = (calls \ {c}) \cup {n} OBVIOUS
<1> HIDE DEF n
<1>5. n.answer.status = "none" BY <1>3 DEF NoAnswer
<1>6. \A x \in calls' : (x \in calls /\ x # c) \/ x = n BY <1>4
<1>7. StoreShaped(app)' BY <1>s
<1>8. RequestsFit' BY <1>s, <1>3, <1>6 DEF RequestsFit
<1>9. BatchFits' BY <1>s, <1>3, <1>6 DEF BatchFits, Writes
<1>10. \A x \in Readings' : (x \in Readings /\ x # c) \/ x = n BY <1>6 DEF Readings
<1>11. \A x \in Readings : x # c => x.owner # c.owner BY <1>s DEF ReadingsFit
<1>12. \A x, y \in Readings' : x.owner = y.owner => x = y
  <2> SUFFICES ASSUME NEW x \in Readings', NEW y \in Readings', x.owner = y.owner PROVE x = y OBVIOUS
  <2>1. CASE x = n
    <3>1. y.owner = c.owner BY <1>3, <2>1
    <3> QED BY <1>10, <1>11, <2>1, <3>1
  <2>2. CASE x \in Readings /\ x # c
    <3>1. x.owner # c.owner BY <1>11, <2>2
    <3>2. y \in Readings BY <1>3, <1>10, <3>1
    <3> QED BY <1>s, <2>2, <3>2 DEF ReadingsFit
  <2> QED BY <1>10, <2>1, <2>2
<1>13. ReadingsFit'
  <2>1. \A x \in Readings' : x.owner <= epoch' BY <1>s, <1>i, <1>3, <1>10 DEF ReadingsFit
  <2>2. \A x \in Readings' :
         /\ x.cmd = "settings" /\ x.answer.status = "ok" => ViewShaped(x.answer.value)
         /\ x.cmd = "share" /\ x.answer.status = "ok" => x.answer.value \in PageUrls
         /\ x.cmd = "share" /\ x.arg # Nil => ViewShaped(x.arg) /\ x.arg.kind = "remote"
    BY <1>s, <1>3, <1>5, <1>10 DEF ReadingsFit
  <2>3. dialog'.loading BY <1>2
  <2> QED BY <1>12, <2>1, <2>2, <2>3 DEF ReadingsFit
<1>14. ReadingsTrue'
  <2> SUFFICES ASSUME dialog.id \in DOMAIN app.subs, NEW x \in Readings', x.owner = epoch, x.id = dialog.id
               PROVE  /\ x.cmd = "settings" /\ x.answer.status = "ok" => x.answer.value = View(x.id)
                      /\ x.cmd = "share" /\ x.answer.status = "ok" => x.answer.value = app.subs[x.id].url
                      /\ x.cmd = "share" /\ x.arg # Nil => x.arg = View(x.id)
    BY DEF ReadingsTrue, View
  <2>1. CASE x = n
    <3>1. c.answer.value = View(c.id) BY <1>s, <1>1 DEF ReadingsTrue
    <3> QED BY <1>3, <1>5, <2>1, <3>1
  <2>2. CASE x \in Readings BY <1>s, <1>1, <2>2 DEF ReadingsTrue
  <2> QED BY <1>10, <2>1, <2>2
<1>15. DialogShaped'
  <2>1. \A x \in calls' : x.cmd \in Writes => x \in calls BY <1>3, <1>6 DEF Writes
  <2>2. dialog.mode = "edit" /\ dialog' = dialog /\ page' = page /\ dialog # Nil BY <1>1
  <2>3. \A x \in calls' : x.cmd \in Writes => x.cmd = "edit" BY <1>s, <2>1, <2>2 DEF DialogShaped
  <2> QED BY <1>s, <2>2, <2>3, Zenon DEF DialogShaped
<1>16. DialogTrue'
  <2>1. \A x \in calls : x.cmd = "edit" => x \in calls' BY <1>4
  <2> QED BY <1>s, <1>2, <2>1 DEF DialogTrue
<1> QED BY <1>7, <1>8, <1>9, <1>13, <1>14, <1>15, <1>16 DEF ShownIInv

\* The answer of get_subscription_settings.
LEMMA AnswerSettingsShown == ASSUME LocksIInv, ShownIInv, AnswerSettings PROVE ShownIInv'
<1>1. PICK c \in calls :
        /\ c.cmd = "settings" /\ c.answer # NoAnswer /\ app' = app
        /\ \/ calls' = calls \ {c} /\ UNCHANGED <<dialog, epoch, page>>
           \/ calls' = calls \ {c} /\ resetDialog(page)
           \/ /\ isCurrentDialog(c, "edit") /\ Succeeded(c.answer) /\ c.answer.value.kind = "remote"
              /\ calls' = (calls \ {c}) \cup {Call("share", c.id, c.owner, c.answer.value)}
              /\ UNCHANGED <<dialog, epoch, page>>
           \/ /\ isCurrentDialog(c, "edit") /\ Succeeded(c.answer) /\ c.answer.value.kind # "remote"
              /\ calls' = calls \ {c}
              /\ dialog' = Filled(dialog, c.answer.value, Blank)
              /\ UNCHANGED <<epoch, page>>
  BY Zenon DEF AnswerSettings
<1>2. /\ c \in Readings /\ c.owner \in Nat /\ (Succeeded(c.answer) => c.answer.status = "ok")
      /\ isCurrentDialog(c, "edit") => dialog # Nil /\ dialog.mode = "edit" /\ dialog.id = c.id /\ c.owner = epoch
  BY <1>1, ReadingFacts
<1>3. CASE calls' = calls \ {c} /\ UNCHANGED <<dialog, epoch, page>> BY <1>1, <1>3, DropShown
<1>4. CASE calls' = calls \ {c} /\ resetDialog(page)
  <2>1. calls' \subseteq calls BY <1>4
  <2> QED BY <1>1, <1>4, <2>1, ResetShown
<1>5. CASE /\ isCurrentDialog(c, "edit") /\ Succeeded(c.answer) /\ c.answer.value.kind = "remote"
           /\ calls' = (calls \ {c}) \cup {Call("share", c.id, c.owner, c.answer.value)}
           /\ UNCHANGED <<dialog, epoch, page>>
  BY <1>1, <1>2, <1>5, ReadNextShown
<1>6. CASE /\ isCurrentDialog(c, "edit") /\ Succeeded(c.answer) /\ c.answer.value.kind # "remote"
           /\ calls' = calls \ {c}
           /\ dialog' = Filled(dialog, c.answer.value, Blank)
           /\ UNCHANGED <<epoch, page>>
  <2> DEFINE x == c.answer.value
             url == Blank
  <2>1. ViewShaped(x) BY <1>1, <1>2, <1>6 DEF ShownIInv, ReadingsFit
  <2>2. url \in PageUrls BY DEF Blank, PageUrls
  <2>3. c.id \in DOMAIN app.subs => x = View(c.id) BY <1>1, <1>2, <1>6 DEF ShownIInv, ReadingsTrue
  <2>4. dialog' = Filled(dialog, x, url) /\ x.kind # "remote" BY <1>6
  <2> HIDE DEF x, url
  <2> QED BY <1>1, <1>2, <1>6, <2>1, <2>2, <2>3, <2>4, FilledShown
<1> QED BY <1>1, <1>3, <1>4, <1>5, <1>6

\* The answer of get_subscription_share_url, for a dialog that edits.
LEMMA AnswerShareShown == ASSUME LocksIInv, ShownIInv, AnswerShare PROVE ShownIInv'
<1>1. PICK c \in calls :
        /\ c.cmd = "share" /\ c.answer # NoAnswer /\ c.arg # Nil /\ app' = app /\ calls' = calls \ {c}
        /\ \/ UNCHANGED <<dialog, epoch, page>>
           \/ resetDialog(page)
           \/ /\ isCurrentDialog(c, "edit") /\ Succeeded(c.answer)
              /\ dialog' = Filled(dialog, c.arg, c.answer.value) /\ UNCHANGED <<epoch, page>>
  BY Zenon DEF AnswerShare
<1>2. /\ c \in Readings /\ c.owner \in Nat /\ (Succeeded(c.answer) => c.answer.status = "ok")
      /\ isCurrentDialog(c, "edit") => dialog # Nil /\ dialog.mode = "edit" /\ dialog.id = c.id /\ c.owner = epoch
  BY <1>1, ReadingFacts
<1>3. CASE UNCHANGED <<dialog, epoch, page>> BY <1>1, <1>3, DropShown
<1>4. CASE resetDialog(page)
  <2>1. calls' \subseteq calls BY <1>1
  <2> QED BY <1>1, <1>4, <2>1, ResetShown
<1>5. CASE /\ isCurrentDialog(c, "edit") /\ Succeeded(c.answer)
           /\ dialog' = Filled(dialog, c.arg, c.answer.value) /\ UNCHANGED <<epoch, page>>
  <2> DEFINE x == c.arg
             url == c.answer.value
  <2>1. ViewShaped(x) /\ url \in PageUrls BY <1>1, <1>2, <1>5 DEF ShownIInv, ReadingsFit
  <2>2. c.id \in DOMAIN app.subs => x = View(c.id) /\ url = app.subs[c.id].url
    BY <1>1, <1>2, <1>5 DEF ShownIInv, ReadingsTrue
  <2>3. dialog' = Filled(dialog, x, url) BY <1>5
  <2> HIDE DEF x, url
  <2> QED BY <1>1, <1>2, <1>5, <2>1, <2>2, <2>3, FilledShown
<1> QED BY <1>1, <1>3, <1>4, <1>5

\* The same, for a QR code.
LEMMA AnswerQrShown == ASSUME LocksIInv, ShownIInv, AnswerQr PROVE ShownIInv'
<1>i. Formed /\ DialogFormed /\ epoch \in Nat /\ (\A d \in calls : d.owner \in Nat)
  BY DEF LocksIInv, Formed, DialogFormed, CallFormed
<1>s. StoreShaped(app) /\ ReadingsFit /\ ReadingsTrue /\ DialogShaped BY DEF ShownIInv
<1>1. PICK c \in calls :
        /\ c.cmd = "share" /\ c.answer # NoAnswer /\ app' = app /\ calls' = calls \ {c}
        /\ \/ UNCHANGED <<dialog, epoch, page>>
           \/ resetDialog(page)
           \/ /\ isCurrentDialog(c, "qr") /\ Succeeded(c.answer)
              /\ dialog' = [dialog EXCEPT !.share = c.answer.value]
              /\ page' = [page EXCEPT !.pending = Nil] /\ UNCHANGED epoch
  BY Zenon DEF AnswerQr
<1>2. /\ c \in Readings /\ (Succeeded(c.answer) => c.answer.status = "ok")
      /\ isCurrentDialog(c, "qr") => dialog # Nil /\ dialog.mode = "qr" /\ dialog.id = c.id /\ c.owner = epoch
  BY <1>1, ReadingFacts
<1>3. CASE UNCHANGED <<dialog, epoch, page>> BY <1>1, <1>3, DropShown
<1>4. CASE resetDialog(page)
  <2>1. calls' \subseteq calls BY <1>1
  <2> QED BY <1>1, <1>4, <2>1, ResetShown
<1>5. CASE /\ isCurrentDialog(c, "qr") /\ Succeeded(c.answer)
           /\ dialog' = [dialog EXCEPT !.share = c.answer.value]
           /\ page' = [page EXCEPT !.pending = Nil] /\ UNCHANGED epoch
  <2> DEFINE url == c.answer.value
             e == [dialog EXCEPT !.share = url]
  <2>1. dialog # Nil /\ dialog.mode = "qr" /\ dialog.id = c.id BY <1>2, <1>5
  <2>2. /\ e.mode = "qr" /\ e.id = c.id /\ e.share = url /\ e.form = dialog.form /\ e.loading = dialog.loading
        /\ e.sent = dialog.sent
    BY <1>i, <2>1 DEF DialogFormed
  <2>3. c.id \in DOMAIN app.subs => url = app.subs[c.id].url BY <1>s, <1>1, <1>2, <1>5 DEF ReadingsTrue
  <2>4. dialog' = e BY <1>5
  <2>5. page'.pending = Nil BY <1>i, <1>5 DEF Formed, PageFormed
  <2> HIDE DEF url, e
  <2>6. SameSubs(app, app') BY <1>1 DEF SameSubs, SameFields
  <2>7. CallsFine /\ BatchKept BY <1>1, <2>5 DEF CallsFine, BatchKept, Batches, Pendings
  <2>8. epoch' = epoch BY <1>5
  <2>9. StoreShaped(app)' /\ RequestsFit' /\ BatchFits' /\ ReadingsApart' BY <1>i, <2>6, <2>7, <2>8, CallsFrame
  <2>10. ReadingsFit' BY <2>2, <2>4, <2>9 DEF ReadingsFit, ReadingsApart
  <2>11. ReadingsTrue'
    <3>1. Readings' \subseteq Readings BY <1>1 DEF Readings
    <3> QED BY <1>s, <1>1, <2>1, <2>2, <2>4, <2>8, <3>1 DEF ReadingsTrue, View
  <2>12. DialogShaped'
    <3>1. FormShaped(e.form) /\ {e.loading, e.sent} \subseteq BOOLEAN BY <1>s, <2>1, <2>2 DEF DialogShaped
    <3>2. dialog'.mode = "qr" /\ dialog'.mode # "edit" /\ dialog'.mode \notin {"create", "edit"} BY <2>2, <2>4
    <3> QED BY <2>4, <3>1, <3>2, Zenon DEF DialogShaped
  <2>13. DialogTrue' BY <1>1, <2>2, <2>3, <2>4 DEF DialogTrue
  <2> QED BY <2>9, <2>10, <2>11, <2>12, <2>13 DEF ShownIInv
<1> QED BY <1>1, <1>3, <1>4, <1>5

\* Escape or the backdrop.
LEMMA CloseShown == ASSUME LocksIInv, ShownIInv, CloseDialog PROVE ShownIInv'
BY ResetShown DEF CloseDialog

-----------------------------------------------------------------------------
(* What the user types *)

\* The dialog d with another form, or confirmed, is the same dialog.
SameDialog(d, e) ==
  /\ e.mode = d.mode /\ e.id = d.id /\ e.loading = d.loading /\ e.sent = d.sent /\ e.share = d.share

\* A step on the form of a dialog that goes on showing what is stored.
LEMMA TypedShown ==
  ASSUME LocksIInv, ShownIInv, dialog # Nil, UNCHANGED <<app, calls, page, epoch>>, SameDialog(dialog, dialog'),
         FormShaped(dialog'.form),
         dialog.mode \in {"create", "edit"} => dialog'.form.kind \in {"remote", "manual"},
         dialog.mode = "edit" => \A s : EditShows(dialog, s) => EditShows(dialog', s)
  PROVE  ShownIInv'
<1>i. DialogFormed /\ epoch \in Nat /\ (\A d \in calls : d.owner \in Nat)
  BY DEF LocksIInv, Formed, DialogFormed, CallFormed
<1>s. StoreShaped(app) /\ ReadingsFit /\ ReadingsTrue /\ DialogShaped /\ DialogTrue BY DEF ShownIInv
<1> DEFINE e == dialog'
<1>1. e.mode = dialog.mode /\ e.id = dialog.id /\ e.loading = dialog.loading /\ e.sent = dialog.sent
      /\ e.share = dialog.share
  BY DEF SameDialog
<1>2. SameSubs(app, app') BY DEF SameSubs, SameFields
<1>3. CallsFine /\ BatchKept BY DEF CallsFine, BatchKept
<1>4. StoreShaped(app)' /\ RequestsFit' /\ BatchFits' /\ ReadingsApart' BY <1>i, <1>2, <1>3, CallsFrame
<1>5. Readings' = Readings BY DEF Readings
<1>6. ReadingsFit' BY <1>s, <1>1, <1>4, <1>5 DEF ReadingsFit, ReadingsApart
<1>7. ReadingsTrue' BY <1>s, <1>1, <1>5 DEF ReadingsTrue, View
<1>8. DialogShaped'
  <2>1. {dialog.loading, dialog.sent} \subseteq BOOLEAN BY <1>s DEF DialogShaped
  <2>2. {e.loading, e.sent} \subseteq BOOLEAN BY <1>1, <2>1
  <2>3. e.share # Nil => e.mode = "qr" BY <1>s, <1>1 DEF DialogShaped
  <2>4. e.mode = "edit" =>
         /\ page'.pending \in {Nil, "dialog"}
         /\ page'.pending = "dialog" => ~e.loading /\ e.sent
         /\ \A c \in calls' : c.cmd \in Writes => c.cmd = "edit"
    <3> SUFFICES ASSUME e.mode = "edit"
                 PROVE  /\ page.pending \in {Nil, "dialog"}
                        /\ page.pending = "dialog" => ~e.loading /\ e.sent
                        /\ \A c \in calls : c.cmd \in Writes => c.cmd = "edit"
      OBVIOUS
    <3>1. dialog.mode = "edit" BY <1>1
    <3>2. page.pending = "dialog" => ~dialog.loading /\ dialog.sent BY <1>s, <3>1 DEF DialogShaped
    <3>3. page.pending \in {Nil, "dialog"} /\ \A c \in calls : c.cmd \in Writes => c.cmd = "edit"
      BY <1>s, <3>1, Zenon DEF DialogShaped
    <3> QED BY <1>1, <3>2, <3>3, Zenon
  <2>5. e.mode \in {"create", "edit"} => e.form.kind \in {"remote", "manual"} BY <1>1
  <2> QED BY <2>2, <2>3, <2>4, <2>5, Zenon DEF DialogShaped
<1>9. DialogTrue'
  <2> SUFFICES ASSUME e.id \in DOMAIN app.subs
               PROVE  /\ e.share # Nil => e.share = app.subs[e.id].url
                      /\ e.mode = "edit" /\ ~e.loading =>
                           \/ EditShows(e, app.subs[e.id])
                           \/ e.sent /\ app.subs[e.id].name = "tabbed"
                           \/ \E c \in calls : c.cmd = "edit" /\ c.answer.status = "ok"
    BY DEF DialogTrue
  <2>1. /\ dialog.share # Nil => dialog.share = app.subs[dialog.id].url
        /\ dialog.mode = "edit" /\ ~dialog.loading =>
             \/ EditShows(dialog, app.subs[dialog.id])
             \/ dialog.sent /\ app.subs[dialog.id].name = "tabbed"
             \/ \E c \in calls : c.cmd = "edit" /\ c.answer.status = "ok"
    BY <1>s, <1>1 DEF DialogTrue
  <2>2. dialog.mode = "edit" /\ EditShows(dialog, app.subs[dialog.id]) => EditShows(e, app.subs[dialog.id]) OBVIOUS
  <2> HIDE DEF e
  <2> QED BY <1>1, <2>1, <2>2
<1> QED BY <1>4, <1>6, <1>7, <1>8, <1>9 DEF ShownIInv

\* Fields that are not in t are those of the form before.
FormKeeps(f, g, t) ==
  \A x \in {"name", "desc", "url", "ua", "timeout", "proxy", "tls", "auto", "interval"} : x \notin t => g[x] = f[x]

\* patchForm.
LEMMA PatchedShown ==
  ASSUME LocksIInv, ShownIInv, dialog # Nil, NEW f, NEW t, patchForm(f, t), FormShaped(f),
         \/ f.kind = dialog.form.kind /\ FormKeeps(dialog.form, f, t)
         \/ dialog.mode = "create" /\ f.kind \in {"remote", "manual"}
  PROVE  ShownIInv'
<1>i. DialogFormed /\ DialogShaped BY DEF LocksIInv, Formed, ShownIInv
<1> DEFINE e == [dialog EXCEPT !.form = f, !.touched = @ \cup t, !.confirmed = @ /\ "tls" \notin t]
<1>1. /\ e.mode = dialog.mode /\ e.id = dialog.id /\ e.loading = dialog.loading /\ e.sent = dialog.sent
      /\ e.share = dialog.share /\ e.original = dialog.original /\ e.form = f /\ e.touched = dialog.touched \cup t
  BY <1>i DEF DialogFormed
<1>2. dialog' = e /\ UNCHANGED <<app, calls, page, epoch>> BY DEF patchForm
<1> HIDE DEF e
<1>3. ASSUME dialog.mode = "edit", NEW s, EditShows(dialog, s) PROVE EditShows(e, s)
  <2> DEFINE d == dialog
             U(x) == x \notin d.touched /\ x \notin t
  <2>0. f.kind = d.form.kind /\ FormKeeps(d.form, f, t) BY <1>3
  <2>1. \A x : x \notin e.touched => U(x) BY <1>1
  <2>2. /\ U("name") => f.name = d.form.name
        /\ U("desc") => f.desc = d.form.desc
        /\ U("url") => f.url = d.form.url
        /\ U("ua") => f.ua = d.form.ua
        /\ U("timeout") => f.timeout = d.form.timeout
        /\ U("proxy") => f.proxy = d.form.proxy
        /\ U("interval") => f.interval = d.form.interval
    BY <2>0 DEF FormKeeps
  <2>3. U("tls") => f.tls = d.form.tls BY <2>0 DEF FormKeeps
  <2>4. U("auto") => f.auto = d.form.auto BY <2>0 DEF FormKeeps
  <2>5. /\ U("name") => d.form.name = safe_display_name(s.name)
        /\ U("desc") => d.form.desc = s.desc
        /\ d.form.kind = "remote" <=> s.url # Nil
        /\ s.url # Nil =>
             /\ d.original = s.url
             /\ U("url") => d.form.url = s.url
             /\ U("interval") => d.form.interval = s.policy.interval
             /\ U("ua") => (d.form.ua = "preserve" <=> s.request.ua # Nil)
             /\ U("ua") => d.form.ua \in {"preserve", "clash"}
             /\ U("timeout") => d.form.timeout = s.request.timeout
             /\ U("proxy") => d.form.proxy = ProxyModes[s.request.proxy]
    BY <1>3, Zenon DEF EditShows
  <2>6. s.url # Nil /\ U("tls") => d.form.tls = s.request.tls BY <1>3, Zenon DEF EditShows
  <2>7. s.url # Nil /\ U("auto") => d.form.auto = s.policy.auto BY <1>3, Zenon DEF EditShows
  <2> HIDE DEF d, U
  <2>8. s.url # Nil /\ U("tls") => f.tls = s.request.tls BY <2>3, <2>6
  <2>9. s.url # Nil /\ U("auto") => f.auto = s.policy.auto BY <2>4, <2>7
  <2> QED BY <1>1, <2>0, <2>1, <2>2, <2>5, <2>8, <2>9 DEF EditShows, d
<1>4. SameDialog(dialog, e) BY <1>1 DEF SameDialog
<1>5. dialog.mode \in {"create", "edit"} => e.form.kind \in {"remote", "manual"} BY <1>i, <1>1 DEF DialogShaped
<1> QED BY <1>1, <1>2, <1>3, <1>4, <1>5, TypedShown

\* What can be typed fits the form.
LEMMA TypingShown ==
  ASSUME LocksIInv, ShownIInv, TouchKind \/ TouchNames \/ TouchUrl \/ TouchContent \/ TouchOptions
  PROVE  ShownIInv'
<1> DEFINE g == dialog.form
<1>1. dialog # Nil
  BY Zenon DEF TouchKind, TouchNames, TouchUrl, TouchContent, TouchOptions, Typing
<1>2. FormShaped(g) BY <1>1 DEF ShownIInv, DialogShaped
<1>3. DOMAIN g = {"kind", "name", "desc", "url", "ua", "timeout", "proxy", "tls", "auto", "interval", "content"}
  BY <1>2 DEF FormShaped, defaultForm
<1>4. g.url \in PageUrls /\ g.timeout \in Nat /\ g.proxy \in ProxyNames /\ g.interval \in Nat \cup {Nil}
      /\ (g.kind = "remote" /\ g.interval # Nil => g.auto)
  BY <1>2 DEF FormShaped
<1>5. g.tls \in BOOLEAN /\ g.auto \in BOOLEAN BY <1>2 DEF FormShaped
<1> DEFINE Fits(f, t) == /\ FormShaped(f)
                         /\ \/ f.kind = g.kind /\ FormKeeps(g, f, t)
                            \/ dialog.mode = "create" /\ f.kind \in {"remote", "manual"}
<1>6. ASSUME NEW f, NEW t, Fits(f, t), patchForm(f, t) PROVE ShownIInv' BY <1>1, <1>6, PatchedShown
<1>d. DOMAIN defaultForm = DOMAIN g BY <1>2 DEF FormShaped
<1>k. \A f, t : (\A x \in DOMAIN g : x \notin t => f[x] = g[x]) => FormKeeps(g, f, t) BY <1>3 DEF FormKeeps
<1> HIDE DEF g
\* A form with these fields has the shape of one.
<1>s. ASSUME NEW f, DOMAIN f = DOMAIN g, f.url \in PageUrls, f.timeout \in Nat, f.proxy \in ProxyNames,
             f.tls \in BOOLEAN, f.auto \in BOOLEAN, f.interval \in Nat \cup {Nil},
             f.kind = "remote" /\ f.interval # Nil => f.auto
      PROVE  FormShaped(f)
  <2>1. {f.tls, f.auto} \subseteq BOOLEAN BY <1>s
  <2> QED BY <1>d, <1>s, <2>1 DEF FormShaped
\* One field is patched.
<1>p. ASSUME NEW x \in {"name", "desc", "url", "content", "ua", "timeout", "proxy", "tls", "interval"}, NEW v,
             x = "url" => v \in PageUrls, x = "timeout" => v \in Nat, x = "proxy" => v \in ProxyNames,
             x = "tls" => v \in BOOLEAN, x = "interval" => v \in Nat \cup {Nil} /\ g.auto,
             patchForm([g EXCEPT ![x] = v], {x})
      PROVE  ShownIInv'
  <2> DEFINE f == [g EXCEPT ![x] = v]
             t == {x}
  <2>1. DOMAIN f = DOMAIN g /\ (\A y \in DOMAIN g : y # x => f[y] = g[y]) /\ f[x] = v BY <1>3
  <2>2. patchForm(f, t) BY <1>p
  <2>3. x \in t /\ \A y : y \notin t => y # x OBVIOUS
  <2> HIDE DEF f, t
  <2>4. FormKeeps(g, f, t) BY <1>k, <2>1, <2>3
  <2>5. f.kind = g.kind /\ f.auto = g.auto BY <1>3, <2>1
  <2>6. f.url \in PageUrls /\ f.timeout \in Nat /\ f.proxy \in ProxyNames /\ f.interval \in Nat \cup {Nil}
    BY <1>3, <1>4, <1>p, <2>1
  <2>7. f.tls \in BOOLEAN
    <3>1. CASE x = "tls" BY <1>p, <2>1, <3>1
    <3>2. CASE x # "tls"
      <4>1. f.tls = g.tls BY <1>3, <2>1, <3>2
      <4> QED BY <1>5, <4>1
    <3> QED BY <3>1, <3>2
  <2>8. f.auto \in BOOLEAN BY <1>5, <2>5
  <2>9. f.kind = "remote" /\ f.interval # Nil => f.auto BY <1>3, <1>4, <1>p, <2>1, <2>5
  <2>10. FormShaped(f) BY <1>s, <2>1, <2>6, <2>7, <2>8, <2>9
  <2> QED BY <1>6, <2>2, <2>4, <2>5, <2>10
<1>7. CASE TouchKind
  <2>1. PICK k \in {"remote", "manual"} : patchForm([g EXCEPT !.kind = k, !.auto = k = "remote", !.content = Nil], {"kind"})
    BY <1>7 DEF TouchKind, g
  <2>2. dialog.mode = "create" BY <1>7 DEF TouchKind, Typing
  <2> DEFINE b == k = "remote"
             f == [g EXCEPT !.kind = k, !.auto = b, !.content = Nil]
             t == {"kind"}
  <2>3. patchForm(f, t) BY <2>1
  <2>4. b \in BOOLEAN /\ (k = "remote" => b) OBVIOUS
  <2> HIDE DEF b
  <2>5. DOMAIN f = DOMAIN g /\ f.kind = k /\ f.auto = b /\ f.url = g.url /\ f.timeout = g.timeout
        /\ f.proxy = g.proxy /\ f.tls = g.tls /\ f.interval = g.interval
    BY <1>3
  <2> HIDE DEF f, t
  <2>6. f.tls \in BOOLEAN /\ f.auto \in BOOLEAN BY <1>5, <2>4, <2>5
  <2>7. FormShaped(f) BY <1>4, <1>s, <2>4, <2>5, <2>6
  <2> QED BY <1>6, <2>2, <2>3, <2>5, <2>7
<1>8. CASE TouchNames
  <2>1. \/ \E n : patchForm([g EXCEPT !["name"] = n], {"name"}) \/ patchForm([g EXCEPT !["desc"] = "new"], {"desc"})
    BY <1>8 DEF TouchNames, g
  <2> QED BY <1>p, <2>1
<1>9. CASE TouchUrl
  <2>1. PICK u \in {Url(x) : x \in Sites} \cup {BadUrl} : patchForm([g EXCEPT !["url"] = u], {"url"})
    BY <1>9 DEF TouchUrl, g
  <2>2. u \in PageUrls
    <3>1. BadUrl \in PageUrls BY DEF PageUrls, BadUrl
    <3>2. \A x \in Sites : Url(x) \in PageUrls BY DEF PageUrls, Url
    <3> QED BY <3>1, <3>2
  <2> QED BY <1>p, <2>1, <2>2
<1>10. CASE TouchContent
  <2>1. patchForm([g EXCEPT !["content"] = "text"], {"content"}) BY <1>10 DEF TouchContent, g
  <2> QED BY <1>p, <2>1
<1>11. CASE TouchOptions
  <2> DEFINE f == [g EXCEPT !.auto = ~@, !.interval = IF g.auto THEN Nil ELSE @]
  <2>1. \/ \E a : patchForm([g EXCEPT !["ua"] = a], {"ua"})
        \/ \E n \in {4, 60} : patchForm([g EXCEPT !["timeout"] = n], {"timeout"})
        \/ \E p \in {"system", "managedCore"} : patchForm([g EXCEPT !["proxy"] = p], {"proxy"})
        \/ patchForm([g EXCEPT !["tls"] = ~@], {"tls"})
        \/ patchForm(f, {"auto", "interval"})
        \/ g.auto /\ \E n \in {Nil, 2} : patchForm([g EXCEPT !["interval"] = n], {"interval"})
    BY <1>11 DEF TouchOptions, g
  <2>2. CASE \E a : patchForm([g EXCEPT !["ua"] = a], {"ua"}) BY <1>p, <2>2
  <2>3. CASE \E n \in {4, 60} : patchForm([g EXCEPT !["timeout"] = n], {"timeout"})
    <3>1. PICK n \in {4, 60} : patchForm([g EXCEPT !["timeout"] = n], {"timeout"}) BY <2>3
    <3>2. n \in Nat OBVIOUS
    <3> QED BY <1>p, <3>1, <3>2
  <2>4. CASE \E p \in {"system", "managedCore"} : patchForm([g EXCEPT !["proxy"] = p], {"proxy"})
    <3>1. PICK p \in {"system", "managedCore"} : patchForm([g EXCEPT !["proxy"] = p], {"proxy"}) BY <2>4
    <3>2. p \in ProxyNames BY DEF ProxyNames
    <3> QED BY <1>p, <3>1, <3>2
  <2>5. CASE patchForm([g EXCEPT !["tls"] = ~@], {"tls"})
    <3> DEFINE b == ~g["tls"]
    <3>1. b \in BOOLEAN OBVIOUS
    <3>2. patchForm([g EXCEPT !["tls"] = b], {"tls"}) BY <2>5
    <3> HIDE DEF b
    <3> QED BY <1>p, <3>1, <3>2
  <2>6. CASE g.auto /\ \E n \in {Nil, 2} : patchForm([g EXCEPT !["interval"] = n], {"interval"})
    <3>1. PICK n \in {Nil, 2} : g.auto /\ patchForm([g EXCEPT !["interval"] = n], {"interval"}) BY <2>6
    <3>2. n \in Nat \cup {Nil} OBVIOUS
    <3> QED BY <1>p, <3>1, <3>2
  <2>7. CASE patchForm(f, {"auto", "interval"})
    <3> DEFINE b == ~g.auto
               n == IF g.auto THEN Nil ELSE g.interval
               t == {"auto", "interval"}
    <3>1. b \in BOOLEAN /\ n \in Nat \cup {Nil} /\ (n # Nil => b) BY <1>4
    <3>2. f = [g EXCEPT !.auto = b, !.interval = n] OBVIOUS
    <3> HIDE DEF b, n, f
    <3>3. DOMAIN f = DOMAIN g /\ f.auto = b /\ f.interval = n
          /\ \A y \in DOMAIN g : y # "auto" /\ y # "interval" => f[y] = g[y]
      BY <1>3, <3>2
    <3>4. "auto" \in t /\ "interval" \in t /\ patchForm(f, t) BY <2>7
    <3> HIDE DEF t
    <3>5. FormKeeps(g, f, t)
      <4>1. \A x \in DOMAIN g : x \notin t => f[x] = g[x] BY <3>3, <3>4
      <4> QED BY <1>k, <4>1
    <3>6. f.kind = g.kind /\ f.url \in PageUrls /\ f.timeout \in Nat /\ f.proxy \in ProxyNames BY <1>3, <1>4, <3>3
    <3>7. f.tls \in BOOLEAN /\ f.auto \in BOOLEAN
      <4>1. f.tls = g.tls BY <1>3, <3>3
      <4> QED BY <1>5, <3>1, <3>3, <4>1
    <3>8. f.interval \in Nat \cup {Nil} /\ (f.interval # Nil => f.auto) BY <3>1, <3>3
    <3>9. FormShaped(f) BY <1>s, <3>3, <3>6, <3>7, <3>8
    <3> QED BY <1>6, <3>4, <3>5, <3>6, <3>9
  <2> QED BY <2>1, <2>2, <2>3, <2>4, <2>5, <2>6, <2>7
<1> QED BY <1>7, <1>8, <1>9, <1>10, <1>11

\* The user confirms that TLS is not checked.
LEMMA ConfirmShown == ASSUME LocksIInv, ShownIInv, ConfirmTls PROVE ShownIInv'
<1>i. DialogFormed /\ DialogShaped /\ dialog # Nil BY DEF LocksIInv, Formed, ShownIInv, ConfirmTls
<1> DEFINE e == [dialog EXCEPT !.confirmed = TRUE]
<1>1. /\ e.mode = dialog.mode /\ e.id = dialog.id /\ e.loading = dialog.loading /\ e.sent = dialog.sent
      /\ e.share = dialog.share /\ e.original = dialog.original /\ e.form = dialog.form /\ e.touched = dialog.touched
  BY <1>i DEF DialogFormed
<1>2. dialog' = e /\ UNCHANGED <<app, calls, page, epoch>> BY DEF ConfirmTls
<1> HIDE DEF e
<1>3. ASSUME NEW s, EditShows(dialog, s) PROVE EditShows(e, s) BY <1>1, <1>3, Zenon DEF EditShows
<1>4. SameDialog(dialog, e) BY <1>1 DEF SameDialog
<1>5. FormShaped(e.form) /\ (dialog.mode \in {"create", "edit"} => e.form.kind \in {"remote", "manual"})
  BY <1>i, <1>1 DEF DialogShaped
<1> QED BY <1>i, <1>2, <1>3, <1>4, <1>5, TypedShown

-----------------------------------------------------------------------------
(* The application carries out a command *)

\* The call d is c with an answer.
Answers(c, d, x) ==
  d.cmd = c.cmd /\ d.id = c.id /\ d.owner = c.owner /\ d.arg = c.arg /\ d.touched = c.touched /\ d.answer = x

\* A command that leaves the subscriptions, and that no dialog reads with.
LEMMA LeavesShown ==
  ASSUME LocksIInv, ShownIInv, NEW c \in calls, c.answer = NoAnswer, c.cmd \notin {"settings", "share"},
         NEW d, NEW x, Answers(c, d, x), calls' = (calls \ {c}) \cup {d}, app'.subs = app.subs,
         UNCHANGED <<page, dialog, epoch>>
  PROVE  ShownIInv'
<1>s. RequestsFit /\ BatchFits /\ DialogShaped BY DEF ShownIInv
<1>1. SameSubs(app, app') BY DEF SameSubs, SameFields
<1>2. RequestFits(c) BY <1>s DEF RequestsFit, RequestFits
<1>3. RequestFits(d) BY <1>2 DEF RequestFits, Answers
<1>4. d.cmd = c.cmd BY DEF Answers
<1>5. d.cmd \in Writes => /\ page'.pending \in Batches => d.cmd \in {"update", "delete"}
                          /\ InEdit(dialog') => d.cmd = "edit"
  BY <1>s, <1>4 DEF BatchFits, Batches, InEdit, DialogShaped
<1>6. CallFine(d) BY <1>3, <1>4, <1>5 DEF CallFine
<1>7. CallsFine BY <1>6 DEF CallsFine
<1>8. BatchKept BY DEF BatchKept
<1>9. DialogKept
  <2>1. c.answer.status = "none" BY DEF NoAnswer
  <2>2. \A y \in calls : y.cmd = "edit" /\ y.answer.status = "ok" => y \in calls' BY <2>1
  <2> QED BY <2>2 DEF DialogKept, InEdit
<1> QED BY <1>1, <1>7, <1>8, <1>9, ShownFrame

\* What a dialog reads is what is stored.
LEMMA ReadsShown ==
  ASSUME LocksIInv, ShownIInv, NEW c \in calls, c.answer = NoAnswer, c.cmd \in {"settings", "share"},
         NEW d, NEW x, Answers(c, d, x), calls' = (calls \ {c}) \cup {d}, app'.subs = app.subs,
         UNCHANGED <<page, dialog, epoch>>,
         x.status = "ok" => c.id \in DOMAIN app.subs,
         x.status = "ok" /\ c.cmd = "settings" => x.value = SettingsOf(app, c.id),
         x.status = "ok" /\ c.cmd = "share" => x.value = app.subs[c.id].url /\ app.subs[c.id].url # Nil
  PROVE  ShownIInv'
<1>i. StateValid(app) /\ epoch \in Nat BY DEF LocksIInv, Formed, DialogFormed
<1>s. StoreShaped(app) /\ RequestsFit /\ BatchFits /\ ReadingsFit /\ ReadingsTrue /\ DialogShaped /\ DialogTrue
  BY DEF ShownIInv
<1>1. d.cmd = c.cmd /\ d.id = c.id /\ d.owner = c.owner /\ d.arg = c.arg /\ d.answer = x BY DEF Answers
<1>2. \A y \in calls' : (y \in calls /\ y # c) \/ y = d OBVIOUS
<1>3. StoreShaped(app)' BY <1>s DEF StoreShaped
<1>4. RequestsFit' BY <1>s, <1>1, <1>2 DEF RequestsFit
<1>5. BatchFits' BY <1>s, <1>1, <1>2 DEF BatchFits, Writes
<1>6. c \in Readings /\ \A y \in Readings' : (y \in Readings /\ y # c) \/ y = d BY <1>2 DEF Readings
<1>7. \A y \in Readings : y # c => y.owner # c.owner BY <1>s, <1>6 DEF ReadingsFit
<1>8. \A y, z \in Readings' : y.owner = z.owner => y = z
  <2> SUFFICES ASSUME NEW y \in Readings', NEW z \in Readings', y.owner = z.owner PROVE y = z OBVIOUS
  <2>1. CASE y = d
    <3>1. z.owner = c.owner BY <1>1, <2>1
    <3> QED BY <1>6, <1>7, <2>1, <3>1
  <2>2. CASE y \in Readings /\ y # c
    <3>1. y.owner # c.owner BY <1>7, <2>2
    <3>2. z \in Readings BY <1>1, <1>6, <3>1
    <3> QED BY <1>s, <2>2, <3>2 DEF ReadingsFit
  <2> QED BY <1>6, <2>1, <2>2
<1>9. ReadingsFit'
  <2>1. \A y \in Readings' : y.owner <= epoch' BY <1>s, <1>1, <1>6 DEF ReadingsFit
  <2>2. x.status = "ok" /\ c.cmd = "settings" => ViewShaped(x.value) BY <1>i, <1>s, SettingsRead
  <2>3. x.status = "ok" /\ c.cmd = "share" => x.value \in PageUrls BY <1>s DEF StoreShaped, SubShaped
  <2>4. c.cmd = "share" /\ c.arg # Nil => ViewShaped(c.arg) /\ c.arg.kind = "remote" BY <1>s, <1>6 DEF ReadingsFit
  <2>5. \A y \in Readings' :
         /\ y.cmd = "settings" /\ y.answer.status = "ok" => ViewShaped(y.answer.value)
         /\ y.cmd = "share" /\ y.answer.status = "ok" => y.answer.value \in PageUrls
         /\ y.cmd = "share" /\ y.arg # Nil => ViewShaped(y.arg) /\ y.arg.kind = "remote"
    BY <1>s, <1>1, <1>6, <2>2, <2>3, <2>4 DEF ReadingsFit
  <2>6. dialog # Nil /\ dialog.mode = "edit" /\ ~dialog.loading => \A y \in Readings' : y.owner # epoch
    BY <1>s, <1>1, <1>6 DEF ReadingsFit
  <2> QED BY <1>8, <2>1, <2>5, <2>6 DEF ReadingsFit
<1>10. \A i : SettingsOf(app', i) = SettingsOf(app, i) BY DEF SettingsOf, settings_for
<1>11. ReadingsTrue'
  <2> SUFFICES ASSUME dialog # Nil, dialog.mode \in {"edit", "qr"}, dialog.id \in DOMAIN app.subs,
                      NEW y \in Readings', y.owner = epoch, y.id = dialog.id
               PROVE  /\ y.cmd = "settings" /\ y.answer.status = "ok" => y.answer.value = SettingsOf(app, y.id)
                      /\ y.cmd = "share" /\ y.answer.status = "ok" => y.answer.value = app.subs[y.id].url
                      /\ y.cmd = "share" /\ y.arg # Nil => y.arg = SettingsOf(app, y.id)
    BY <1>10 DEF ReadingsTrue, View, SettingsOf
  <2>1. CASE y = d
    <3>1. c.cmd = "share" /\ c.arg # Nil => c.arg = SettingsOf(app, c.id)
      BY <1>s, <1>1, <1>6, <2>1 DEF ReadingsTrue, View, SettingsOf
    <3> QED BY <1>1, <2>1, <3>1
  <2>2. CASE y \in Readings BY <1>s, <2>2 DEF ReadingsTrue, View, SettingsOf
  <2> QED BY <1>6, <2>1, <2>2
<1>12. \A y \in calls' : y.cmd \in Writes => y \in calls BY <1>1, <1>2 DEF Writes
<1>13. DialogShaped'
  <2>1. dialog # Nil /\ dialog.mode = "edit" => \A y \in calls' : y.cmd \in Writes => y.cmd = "edit"
    BY <1>s, <1>12 DEF DialogShaped
  <2> QED BY <1>s, <2>1, Zenon DEF DialogShaped
<1>14. DialogTrue'
  <2>1. \A y \in calls : y.cmd = "edit" => y \in calls' OBVIOUS
  <2> QED BY <1>s, <2>1 DEF DialogTrue
<1> QED BY <1>3, <1>4, <1>5, <1>9, <1>11, <1>13, <1>14 DEF ShownIInv

\* A write is what the dialog shows, or ends it.
LEMMA WritesShown ==
  ASSUME LocksIInv, ShownIInv, NEW c \in calls, c.answer = NoAnswer, c.cmd \in Writes,
         NEW d, NEW x, Answers(c, d, x), x.status \in {"ok", "error"}, calls' = (calls \ {c}) \cup {d},
         UNCHANGED <<page, dialog, epoch>>, StoreShaped(app'),
         c.cmd = "edit" =>
           /\ DOMAIN app'.subs = DOMAIN app.subs
           /\ \A i \in DOMAIN app.subs : i # c.id => app'.subs[i] = app.subs[i]
           /\ app'.subs[c.id].name # "tabbed" => x.status = "ok"
  PROVE  ShownIInv'
<1>i. LocksFit BY DEF LocksIInv
<1>s. RequestsFit /\ BatchFits /\ ReadingsFit /\ DialogShaped /\ DialogTrue BY DEF ShownIInv
<1>1. d.cmd = c.cmd /\ d.id = c.id /\ d.answer = x BY DEF Answers
<1>2. \A y \in calls' : (y \in calls /\ y # c) \/ y = d OBVIOUS
<1>3. \A y \in calls : y # c => y.cmd \notin Exclusive BY <1>i DEF LocksFit, Exclusive
<1>4. x # NoAnswer /\ c.answer.status = "none" BY DEF NoAnswer
<1>5. RequestsFit' BY <1>1, <1>2, <1>3, <1>4 DEF RequestsFit, Exclusive, Writes
<1>6. BatchFits' BY <1>s, <1>1, <1>2 DEF BatchFits
<1>7. Readings' = Readings BY <1>1, <1>2 DEF Readings, Writes
<1>8. ReadingsFit' BY <1>s, <1>7 DEF ReadingsFit
<1>9. page.pending \in WritePendings BY <1>i DEF LocksFit
<1>10. dialog # Nil => dialog.mode # "qr" BY <1>i, <1>9 DEF LocksFit, WritePendings, Pendings
<1>11. ASSUME dialog # Nil, dialog.mode = "edit"
       PROVE  c.cmd = "edit" /\ page.pending = "dialog" /\ ~dialog.loading /\ dialog.sent
              /\ \A y \in Readings : y.owner # epoch
  <2>1. c.cmd = "edit" /\ page.pending \in {Nil, "dialog"} BY <1>s, <1>11 DEF DialogShaped
  <2>2. page.pending = "dialog" BY <1>9, <2>1 DEF WritePendings, Pendings
  <2>3. ~dialog.loading /\ dialog.sent BY <1>s, <1>11, <2>2 DEF DialogShaped
  <2> QED BY <1>s, <1>11, <2>1, <2>2, <2>3 DEF ReadingsFit
<1>12. ReadingsTrue' BY <1>7, <1>10, <1>11 DEF ReadingsTrue
<1>13. DialogShaped'
  <2>1. dialog # Nil /\ dialog.mode = "edit" => \A y \in calls' : y.cmd \in Writes => y.cmd = "edit"
    BY <1>s, <1>1, <1>2, <1>11 DEF DialogShaped
  <2> QED BY <1>s, <2>1, Zenon DEF DialogShaped
<1>14. DialogTrue'
  <2> SUFFICES ASSUME dialog # Nil, dialog.id \in DOMAIN app'.subs
               PROVE  /\ dialog.share # Nil => dialog.share = app'.subs[dialog.id].url
                      /\ dialog.mode = "edit" /\ ~dialog.loading =>
                           \/ EditShows(dialog, app'.subs[dialog.id])
                           \/ dialog.sent /\ app'.subs[dialog.id].name = "tabbed"
                           \/ \E y \in calls' : y.cmd = "edit" /\ y.answer.status = "ok"
    BY DEF DialogTrue
  <2>1. dialog.share = Nil BY <1>s, <1>10 DEF DialogShaped
  <2>2. ASSUME dialog.mode = "edit", ~dialog.loading
        PROVE  \/ EditShows(dialog, app'.subs[dialog.id])
               \/ dialog.sent /\ app'.subs[dialog.id].name = "tabbed"
               \/ \E y \in calls' : y.cmd = "edit" /\ y.answer.status = "ok"
    <3>1. c.cmd = "edit" /\ dialog.sent BY <1>11, <2>2
    <3>2. CASE dialog.id = c.id
      <4>1. app'.subs[c.id].name # "tabbed" => d \in calls' /\ d.cmd = "edit" /\ d.answer.status = "ok" BY <1>1, <3>1
      <4> QED BY <3>1, <3>2, <4>1
    <3>3. CASE dialog.id # c.id
      <4>1. dialog.id \in DOMAIN app.subs /\ app'.subs[dialog.id] = app.subs[dialog.id] BY <3>1, <3>3
      <4>2. ~\E y \in calls : y.cmd = "edit" /\ y.answer.status = "ok" BY <1>3, <1>4 DEF Exclusive, Writes
      <4> QED BY <1>s, <2>2, <4>1, <4>2 DEF DialogTrue
    <3> QED BY <3>2, <3>3
  <2> QED BY <2>1, <2>2
<1> QED BY <1>5, <1>6, <1>8, <1>12, <1>13, <1>14 DEF ShownIInv

\* What Perform does, and what OutcomesShown says of it.
LEMMA PerformedShown ==
  ASSUME LocksIInv, ShownIInv, NEW c \in calls, c.answer = NoAnswer, c.cmd # "activate", NEW o \in Outcomes(c)
  PROVE  OutcomeShown(c, o) /\ o.answer.status \in {"ok", "error"}
<1>1. used \in Nat /\ AppFormed(app, used) /\ StateValid(app) /\ c.cmd \in Commands
  BY DEF LocksIInv, Formed, CallFormed
<1>2. StoreShaped(app) /\ RequestFits(c) BY DEF ShownIInv, RequestsFit, RequestFits
<1>3. OutcomeShown(c, o) BY <1>1, <1>2, OutcomesShown
<1>4. PerformFits(c, o) BY <1>1, OutcomesFit
<1> QED BY <1>3, <1>4 DEF PerformFits, OutcomeFits

\* The application carries out a command.
LEMMA PerformShown == ASSUME LocksIInv, ShownIInv, Perform PROVE ShownIInv'
<1>1. PICK c \in calls : \E o \in Outcomes(c) :
        /\ c.answer = NoAnswer /\ c.cmd # "activate" /\ app' = o.app
        /\ calls' = (calls \ {c}) \cup {[c EXCEPT !.answer = Received(c.cmd, o.answer)]}
        /\ UNCHANGED <<page, dialog, epoch>>
  BY DEF Perform
<1>2. PICK o \in Outcomes(c) :
        /\ c.answer = NoAnswer /\ c.cmd # "activate" /\ app' = o.app
        /\ calls' = (calls \ {c}) \cup {[c EXCEPT !.answer = Received(c.cmd, o.answer)]}
        /\ UNCHANGED <<page, dialog, epoch>>
  BY <1>1
<1>3. OutcomeShown(c, o) /\ o.answer.status \in {"ok", "error"} BY <1>2, PerformedShown
<1> DEFINE x == Received(c.cmd, o.answer)
           d == [c EXCEPT !.answer = x]
<1>4. Answers(c, d, x)
  <2>1. CallFormed(c, used) BY DEF LocksIInv, Formed
  <2> QED BY <2>1 DEF Answers, CallFormed
<1>5. /\ x.status \in {"ok", "error"} /\ (x.status = "ok" => x = o.answer)
      /\ o.answer.status # "error" /\ Reads(c.cmd, o.answer) => x = o.answer
  BY <1>3 DEF Received, Failure
<1>6. calls' = (calls \ {c}) \cup {d} BY <1>2
<1> HIDE DEF x, d
<1>7. CASE c.cmd \in {"settings", "share"}
  <2>1. app'.subs = app.subs BY <1>2, <1>3, <1>7 DEF OutcomeShown, Writes
  <2>2. /\ x.status = "ok" => c.id \in DOMAIN app.subs
        /\ x.status = "ok" /\ c.cmd = "settings" => x.value = SettingsOf(app, c.id)
        /\ x.status = "ok" /\ c.cmd = "share" => x.value = app.subs[c.id].url /\ app.subs[c.id].url # Nil
    BY <1>3, <1>5, <1>7 DEF OutcomeShown
  <2> QED BY <1>2, <1>4, <1>6, <1>7, <2>1, <2>2, ReadsShown
<1>8. CASE c.cmd \notin {"settings", "share"} /\ (c.cmd \notin Writes \/ o.answer.status = "error")
  <2>1. app'.subs = app.subs BY <1>2, <1>3, <1>8 DEF OutcomeShown
  <2> QED BY <1>2, <1>4, <1>6, <1>8, <2>1, LeavesShown
<1>9. CASE c.cmd \in Writes /\ o.answer.status # "error"
  <2>1. StoreShaped(app') BY <1>2, <1>3 DEF OutcomeShown
  <2>2. c.cmd = "edit" =>
          /\ DOMAIN app'.subs = DOMAIN app.subs
          /\ \A i \in DOMAIN app.subs : i # c.id => app'.subs[i] = app.subs[i]
          /\ app'.subs[c.id].name # "tabbed" => x.status = "ok"
    BY <1>2, <1>3, <1>5, <1>9 DEF OutcomeShown
  <2> QED BY <1>2, <1>4, <1>5, <1>6, <1>9, <2>1, <2>2, WritesShown
<1> QED BY <1>7, <1>8, <1>9

-----------------------------------------------------------------------------
(* The invariant of what is shown, and the properties that it carries *)

\* The program starts with it.
LEMMA FirstShown == PageInit => ShownIInv
<1> SUFFICES ASSUME PageInit PROVE ShownIInv OBVIOUS
<1>1. app.subs = FirstSubs /\ calls = {} /\ dialog = Nil /\ page.pending = Nil BY DEF PageInit
<1>2. DOMAIN FirstSubs = {FirstSub, SecondSub} BY DEF FirstSubs
<1>3. SubShaped(FirstSubs[FirstSub])
  <2> DEFINE s == FirstSubs[FirstSub]
             r == [ua |-> "agent", timeout |-> 30, proxy |-> "Direct", tls |-> TRUE]
             p == [auto |-> TRUE, interval |-> 1]
  <2>1. s = [name |-> "long", desc |-> "old", url |-> Url(FirstSub), request |-> r, policy |-> p]
    BY DEF FirstSubs, DefaultRequest
  <2>2. p \in Policies BY DEF Policies
  <2>3. DOMAIN r = {"ua", "timeout", "proxy", "tls"} /\ r.timeout \in Nat /\ r.proxy = "Direct" /\ r.tls \in BOOLEAN OBVIOUS
  <2>4. "Direct" \in DOMAIN ProxyModes BY DEF ProxyModes
  <2>5. Url(FirstSub) \in PageUrls BY DEF Url, PageUrls
  <2> HIDE DEF r, p
  <2>6. DOMAIN s = {"name", "desc", "url", "request", "policy"} /\ s.policy = p /\ s.request = r /\ s.url = Url(FirstSub)
    BY <2>1
  <2> HIDE DEF s
  <2>7. SubShaped(s) BY <2>2, <2>3, <2>4, <2>5, <2>6 DEF SubShaped
  <2> QED BY <2>7 DEF s
<1>4. SubShaped(FirstSubs[SecondSub])
  <2> DEFINE s == FirstSubs[SecondSub]
  <2>1. DOMAIN s = {"name", "desc", "url", "request", "policy"} /\ s.url = Nil /\ s.policy = ManualPolicy
    BY DEF FirstSubs
  <2>2. ManualPolicy \in Policies BY DEF ManualPolicy, Policies
  <2> HIDE DEF s
  <2>3. SubShaped(s) BY <2>1, <2>2 DEF SubShaped
  <2> QED BY <2>3 DEF s
<1>5. StoreShaped(app) BY <1>1, <1>2, <1>3, <1>4 DEF StoreShaped
<1>6. RequestsFit /\ ReadingsFit /\ ReadingsTrue /\ DialogShaped /\ DialogTrue
  BY <1>1 DEF RequestsFit, ReadingsFit, ReadingsTrue, DialogShaped, DialogTrue, Readings
<1>7. BatchFits BY <1>1 DEF BatchFits
<1> QED BY <1>5, <1>6, <1>7 DEF ShownIInv

\* Every step keeps it.
LEMMA ShownStep == LocksIInv /\ LocksIInv' /\ ShownIInv /\ [PageNext]_pageVars => ShownIInv'
<1> SUFFICES ASSUME LocksIInv, LocksIInv', ShownIInv, [PageNext]_pageVars PROVE ShownIInv' OBVIOUS
<1>1. CASE QuietAction BY <1>1, QuietActions, QuietShown
<1>2. CASE Perform BY <1>2, PerformShown
<1>3. CASE ScheduledUpdate BY <1>3, ScheduledShown
<1>4. CASE openCreateDialog \/ openReplaceDialog \/ openDeleteDialog \/ openSettingsDialog \/ openQrDialog
  BY <1>4, OpenShown
<1>5. CASE AnswerSettings BY <1>5, AnswerSettingsShown
<1>6. CASE AnswerShare BY <1>6, AnswerShareShown
<1>7. CASE AnswerQr BY <1>7, AnswerQrShown
<1>8. CASE CloseDialog BY <1>8, CloseShown
<1>9. CASE TouchKind \/ TouchNames \/ TouchUrl \/ TouchContent \/ TouchOptions BY <1>9, TypingShown
<1>10. CASE ConfirmTls BY <1>10, ConfirmShown
<1>11. CASE submitDialog \/ confirmDelete \/ deleteSelected BY <1>11, SendShown
<1>12. CASE submitQuickImport \/ updateOne \/ updateAll BY <1>12, BeginShown
<1>13. CASE AnswerOne BY <1>13, AnswerOneShown
<1>14. CASE AnswerNext BY <1>14, AnswerNextShown
<1>15. CASE UNCHANGED pageVars
  <2>1. QuietStep BY <1>15 DEF QuietStep, pageVars
  <2> QED BY <2>1, QuietShown
<1>16. PageNext \/ UNCHANGED pageVars OBVIOUS
<1> QED BY <1>1, <1>2, <1>3, <1>4, <1>5, <1>6, <1>7, <1>8, <1>9, <1>10, <1>11, <1>12, <1>13, <1>14, <1>15, <1>16,
           Zenon DEF PageNext, QuietAction

\* What is stored, asked for, read and shown fits, whatever the order of the answers
\* (SubscriptionPage.tsx with the commands of subscriptions).
THEOREM ShownInvariance == PageSpec => [](LocksIInv /\ ShownIInv)
<1>1. PageInit => LocksIInv /\ ShownIInv BY FirstLocks, FirstShown
<1>2. LocksIInv /\ ShownIInv /\ [PageNext]_pageVars => LocksIInv' /\ ShownIInv' BY LocksStep, ShownStep
<1> QED BY <1>1, <1>2, PTL DEF PageSpec

\* Of a dialog, nothing but an edit that was stored can make the form false.
LEMMA FormAgrees == LocksIInv /\ ShownIInv => FormShowsStored
<1> SUFFICES ASSUME LocksIInv, ShownIInv, dialog # Nil, ~dialog.loading, dialog.id \in DOMAIN app.subs,
                    app.subs[dialog.id].name # "tabbed"
             PROVE  /\ dialog.share # Nil => dialog.share = app.subs[dialog.id].url
                    /\ dialog.mode = "edit" /\ page.pending = Nil => EditShows(dialog, app.subs[dialog.id])
  BY DEF FormShowsStored, EditShows
<1>1. DialogTrue BY DEF ShownIInv
<1>2. page.doc = Nil BY DEF LocksIInv, LocksFit
<1>3. page.pending = Nil => \A c \in calls : c.cmd # "edit" BY <1>2, IdleFacts DEF Exclusive, Writes
<1> QED BY <1>1, <1>3 DEF DialogTrue

\* What a dialog shows and compares with, and what the editor shows of the core, is
\* what is stored and what runs (isCurrentDialog and dialogEpochRef in
\* SubscriptionPage.tsx, matchesRuntimeSession).
THEOREM ShownIsStoredHolds == PageSpec => []ShownIsStored
<1>1. LocksIInv /\ ShownIInv /\ RuntimeDocumentIsCurrent => ShownIsStored BY FormAgrees DEF ShownIsStored
<1> QED BY <1>1, ShownInvariance, RuntimeDocumentIsCurrentHolds, PTL

\* The page reads an activation that is done: the subscription is selected, at the
\* generation that the answer names.
LEMMA ActivatedReads ==
  ASSUME NEW a, StoreShaped(a), a.gen \in Nat, NEW i \in DOMAIN a.subs, SubscriptionValid(a.subs[i]),
         a.subs[i].name # "tabbed", a.active = i, NEW op, NEW current
  PROVE  Reads("activate", Activated(op, i, a, current))
<1> DEFINE s == SubscriptionSummaryResponse(summary_for(a, i))
           y == Activated(op, i, a, current)
<1>1. parseSummary(s) BY SummaryReads
<1>2. s.active = (a.active = i) /\ s.gen = (IF a.active = i THEN a.gen ELSE Nil)
  BY DEF SubscriptionSummaryResponse, summary_for
<1> HIDE DEF s
<1>3. y.status = "ok" /\ y.value.gen = a.gen /\ y.value.subscription = s BY DEF Activated, Ok, s
<1> HIDE DEF y
<1>4. parseActivateResult(y) BY <1>1, <1>2, <1>3 DEF parseActivateResult
<1> QED BY <1>4 DEF Reads, y

\* The page knows the errors of an activation, and which of them name no operation.
LEMMA ActivationErrorReads ==
  ASSUME NEW op, NEW e \in GivenUpErrors \cup UnappliedErrors \cup {"Busy", "StateUnavailable",
         "SelectionConflict", "ConfigurationFailed", "NotFound"}
  PROVE  Reads("activate", activation_error(op, e))
<1> DEFINE y == activation_error(op, e)
<1>1. ActivationError[e] \in activationErrors \ {"identityFailed"}
  BY DEF GivenUpErrors, UnappliedErrors, ActivationError, activationErrors
<1>2. y.status = "error" /\ y.error = ActivationError[e] /\ y.op = {op} BY DEF activation_error
<1> HIDE DEF y
<1>3. parseActivateResult(y) BY <1>1, <1>2 DEF parseActivateResult
<1> QED BY <1>3 DEF Reads, y

\* What is selected for the call c is stored as it was, under the next generation.
LEMMA SelectedForCall ==
  ASSUME AppFormed(app, used), NEW c
  PROVE  Selecting(c).subs = app.subs /\ Selecting(c).active = c.id /\ Selecting(c).gen \in Nat
<1>1. CASE app.active = c.id BY <1>1 DEF Selecting, AppFormed
<1>2. CASE app.active # c.id
  <2>1. Selecting(c) = next_generation([app EXCEPT !.active = c.id]) BY <1>2 DEF Selecting
  <2> QED BY <2>1 DEF next_generation, AppFormed
<1> QED BY <1>1, <1>2

\* The page reads what an activation is answered: the worker has what the call c waits
\* for, and has selected it once it applies it.
LEMMA ActivationAnswersRead ==
  ASSUME LocksIInv, ShownIInv, \A i \in DOMAIN app.subs : app.subs[i].name # "tabbed",
         NEW c \in Activations, NEW a \in ActivationAnswers(c)
  PROVE  Reads("activate", a)
<1>i. /\ StateValid(app) /\ StoreShaped(app) /\ AppFormed(app, used) /\ WorkFits /\ ActivationFits
      /\ \A i \in DOMAIN app.subs : SubscriptionValid(app.subs[i])
  BY DEF LocksIInv, ShownIInv, Formed, StateValid
<1>1. CASE ~c.waits /\ a = Err(ActivationError, "IdentityFailed")
  <2>1. a.status = "error" /\ a.error = "identityFailed" /\ a.op = {} BY <1>1 DEF Err, ActivationError
  <2>2. parseActivateResult(a) BY <2>1 DEF parseActivateResult, activationErrors
  <2> QED BY <2>2 DEF Reads
<1>2. ASSUME NEW e \in PreflightErrors(c), a = activation_error(c.owner, e) PROVE Reads("activate", a)
  BY <1>2, ActivationErrorReads DEF PreflightErrors
<1>3. CASE ~c.waits /\ IsCurrent(c) /\ a = CurrentAnswer(c)
  <2>1. c.id \in DOMAIN app.subs BY <1>3 DEF IsCurrent
  <2>2. Selecting(c).subs = app.subs /\ Selecting(c).active = c.id /\ Selecting(c).gen \in Nat
    BY <1>i, SelectedForCall
  <2>3. StoreShaped(Selecting(c)) BY <1>i, <2>2 DEF StoreShaped
  <2> QED BY <1>i, <1>3, <2>1, <2>2, <2>3, ActivatedReads DEF CurrentAnswer
<1>4. CASE a = StillPending(c.owner)
  <2>1. a.status = "pending" BY <1>4 DEF StillPending
  <2>2. parseActivateResult(a) BY <2>1 DEF parseActivateResult
  <2> QED BY <2>2 DEF Reads
<1>5. ASSUME NEW e \in GivenUpErrors \cup UnappliedErrors, a = activation_error(work.op, e)
      PROVE  Reads("activate", a)
  BY <1>5, ActivationErrorReads
<1>6. CASE c.waits /\ work.stage = "applying" /\ a = Activated(work.op, work.id, app, FALSE)
  <2>1. work # Nil BY <1>i, <1>6 DEF ActivationFits, Activations
  <2>2. work.id \in DOMAIN app.subs /\ app.active = work.id /\ app.gen \in Nat
    BY <1>i, <1>6, <2>1 DEF WorkFits, AppFormed
  <2> QED BY <1>i, <1>6, <2>2, ActivatedReads
<1>7. CASE c.waits
  <2>1. a = StillPending(c.owner) \/ a \in WorkerAnswers BY <1>7 DEF ActivationAnswers
  <2>2. work # Nil /\ work \in Works BY <1>i, <1>7 DEF ActivationFits, Activations, WorkFits
  <2>3. CASE a \in WorkerAnswers /\ work.stage = "sent" BY <2>3 DEF WorkerAnswers
  <2>4. CASE a \in WorkerAnswers /\ work.stage = "queued"
    <3>1. PICK e \in GivenUpErrors : a = activation_error(work.op, e) BY <2>4 DEF WorkerAnswers
    <3> QED BY <1>5, <3>1
  <2>5. CASE a \in WorkerAnswers /\ work.stage = "applying"
    <3>1. \/ a = Activated(work.op, work.id, app, FALSE)
          \/ \E e \in UnappliedErrors : a = activation_error(work.op, e)
      BY <2>5 DEF WorkerAnswers
    <3> QED BY <1>5, <1>6, <1>7, <2>5, <3>1
  <2>6. work.stage \in {"sent", "queued", "applying"} BY <2>2 DEF Works
  <2> QED BY <1>4, <2>1, <2>3, <2>4, <2>5, <2>6
<1>8. CASE ~c.waits
  <2>1. a \in Rejections(c) \/ (IsCurrent(c) /\ a = CurrentAnswer(c)) BY <1>8 DEF ActivationAnswers
  <2>2. CASE a \in Rejections(c) BY <1>1, <1>2, <1>8, <2>2 DEF Rejections
  <2> QED BY <1>3, <1>8, <2>1, <2>2
<1> QED BY <1>7, <1>8

\* The page reads every answer: but for a name with a control character, what the
\* commands of commands.rs answer, an activation's answers included, is what the
\* readers of subscriptions.ts accept.
THEOREM EveryAnswerIsReadHolds == PageSpec => []EveryAnswerIsRead
<1>1. ASSUME LocksIInv, ShownIInv PROVE EveryAnswerIsRead
  <2>i. StateValid(app) /\ StoreShaped(app) /\ app.gen \in Nat BY <1>1 DEF LocksIInv, ShownIInv, Formed, AppFormed
  <2>1. ASSUME \A i \in DOMAIN app.subs : app.subs[i].name # "tabbed", NEW o \in list(app)
        PROVE  Reads("list", o.answer)
    <3> DEFINE v == [i \in DOMAIN app.subs |-> SubscriptionSummaryResponse(summary_for(app, i))]
    <3>1. CASE o \in Refusals(app, map_access_error)
      <4>1. o.answer.status = "error" /\ o.answer.error \in subscriptionErrors
        BY <3>1, ErrorSets, RefusalsDecline, DeclinedFacts
      <4> QED BY <4>1 DEF Reads
    <3>2. CASE o \in Answered(app, v)
      <4>1. \A i \in DOMAIN app.subs : parseSummary(SubscriptionSummaryResponse(summary_for(app, i)))
        BY <2>i, <2>1, SummaryReads DEF StateValid
      <4>2. DOMAIN v = DOMAIN app.subs /\ \A i \in DOMAIN app.subs : parseSummary(v[i]) BY <4>1
      <4> HIDE DEF v
      <4>3. o.answer.status = "ok" /\ o.answer.value = v BY <3>2 DEF Answered, Ok
      <4> QED BY <4>2, <4>3 DEF Reads
    <3> QED BY <2>1, <3>1, <3>2 DEF list
  <2>2. ASSUME NEW c \in calls, c.answer = NoAnswer, c.cmd # "activate", NEW o \in Outcomes(c),
               \A i \in DOMAIN o.app.subs : o.app.subs[i].name # "tabbed"
        PROVE  Reads(c.cmd, o.answer)
    BY <1>1, <2>2, PerformedShown DEF OutcomeShown
  <2>3. ASSUME \A i \in DOMAIN app.subs : app.subs[i].name # "tabbed",
               NEW c \in Activations, NEW a \in ActivationAnswers(c)
        PROVE  Reads("activate", a)
    BY <1>1, <2>3, ActivationAnswersRead
  <2> QED BY <2>1, <2>2, <2>3 DEF EveryAnswerIsRead
<1> QED BY <1>1, ShownInvariance, PTL

\* Nothing else writes a subscription.
LEMMA OthersLeave ==
  ASSUME LocksIInv, [PageNext]_pageVars, ~Perform, ~ScheduledUpdate PROVE app'.subs = app.subs
<1>1. CASE QuietAction BY <1>1, QuietActions DEF QuietStep
<1>2. CASE openCreateDialog \/ openReplaceDialog \/ openDeleteDialog \/ openSettingsDialog \/ openQrDialog
  BY <1>2, Zenon DEF openCreateDialog, openReplaceDialog, openDeleteDialog, openSettingsDialog, openQrDialog, beginDialog
<1>3. CASE AnswerSettings \/ AnswerShare \/ AnswerQr \/ CloseDialog
  BY <1>3, Zenon DEF AnswerSettings, AnswerShare, AnswerQr, CloseDialog
<1>4. CASE TouchKind \/ TouchNames \/ TouchUrl \/ TouchContent \/ TouchOptions \/ ConfirmTls
  BY <1>4, Zenon DEF TouchKind, TouchNames, TouchUrl, TouchContent, TouchOptions, ConfirmTls, patchForm
<1>5. CASE submitDialog \/ confirmDelete \/ deleteSelected
  <2>1. \E cmd, i, arg, t : Send(cmd, i, arg, t) BY <1>5, Zenon DEF submitDialog, confirmDelete, deleteSelected
  <2> QED BY <2>1, Zenon DEF Send
<1>6. CASE submitQuickImport \/ updateOne \/ updateAll
  BY <1>6, Zenon DEF submitQuickImport, updateOne, updateAll, Begin
<1>7. CASE AnswerOne \/ AnswerNext BY <1>7, Zenon DEF AnswerOne, AnswerNext
<1>8. CASE UNCHANGED pageVars BY <1>8 DEF pageVars
<1> QED BY <1>1, <1>2, <1>3, <1>4, <1>5, <1>6, <1>7, <1>8, Zenon DEF PageNext, QuietAction

\* More may have been touched.
LEMMA KeptMore ==
  ASSUME NEW s, NEW n, NEW t, NEW u, t \subseteq u, FieldsKept(s, n, t) PROVE FieldsKept(s, n, u)
BY DEF FieldsKept

\* The user's fields of the requests for i that are under way.
TouchedOf(i) == UNION {c.touched : c \in {d \in calls : d.id = i /\ d.answer = NoAnswer}}

\* A step leaves what no request under way is about.
LEMMA FieldsStep ==
  ASSUME LocksIInv, ShownIInv, [PageNext]_pageVars, NEW i \in DOMAIN app.subs \cap DOMAIN app'.subs
  PROVE  FieldsKept(app.subs[i], app'.subs[i], TouchedOf(i))
<1> DEFINE s == app.subs[i]
           n == app'.subs[i]
<1>i. AppFormed(app, used) /\ StoreShaped(app) BY DEF LocksIInv, Formed, ShownIInv
<1>1. CASE Perform
  <2>1. PICK c \in calls : \E o \in Outcomes(c) : c.answer = NoAnswer /\ c.cmd # "activate" /\ app' = o.app
    BY <1>1 DEF Perform
  <2>2. PICK o \in Outcomes(c) : c.answer = NoAnswer /\ c.cmd # "activate" /\ app' = o.app BY <2>1
  <2> DEFINE t == IF c.cmd = "edit" /\ i = c.id THEN c.touched ELSE {}
  <2>3. FieldsKept(s, n, t) BY <2>2, PerformedShown DEF OutcomeShown
  <2>4. t \subseteq TouchedOf(i) BY <2>2 DEF TouchedOf
  <2> HIDE DEF s, n, t
  <2>5. FieldsKept(s, n, TouchedOf(i)) BY <2>3, <2>4, KeptMore
  <2> QED BY <2>5 DEF s, n
<1>2. CASE ScheduledUpdate
  <2>1. PICK j \in DOMAIN app.subs : \E o \in update_with_route(app, j, Nil) : app' = o.app /\ o.event
    BY <1>2 DEF ScheduledUpdate
  <2>2. PICK o \in update_with_route(app, j, Nil) : app' = o.app /\ o.event BY <2>1
  <2>3. WriteStored(app, o, j, {}) BY <1>i, UpdateStores
  <2>4. ~Declined(app, o) BY <2>2, DeclinedFacts
  <2>5. Stores(app, app', j, {}) BY <2>2, <2>3, <2>4 DEF WriteStored, Saves
  <2>6. FieldsKept(s, n, {}) \/ n = s BY <2>5 DEF Stores
  <2>7. FieldsKept(s, s, TouchedOf(i)) BY DEF FieldsKept
  <2> HIDE DEF s, n
  <2>8. FieldsKept(s, n, TouchedOf(i))
    <3>1. {} \subseteq TouchedOf(i) OBVIOUS
    <3>2. CASE FieldsKept(s, n, {}) BY <3>1, <3>2, KeptMore
    <3> QED BY <2>6, <2>7, <3>2
  <2> QED BY <2>8 DEF s, n
<1>3. CASE ~Perform /\ ~ScheduledUpdate
  <2>1. n = s BY <1>3, OthersLeave
  <2> HIDE DEF s, n
  <2>2. FieldsKept(s, n, TouchedOf(i)) BY <2>1 DEF FieldsKept
  <2> QED BY <2>2 DEF s, n
<1> QED BY <1>1, <1>2, <1>3

\* What a dialog does not show, and what the user did not touch in it, stays
\* (EditRequest of SubscriptionPage.tsx, apply_remote_patch and
\* apply_update_policy_patch).
THEOREM UntouchedStaysHolds == PageSpec => UntouchedStays
<1>1. LocksIInv /\ ShownIInv /\ [PageNext]_pageVars =>
        [\A i \in DOMAIN app.subs \cap DOMAIN app'.subs :
           LET old == app.subs[i]
               new == app'.subs[i]
               Untouched(field) ==
                 field \notin UNION {c.touched : c \in {d \in calls : d.id = i /\ d.answer = NoAnswer}}
           IN /\ Untouched("name") => new.name \in {old.name, safe_display_name(old.name)}
              /\ Untouched("desc") => new.desc = old.desc
              /\ Untouched("url") => new.url = old.url
              /\ Untouched("auto") => new.policy.auto = old.policy.auto
              /\ Untouched("interval") =>
                   new.policy.interval = old.policy.interval \/ (old.policy.interval = Nil /\ new.policy.auto)
              /\ old.request # Nil =>
                   /\ Untouched("ua") => new.request.ua = old.request.ua
                   /\ Untouched("timeout") => new.request.timeout = old.request.timeout
                   /\ Untouched("proxy") => new.request.proxy = old.request.proxy
                   /\ Untouched("tls") => new.request.tls = old.request.tls]_pageVars
  <2> SUFFICES ASSUME LocksIInv, ShownIInv, [PageNext]_pageVars, NEW i \in DOMAIN app.subs \cap DOMAIN app'.subs
               PROVE  FieldsKept(app.subs[i], app'.subs[i], TouchedOf(i))
    BY Zenon DEF FieldsKept, TouchedOf
  <2> QED BY FieldsStep
<1> QED BY <1>1, ShownInvariance, PTL DEF PageSpec, UntouchedStays

===============================================================================
