------------------------ MODULE ObservationFeedProofs ------------------------
(***************************************************************************)
(* Proofs for ObservationFeed: what is recorded agrees with the core, every*)
(* payload is one the page can read, the page never goes back, and with    *)
(* nothing on its way it shows the newest revision, for any capacity,      *)
(* window and number of operations, revisions and actions.                 *)
(***************************************************************************)
EXTENDS ObservationFeed, SequenceTheorems, WellFoundedInduction, TLAPS

USE BoundsAssumption, NamesAssumption

(* A set of natural numbers that is not empty has a least element.         *)
LEMMA Least ==
  ASSUME NEW S \in SUBSET Nat, S # {}
  PROVE  \E x \in S : \A y \in S : x <= y
<1>1. IsWellFoundedOn(OpToRel(<, Nat), Nat) BY NatLessThanWellFounded
<1>2. PICK x \in S : \A y \in S : ~(<<y, x>> \in OpToRel(<, Nat)) BY <1>1, WFMin
<1>3. \A y \in S : ~(y < x) BY <1>2 DEF OpToRel
<1> QED BY <1>3

LEMMA TheOne == \A x : The(Some(x)) = x
BY DEF The, Some

-----------------------------------------------------------------------------
(* The snapshot: what a record and a prune keep.                           *)

Shown(s) == s \in Snapshots /\ InOrder(s.history) /\ Agrees(s)

(* The snapshot is of the core c.                                          *)
Fits(s, c) ==
  /\ s.lifecycle \in {c.state, "NotObserved"}
  /\ \A i \in DOMAIN s.history : s.history[i].child = c.child
  /\ c.state # "Ready" => s.history = <<>> /\ s.traffic = None

(* What the types say of a history.                                        *)
LEMMA HistoryFacts ==
  ASSUME NEW h \in Seq(Points)
  PROVE  /\ DOMAIN h = 1..Len(h) /\ Len(h) \in Nat
         /\ \A i \in DOMAIN h : h[i] \in Points /\ h[i].at \in Nat /\ h[i].child \in Nat
<1>1. \A p \in Points : p.at \in Nat /\ p.child \in Nat BY DEF Points
<1>2. DOMAIN h = 1..Len(h) OBVIOUS
<1>3. \A i \in DOMAIN h : h[i] \in Points BY <1>2
<1> QED BY <1>1, <1>2, <1>3

(* The recent points of a history are those from some index on.            *)
LEMMA RecentFacts ==
  ASSUME NEW h \in Seq(Points), InOrder(h), NEW oldest \in Int
  PROVE  /\ Recent(h, oldest) \in 1..(Len(h) + 1)
         /\ \A i \in DOMAIN h : h[i].at >= oldest <=> i >= Recent(h, oldest)
<1> DEFINE S == {i \in DOMAIN h : h[i].at >= oldest}
           P(k) == \A i \in DOMAIN h : h[i].at >= oldest <=> i >= k
<1>0. DOMAIN h = 1..Len(h) /\ Len(h) \in Nat /\ \A i \in DOMAIN h : h[i].at \in Nat
  BY HistoryFacts
<1>1. \E k \in 1..(Len(h) + 1) : P(k)
  <2>1. CASE S = {}
    <3>1. \A i \in DOMAIN h : ~(h[i].at >= oldest) BY <2>1
    <3>2. P(Len(h) + 1) BY <1>0, <3>1
    <3> QED BY <1>0, <3>2
  <2>2. CASE S # {}
    <3>0. S \in SUBSET Nat BY <1>0
    <3> HIDE DEF S
    <3>1. PICK k \in S : \A i \in S : k <= i BY <2>2, <3>0, Least
    <3> USE DEF S
    <3>2. \A i \in DOMAIN h : i >= k => h[i].at >= oldest
      <4>1. \A i \in DOMAIN h : i > k => h[k].at < h[i].at BY <1>0, <3>1 DEF InOrder
      <4>2. h[k].at >= oldest /\ k \in DOMAIN h BY <3>1
      <4> QED BY <1>0, <4>1, <4>2
    <3>3. P(k) BY <1>0, <3>1, <3>2
    <3>4. k \in 1..(Len(h) + 1) BY <1>0, <3>1
    <3> HIDE DEF P
    <3> QED BY <3>3, <3>4
  <2> QED BY <2>1, <2>2
<1> QED BY <1>1 DEF Recent

(* What is left of a history is its end.                                   *)
LEMMA NewestFacts ==
  ASSUME NEW h \in Seq(Points), NEW from \in 1..(Len(h) + 1)
  PROVE  /\ Newest(h, from) \in Seq(Points)
         /\ Len(Newest(h, from)) <= Capacity
         /\ \E k \in from..(Len(h) + 1) :
              /\ Len(Newest(h, from)) = Len(h) - k + 1
              /\ \A i \in DOMAIN Newest(h, from) : Newest(h, from)[i] = h[i + k - 1]
<1> DEFINE excess == Len(h) - from + 1 - Capacity
           k == IF excess > 0 THEN from + excess ELSE from
<1>1. k \in from..(Len(h) + 1) /\ Len(h) - k + 1 <= Capacity /\ k \in 1..(Len(h) + 1) OBVIOUS
<1>2. Newest(h, from) = SubSeq(h, k, Len(h)) BY DEF Newest
<1> HIDE DEF k
<1>3. /\ SubSeq(h, k, Len(h)) \in Seq(Points)
      /\ Len(SubSeq(h, k, Len(h))) = Len(h) - k + 1
      /\ \A i \in DOMAIN SubSeq(h, k, Len(h)) : SubSeq(h, k, Len(h))[i] = h[i + k - 1]
  BY <1>1
<1> QED BY <1>1, <1>2, <1>3

(* A prune keeps the order, leaves what the page accepts, and invents      *)
(* nothing.                                                                *)
LEMMA Pruned ==
  ASSUME NEW s, Shown(s), now \in Nat
  PROVE  LET p == prune_traffic_history(s)
         IN /\ Shown(p)
            /\ Len(p.history) <= Capacity
            /\ \A i \in DOMAIN p.history : now - p.history[i].at <= Window
            /\ p.rev = s.rev
            /\ \A c : Fits(s, c) => Fits(p, c)
<1> DEFINE h == s.history
           oldest == now - Window
           from == Recent(h, oldest)
           n == Newest(h, from)
           p == prune_traffic_history(s)
<1>0. h \in Seq(Points) /\ oldest \in Int /\ InOrder(h) BY DEF Shown, Snapshots
<1>1. from \in 1..(Len(h) + 1) /\ \A i \in DOMAIN h : h[i].at >= oldest <=> i >= from
  BY <1>0, RecentFacts
<1> HIDE DEF from
<1>2. /\ n \in Seq(Points) /\ Len(n) <= Capacity
      /\ \E k \in from..(Len(h) + 1) : /\ Len(n) = Len(h) - k + 1
                                       /\ \A i \in DOMAIN n : n[i] = h[i + k - 1]
  BY <1>0, <1>1, NewestFacts
<1>3. p = [s EXCEPT !.history = n]
  BY DEF prune_traffic_history, from, observed_at_ms
<1> HIDE DEF n, p
<1>4. PICK k \in from..(Len(h) + 1) : /\ Len(n) = Len(h) - k + 1
                                      /\ \A i \in DOMAIN n : n[i] = h[i + k - 1]
  BY <1>2
<1>5. /\ DOMAIN n = 1..Len(n) /\ Len(n) \in Nat
      /\ \A i \in DOMAIN n : n[i].at \in Nat
  BY <1>2, HistoryFacts
<1>h. DOMAIN h = 1..Len(h) /\ Len(h) \in Nat /\ \A i \in DOMAIN h : h[i].at \in Nat
  BY <1>0, HistoryFacts
<1>k. k \in Nat /\ k >= from BY <1>1, <1>h
<1> HIDE DEF h, oldest
<1>6. \A i \in DOMAIN n : i + k - 1 \in DOMAIN h /\ i + k - 1 >= from BY <1>1, <1>4, <1>5, <1>h, <1>k
<1>7. InOrder(n)
  <2>1. ASSUME NEW i \in DOMAIN n PROVE n[i].at <= now
    <3>1. h[i + k - 1].at <= now BY <1>0, <1>6 DEF InOrder
    <3> QED BY <1>4, <3>1
  <2>2. ASSUME NEW i \in DOMAIN n, NEW j \in DOMAIN n, i < j PROVE n[i].at < n[j].at
    <3>1. i + k - 1 < j + k - 1 BY <1>5, <1>k, <2>2
    <3>2. h[i + k - 1].at < h[j + k - 1].at BY <1>0, <1>6, <3>1 DEF InOrder
    <3> QED BY <1>4, <3>2
  <2> QED BY <2>1, <2>2 DEF InOrder
<1>8. \A i \in DOMAIN n : now - n[i].at <= Window
  <2> SUFFICES ASSUME NEW i \in DOMAIN n PROVE now - n[i].at <= Window OBVIOUS
  <2>1. h[i + k - 1].at >= oldest BY <1>1, <1>6
  <2>2. n[i].at = h[i + k - 1].at BY <1>4
  <2> DEFINE v == n[i].at
  <2>3. v >= now - Window /\ v \in Nat BY <1>5, <2>1, <2>2 DEF oldest
  <2> HIDE DEF v
  <2>4. now - v <= Window BY <2>3
  <2> QED BY <2>4 DEF v
<1>9. /\ p \in Snapshots /\ p.history = n /\ p.rev = s.rev /\ p.id = s.id /\ p.gen = s.gen
      /\ p.switch = s.switch /\ p.lifecycle = s.lifecycle /\ p.traffic = s.traffic
  BY <1>2, <1>3 DEF Shown, Snapshots
<1>10. Agrees(p) BY <1>9 DEF Shown, Agrees
<1>11. \A c : Fits(s, c) => Fits(p, c)
  <2> SUFFICES ASSUME NEW c, Fits(s, c) PROVE Fits(p, c) OBVIOUS
  <2>1. \A i \in DOMAIN n : n[i].child = c.child BY <1>4, <1>6 DEF Fits, h
  <2>2. h = <<>> => n = <<>>
    <3>1. Len(<<>>) = 0 OBVIOUS
    <3>2. h = <<>> => Len(n) = 0 BY <1>1, <1>4, <1>5, <1>k, <3>1
    <3> QED BY <1>2, <3>2
  <2>3. c.state # "Ready" => n = <<>> /\ s.traffic = None BY <2>2 DEF Fits, h
  <2>4. p.lifecycle \in {c.state, "NotObserved"} BY <1>9 DEF Fits
  <2> QED BY <1>9, <2>1, <2>3, <2>4 DEF Fits
<1>12. Shown(p) /\ Len(p.history) <= Capacity BY <1>2, <1>7, <1>9, <1>10 DEF Shown
<1>13. \A i \in DOMAIN p.history : now - p.history[i].at <= Window BY <1>8, <1>9
<1> QED BY <1>9, <1>11, <1>12, <1>13, Zenon DEF p

(* The page can read a snapshot that was pruned now.                       *)
LEMMA EventFacts ==
  ASSUME NEW s, Shown(s), now \in Nat, Len(s.history) <= Capacity,
         \A i \in DOMAIN s.history : now - s.history[i].at <= Window
  PROVE  /\ Event(s) \in EventRecords /\ Event(s).rev = s.rev
         /\ Event(s).read = {[rev |-> s.rev, at |-> now]}
<1> DEFINE r == Response(s)
<1>0. s \in Snapshots /\ InOrder(s.history) /\ Agrees(s) BY DEF Shown
<1>1. /\ r.rev = s.rev /\ r.at = now /\ r.id = s.id /\ r.gen = s.gen /\ r.switch = s.switch
      /\ r.source = map_source(s.source) /\ r.capture = map_capture_mode(s.capture)
      /\ r.lifecycle = map_sidecar_lifecycle(s.lifecycle)
      /\ r.history = [i \in DOMAIN s.history |-> s.history[i].at]
  BY DEF Response, observed_at_ms
<1> HIDE DEF r
<1>2. Len(r.history) = Len(s.history) /\ DOMAIN r.history = 1..Len(s.history)
      /\ \A i \in DOMAIN s.history : r.history[i] = s.history[i].at /\ s.history[i].at \in Nat
  <2>1. s.history \in Seq(Points) BY <1>0 DEF Snapshots
  <2>2. /\ DOMAIN s.history = 1..Len(s.history) /\ Len(s.history) \in Nat
        /\ \A i \in DOMAIN s.history : s.history[i].at \in Nat
    BY <2>1, HistoryFacts
  <2> QED BY <1>1, <2>2
<1>3. /\ r.source \in {"mock", "runtime"} /\ r.capture \in {"off", "systemProxy", "recoveryRequired"}
      /\ r.lifecycle \in {"notAttached", "stopped", "ready", "recoveryRequired"}
      /\ (s.lifecycle = "Ready" => r.lifecycle = "ready")
  BY <1>0, <1>1 DEF Snapshots, map_source, map_capture_mode, map_sidecar_lifecycle
<1>4. \A w \in r.switch : /\ isSubscriptionSwitch(w)
                          /\ w.status = "ready" => r.lifecycle = "ready" /\ r.id # None
  BY <1>0, <1>1, <1>3 DEF Agrees
<1>5. \A i \in DOMAIN r.history : /\ r.history[i] <= r.at /\ r.at - r.history[i] <= Window
                                  /\ i > 1 => r.history[i] > r.history[i - 1]
  BY <1>0, <1>1, <1>2 DEF InOrder, Snapshots
<1>6. (r.id = None) = (r.gen = None) BY <1>0, <1>1 DEF Agrees
<1>7. Readable(r) BY <1>2, <1>3, <1>4, <1>5, <1>6 DEF Readable
<1>8. parseRuntimeObservation(r) = {[rev |-> s.rev, at |-> now]}
  BY <1>1, <1>7 DEF parseRuntimeObservation, Some
<1>9. Event(s) = [rev |-> s.rev, read |-> {[rev |-> s.rev, at |-> now]}] BY <1>8 DEF Event, r
<1>10. s.rev \in Nat BY <1>0 DEF Snapshots
<1>11. {[rev |-> s.rev, at |-> now]} \in Options(Reads) BY <1>10 DEF Options, Reads
<1> QED BY <1>9, <1>10, <1>11 DEF EventRecords
-----------------------------------------------------------------------------
(* The records: each keeps the order of the history and what the page      *)
(* requires of a snapshot, and says what the core is now.                  *)

Lifecycles == {"Stopped", "Ready", "RecoveryRequired"}

LEMMA OptionFacts ==
  /\ \A S : None \in Options(S)
  /\ \A S : \A x \in S : Some(x) \in Options(S)
BY DEF Options, None, Some

LEMMA EmptyHistory == <<>> \in Seq(Points) /\ InOrder(<<>>)
<1>1. <<>> \in Seq(Points) /\ DOMAIN <<>> = {} OBVIOUS
<1> QED BY <1>1 DEF InOrder

LEMMA ReadyRecord ==
  ASSUME NEW s, Shown(s), NEW child \in Nat, NEW op \in Options(Ops)
  PROVE  LET r == record_subscription_ready(s, child, op)
         IN Shown(r) /\ r.rev = s.rev /\ r.lifecycle = "Ready" /\ r.history = <<>>
<1> DEFINE m == [s EXCEPT !.source = "ManagedSidecar", !.lifecycle = "Ready"]
           c == [m EXCEPT !.traffic = None, !.history = <<>>]
           w == {[op |-> o, status |-> "ready", error |-> "none"] : o \in op}
           i == [c EXCEPT !.capture = "Off", !.id = Some(child), !.gen = Some(child)]
           r == [i EXCEPT !.switch = w]
<1>0. s \in Snapshots BY DEF Shown
<1>1. record_subscription_ready(s, child, op) = r
  BY <1>0 DEF record_subscription_ready, Cleared, Managed, Snapshots
<1>2. w \in Options(Switches) BY DEF Options, Switches
<1>3. \A v \in w : v.status = "ready" /\ isSubscriptionSwitch(v) BY DEF isSubscriptionSwitch
<1>4. Some(child) \in Options(Nat) /\ Some(child) # None BY OptionFacts DEF Some, None
<1> HIDE DEF w
<1>5. m \in Snapshots /\ m.rev = s.rev /\ m.lifecycle = "Ready" BY <1>0 DEF Snapshots
<1> HIDE DEF m
<1>6. c \in Snapshots /\ c.rev = s.rev /\ c.lifecycle = "Ready" /\ c.history = <<>>
  BY <1>5, OptionFacts, EmptyHistory DEF Snapshots
<1> HIDE DEF c
<1>7. /\ i \in Snapshots /\ i.rev = s.rev /\ i.lifecycle = "Ready" /\ i.history = <<>>
      /\ i.id = Some(child) /\ i.gen = Some(child)
  BY <1>4, <1>6 DEF Snapshots
<1> HIDE DEF i
<1>8. /\ r \in Snapshots /\ r.rev = s.rev /\ r.lifecycle = "Ready" /\ r.history = <<>>
      /\ r.id = Some(child) /\ r.gen = Some(child) /\ r.switch = w
  BY <1>2, <1>7 DEF Snapshots
<1> HIDE DEF r
<1>9. Agrees(r) /\ InOrder(r.history) BY <1>3, <1>4, <1>8, EmptyHistory DEF Agrees
<1> QED BY <1>1, <1>8, <1>9 DEF Shown

LEMMA StoppedRecord ==
  ASSUME NEW s, Shown(s)
  PROVE  LET r == record_managed_stopped(s)
         IN /\ Shown(r) /\ r.rev = s.rev /\ r.lifecycle = "Stopped" /\ r.history = <<>>
            /\ r.traffic = None
<1> DEFINE m == [s EXCEPT !.source = "ManagedSidecar", !.lifecycle = "Stopped"]
           c == [m EXCEPT !.traffic = None, !.history = <<>>]
           r == [c EXCEPT !.capture = "Off", !.id = None, !.gen = None, !.switch = None]
<1>0. s \in Snapshots BY DEF Shown
<1>1. record_managed_stopped(s) = r BY DEF record_managed_stopped, Cleared, Managed
<1>5. m \in Snapshots /\ m.rev = s.rev /\ m.lifecycle = "Stopped" BY <1>0 DEF Snapshots
<1> HIDE DEF m
<1>6. /\ c \in Snapshots /\ c.rev = s.rev /\ c.lifecycle = "Stopped" /\ c.history = <<>>
      /\ c.traffic = None
  BY <1>5, OptionFacts, EmptyHistory DEF Snapshots
<1> HIDE DEF c
<1>8. /\ r \in Snapshots /\ r.rev = s.rev /\ r.lifecycle = "Stopped" /\ r.history = <<>>
      /\ r.traffic = None /\ r.id = None /\ r.gen = None /\ r.switch = None
  BY <1>6, OptionFacts DEF Snapshots
<1> HIDE DEF r
<1>9. Agrees(r) /\ InOrder(r.history) BY <1>8, EmptyHistory DEF Agrees, None
<1> QED BY <1>1, <1>8, <1>9 DEF Shown

(* A failure that names no lifecycle changes nothing; one that leaves the  *)
(* core ready keeps its chart, any other forgets it.                       *)
LEMMA FailureRecord ==
  ASSUME NEW s, Shown(s), NEW l \in Lifecycles
  PROVE  LET r == record_managed_failure(s, Some(l))
         IN /\ Shown(r) /\ r.rev = s.rev /\ r.lifecycle = l
            /\ l = "Ready" => r.history = s.history
            /\ l # "Ready" => r.history = <<>> /\ r.traffic = None
<1> DEFINE m == [s EXCEPT !.source = "ManagedSidecar", !.lifecycle = l]
           t == [m EXCEPT !.capture = "Off"]
           c == [t EXCEPT !.traffic = None, !.history = <<>>]
           d == [c EXCEPT !.id = None, !.gen = None]
           w == {v \in c.switch : v.status # "ready"}
           r == [d EXCEPT !.switch = w]
<1>0. s \in Snapshots /\ InOrder(s.history) /\ Agrees(s) BY DEF Shown
<1>s. Some(l) # None /\ The(Some(l)) = l BY TheOne DEF Some, None
<1>1. m \in Snapshots /\ m.rev = s.rev /\ m.lifecycle = l /\ m.history = s.history
      /\ m.id = s.id /\ m.gen = s.gen /\ m.switch = s.switch
  BY <1>0 DEF Snapshots, Lifecycles
<1>d. Managed(s, l) = m BY DEF Managed
<1> HIDE DEF m
<1>2. t \in Snapshots /\ t.rev = s.rev /\ t.lifecycle = l /\ t.history = s.history
      /\ t.id = s.id /\ t.gen = s.gen /\ t.switch = s.switch
  BY <1>1 DEF Snapshots
<1>3. CASE l = "Ready"
  <2>1. record_managed_failure(s, Some(l)) = t
    BY <1>3, <1>d, <1>s DEF record_managed_failure
  <2> HIDE DEF t
  <2>2. Agrees(t) BY <1>0, <1>2, <1>3 DEF Agrees
  <2> QED BY <1>0, <1>2, <1>3, <2>1, <2>2 DEF Shown
<1>4. CASE l # "Ready"
  <2>r. c \in Snapshots /\ c.rev = s.rev /\ c.lifecycle = l /\ c.history = <<>>
        /\ c.traffic = None /\ c.switch = s.switch
    BY <1>2, OptionFacts, EmptyHistory DEF Snapshots
  <2>1. record_managed_failure(s, Some(l)) = [c EXCEPT !.id = None, !.gen = None, !.switch = w]
    BY <1>4, <1>d, <1>s DEF record_managed_failure, Cleared
  <2> HIDE DEF c
  <2>2. w \in Options(Switches) BY <2>r DEF Options, Snapshots
  <2>3. \A v \in w : v \in s.switch /\ v.status # "ready" BY <2>r
  <2> HIDE DEF w
  <2>4. d \in Snapshots /\ d.rev = s.rev /\ d.lifecycle = l /\ d.history = <<>>
        /\ d.traffic = None /\ d.id = None /\ d.gen = None
    BY <2>r, OptionFacts DEF Snapshots
  <2>5. r = [c EXCEPT !.id = None, !.gen = None, !.switch = w] BY <2>r DEF Snapshots
  <2> HIDE DEF d
  <2>6. r \in Snapshots /\ r.rev = s.rev /\ r.lifecycle = l /\ r.history = <<>>
        /\ r.traffic = None /\ r.id = None /\ r.gen = None /\ r.switch = w
    BY <2>2, <2>4 DEF Snapshots
  <2> HIDE DEF r
  <2>7. Agrees(r) /\ InOrder(r.history)
    BY <1>0, <2>3, <2>6, EmptyHistory DEF Agrees
  <2> QED BY <1>4, <2>1, <2>5, <2>6, <2>7 DEF Shown
<1> QED BY <1>3, <1>4

LEMMA NoRecord == \A s : record_managed_failure(s, None) = s
BY DEF record_managed_failure

LEMMA SwitchRecord ==
  ASSUME NEW s, Shown(s), NEW w \in Switches, w.status # "ready", isSubscriptionSwitch(w)
  PROVE  LET r == record_subscription_switch(s, w)
         IN /\ Shown(r) /\ r.rev = s.rev /\ r.lifecycle = s.lifecycle
            /\ r.history = s.history /\ r.traffic = s.traffic
<1> DEFINE r == [s EXCEPT !.switch = Some(w)]
<1>0. s \in Snapshots /\ InOrder(s.history) /\ Agrees(s) BY DEF Shown
<1>1. /\ r \in Snapshots /\ r.rev = s.rev /\ r.lifecycle = s.lifecycle /\ r.history = s.history
      /\ r.traffic = s.traffic /\ r.id = s.id /\ r.gen = s.gen /\ r.switch = {w}
  BY <1>0, OptionFacts DEF Snapshots, Some
<1>2. record_subscription_switch(s, w) \in {r, s} BY DEF record_subscription_switch
<1> HIDE DEF r
<1>3. Agrees(r) BY <1>0, <1>1 DEF Agrees
<1>4. Shown(r) BY <1>0, <1>1, <1>3 DEF Shown
<1> QED BY <1>1, <1>2, <1>4

(* Every point is of one child.                                            *)
PointsOf(h, child) == \A i \in DOMAIN h : h[i].child = child

(* A sample is a new point, or the point of now once more.                 *)
LEMMA SampleRecord ==
  ASSUME NEW s, Shown(s), now \in Nat, NEW child \in Nat,
         NEW traffic \in {None, Some(child)},
         PointsOf(s.history, child)
  PROVE  LET r == apply_managed_observation(s, [traffic |-> traffic])
         IN /\ Shown(r) /\ r.rev = s.rev /\ r.lifecycle = "Ready"
            /\ PointsOf(r.history, child)
<1> DEFINE m == [s EXCEPT !.source = "ManagedSidecar", !.lifecycle = "Ready"]
           h == s.history
           same == h # <<>> /\ h[Len(h)].at = now
           past == IF same THEN SubSeq(h, 1, Len(h) - 1) ELSE h
           p == [at |-> now, child |-> child]
           n == Append(past, p)
           a == [m EXCEPT !.traffic = traffic]
           r == [a EXCEPT !.history = n]
<1>0. s \in Snapshots /\ InOrder(h) /\ Agrees(s) /\ h \in Seq(Points) BY DEF Shown, Snapshots
<1>1. /\ m \in Snapshots /\ m.rev = s.rev /\ m.lifecycle = "Ready" /\ m.history = s.history
      /\ m.id = s.id /\ m.gen = s.gen /\ m.switch = s.switch
  BY <1>0 DEF Snapshots
<1>d. Managed(s, "Ready") = m BY DEF Managed
<1>2. Agrees(m) BY <1>0, <1>1 DEF Agrees
<1> HIDE DEF m
<1>3. CASE traffic = None
  <2>1. apply_managed_observation(s, [traffic |-> traffic]) = m
    BY <1>3, <1>d DEF apply_managed_observation
  <2> QED BY <1>0, <1>1, <1>2, <2>1 DEF Shown
<1>4. CASE traffic = Some(child)
  <2>0. traffic # None /\ The(traffic) = child /\ traffic \in Options(Nat)
    BY <1>4, TheOne, OptionFacts DEF Some, None
  <2>h. /\ DOMAIN h = 1..Len(h) /\ Len(h) \in Nat /\ (h # <<>> => Len(h) > 0)
        /\ \A i \in DOMAIN h : h[i] \in Points /\ h[i].at \in Nat
    BY <1>0, HistoryFacts, EmptySeq
  <2>1. apply_managed_observation(s, [traffic |-> traffic])
          = [m EXCEPT !.traffic = traffic, !.history = n]
    BY <1>1, <1>d, <2>0 DEF apply_managed_observation, Point, Last, Front
  <2>2. /\ past \in Seq(Points) /\ Len(past) \in Nat /\ Len(past) <= Len(h)
        /\ \A i \in 1..Len(past) : past[i] = h[i]
        /\ \A i \in 1..Len(past) : h[i].at < now
    <3> HIDE DEF h
    <3>1. CASE same
      <4>1. Len(h) > 0 /\ Len(h) \in DOMAIN h BY <2>h, <3>1
      <4>2. /\ past \in Seq(Points) /\ Len(past) = Len(h) - 1
            /\ \A i \in 1..Len(past) : past[i] = h[i]
        BY <1>0, <2>h, <3>1, <4>1
      <4> HIDE DEF past
      <4>3. ASSUME NEW i \in 1..Len(past) PROVE h[i].at < h[Len(h)].at
        <5>1. i \in DOMAIN h /\ i < Len(h) BY <2>h, <4>2
        <5>2. \A j, k \in DOMAIN h : j < k => h[j].at < h[k].at BY <1>0 DEF InOrder
        <5> QED BY <4>1, <5>1, <5>2
      <4> QED BY <2>h, <3>1, <4>2, <4>3
    <3>2. CASE ~same
      <4>1. past = h BY <3>2
      <4>2. CASE h = <<>> BY <1>0, <2>h, <4>1, <4>2
      <4>3. CASE h # <<>>
        <5>1. Len(h) \in DOMAIN h /\ h[Len(h)].at # now /\ h[Len(h)].at <= now
          BY <1>0, <2>h, <3>2, <4>3 DEF InOrder
        <5>2. \A i \in DOMAIN h : i < Len(h) => h[i].at < h[Len(h)].at
          BY <1>0, <5>1 DEF InOrder
        <5>3. ASSUME NEW i \in 1..Len(h) PROVE h[i].at < now
          <6>1. i \in DOMAIN h /\ h[i].at \in Nat /\ h[Len(h)].at \in Nat BY <2>h, <5>1
          <6>2. h[Len(h)].at < now
            <7> DEFINE last == h[Len(h)].at
            <7>1. last # now /\ last <= now /\ last \in Nat /\ now \in Nat BY <5>1, <6>1
            <7> HIDE DEF last
            <7>2. last < now BY <7>1
            <7> QED BY <7>2 DEF last
          <6> DEFINE l == Len(h)
          <6>n. l \in Nat /\ i \in 1..l BY <2>h
          <6> HIDE DEF l
          <6>3. i = l \/ i < l BY <6>n
          <6>4. CASE i < l
            <7>1. h[i].at < h[Len(h)].at BY <5>2, <6>1, <6>4 DEF l
            <7> HIDE DEF h
            <7> DEFINE last == h[Len(h)].at
                       this == h[i].at
            <7>2. this < last /\ last < now /\ this \in Nat /\ last \in Nat /\ now \in Nat
              BY <6>1, <6>2, <7>1
            <7> HIDE DEF last, this
            <7>3. this < now BY <7>2
            <7> QED BY <7>3 DEF this
          <6>5. CASE i = l BY <6>2, <6>5 DEF l
          <6> QED BY <6>3, <6>4, <6>5
        <5>4. past \in Seq(Points) /\ Len(past) \in Nat /\ Len(past) = Len(h) BY <1>0, <2>h, <4>1
        <5>5. \A i \in 1..Len(past) : past[i] = h[i] BY <4>1
        <5>6. \A i \in 1..Len(past) : h[i].at < now BY <4>1, <5>3
        <5> QED BY <5>4, <5>5, <5>6
      <4> QED BY <4>2, <4>3
    <3> QED BY <3>1, <3>2
  <2>p. p \in Points /\ p.at = now /\ p.child = child BY DEF Points
  <2> HIDE DEF past, p, h
  <2>3. /\ n \in Seq(Points) /\ Len(n) = Len(past) + 1 /\ DOMAIN n = 1..(Len(past) + 1)
        /\ \A i \in 1..Len(past) : n[i] = h[i]
        /\ n[Len(past) + 1] = p
    BY <2>2, <2>p
  <2> HIDE DEF n
  <2>4. InOrder(n)
    <3>1. ASSUME NEW i \in DOMAIN n PROVE n[i].at <= now
      <4>1. CASE i = Len(past) + 1 BY <2>3, <2>p, <4>1
      <4>2. CASE i \in 1..Len(past)
        <5>1. i \in DOMAIN h BY <2>2, <2>h, <4>2
        <5>2. h[i].at \in Nat /\ h[i].at < now BY <2>2, <2>h, <4>2, <5>1
        <5> QED BY <2>3, <4>2, <5>2
      <4> QED BY <2>2, <2>3, <4>1, <4>2
    <3>2. ASSUME NEW i \in DOMAIN n, NEW j \in DOMAIN n, i < j PROVE n[i].at < n[j].at
      <4>1. i \in 1..Len(past) /\ i \in DOMAIN h BY <2>2, <2>3, <2>h, <3>2
      <4>2. CASE j = Len(past) + 1 BY <2>2, <2>3, <2>p, <4>1, <4>2
      <4>3. CASE j \in 1..Len(past)
        <5>1. j \in DOMAIN h BY <2>2, <2>h, <4>3
        <5>2. h[i].at < h[j].at BY <1>0, <3>2, <4>1, <5>1 DEF InOrder
        <5> QED BY <2>3, <4>1, <4>3, <5>2
      <4> QED BY <2>2, <2>3, <4>2, <4>3
    <3> QED BY <3>1, <3>2 DEF InOrder
  <2>5. PointsOf(n, child)
    <3>1. \A i \in DOMAIN h : h[i].child = child BY DEF h, PointsOf
    <3>2. \A i \in 1..Len(past) : i \in DOMAIN h BY <2>2, <2>h
    <3> QED BY <2>2, <2>3, <2>p, <3>1, <3>2 DEF PointsOf
  <2>6. a \in Snapshots /\ a.rev = s.rev /\ a.lifecycle = "Ready"
        /\ a.id = s.id /\ a.gen = s.gen /\ a.switch = s.switch
    BY <1>1, <2>0 DEF Snapshots
  <2>7. r = [m EXCEPT !.traffic = traffic, !.history = n] BY <1>1 DEF Snapshots
  <2> HIDE DEF a
  <2>8. r \in Snapshots /\ r.rev = s.rev /\ r.lifecycle = "Ready" /\ r.history = n
        /\ r.id = s.id /\ r.gen = s.gen /\ r.switch = s.switch
    BY <2>3, <2>6 DEF Snapshots
  <2> HIDE DEF r
  <2>9. Agrees(r) BY <1>0, <2>8 DEF Agrees
  <2>10. Shown(r) BY <2>4, <2>8, <2>9 DEF Shown
  <2> QED BY <2>1, <2>5, <2>7, <2>8, <2>10
<1> QED BY <1>3, <1>4
-----------------------------------------------------------------------------
(* What a step does to the snapshot and to the events.                     *)

(* An event made of a snapshot at revision rev, at time at.                *)
Fresh(e, rev, at) == e \in EventRecords /\ e.rev = rev /\ e.read = {[rev |-> rev, at |-> at]}

LEMMA Stored ==
  ASSUME IInv
  PROVE  /\ Shown(snap) /\ Fits(snap, core) /\ now \in Nat /\ snap.rev \in Nat
         /\ snap \in Snapshots
BY DEF IInv, Shown, Fits, StateTypes, Consistent, TypeOK, RecordIsTheCore, OldCoreIsForgotten,
       Snapshots

(* An update under the lock: the snapshot is the changed one, pruned, under*)
(* the next revision, and its delta is the thread's to send.               *)
LEMMA UpdateFacts ==
  ASSUME IInv, NEW t \in Threads, NEW changed, Shown(changed), changed.rev = snap.rev,
         update(t, changed), now' = now
  PROVE  /\ Shown(snap)' /\ snap'.rev = snap.rev + 1 /\ snap'.rev <= MaxRevision
         /\ \A c : Fits(changed, c) => Fits(snap', c)
         /\ sending[t] = None
         /\ \E e : Fresh(e, snap'.rev, now) /\ sending' = [sending EXCEPT ![t] = {e}]
<1>0. now \in Nat /\ snap.rev \in Nat BY Stored
<1> DEFINE p == prune_traffic_history(changed)
<1>1. /\ Shown(p) /\ Len(p.history) <= Capacity /\ p.rev = snap.rev
      /\ \A i \in DOMAIN p.history : now - p.history[i].at <= Window
      /\ \A c : Fits(changed, c) => Fits(p, c)
  BY <1>0, Pruned
<1>2. /\ snap' = [p EXCEPT !.rev = p.rev + 1] /\ sending[t] = None /\ snap.rev < MaxRevision
      /\ sending' = [sending EXCEPT ![t] = Some(Event(snap'))]
  BY DEF update
<1> HIDE DEF p
<1>3. /\ snap' \in Snapshots /\ snap'.rev = snap.rev + 1 /\ snap'.history = p.history
      /\ snap'.id = p.id /\ snap'.gen = p.gen /\ snap'.switch = p.switch
      /\ snap'.lifecycle = p.lifecycle /\ snap'.traffic = p.traffic
  <2>1. p \in Snapshots /\ p.rev + 1 \in Nat /\ p.rev = snap.rev BY <1>0, <1>1 DEF Shown
  <2>2. snap' = [p EXCEPT !.rev = p.rev + 1] BY <1>2
  <2> QED BY <2>1, <2>2 DEF Snapshots
<1>4. Agrees(snap') /\ InOrder(snap'.history) BY <1>1, <1>3 DEF Shown, Agrees
<1>5. Shown(snap') BY <1>3, <1>4 DEF Shown
<1>6. \A i \in DOMAIN snap'.history : now - snap'.history[i].at <= Window BY <1>1, <1>3
<1>7. /\ Event(snap') \in EventRecords /\ Event(snap').rev = snap'.rev
      /\ Event(snap').read = {[rev |-> snap'.rev, at |-> now]}
  BY <1>0, <1>1, <1>3, <1>5, <1>6, EventFacts
<1>9. Shown(snap)' BY <1>5 DEF Shown, InOrder
<1>10. Fresh(Event(snap'), snap'.rev, now) BY <1>7 DEF Fresh
<1>11. \A c : Fits(changed, c) => Fits(snap', c) BY <1>1, <1>3 DEF Fits
<1>12. sending' = [sending EXCEPT ![t] = {Event(snap')}] BY <1>2 DEF Some
<1>13. snap'.rev <= MaxRevision BY <1>0, <1>2, <1>3
<1> HIDE DEF Fits, Fresh, Shown
<1> QED BY <1>2, <1>3, <1>9, <1>10, <1>11, <1>12, <1>13

(* A snapshot for the page: pruned, and nothing else.                      *)
LEMMA SnapshotFacts ==
  ASSUME IInv, snap' = snapshot, now' = now
  PROVE  /\ Shown(snap)' /\ snap'.rev = snap.rev
         /\ \A c : Fits(snap, c) => Fits(snap', c)
         /\ Fresh(Event(snap'), snap'.rev, now)
<1>0. now \in Nat /\ snap.rev \in Nat /\ Shown(snap) BY Stored
<1> DEFINE p == prune_traffic_history(snap)
<1>1. /\ Shown(p) /\ Len(p.history) <= Capacity /\ p.rev = snap.rev
      /\ \A i \in DOMAIN p.history : now - p.history[i].at <= Window
      /\ \A c : Fits(snap, c) => Fits(p, c)
  BY <1>0, Pruned
<1>2. snap' = p BY DEF snapshot
<1> HIDE DEF p
<1>7. /\ Event(snap') \in EventRecords /\ Event(snap').rev = snap'.rev
      /\ Event(snap').read = {[rev |-> snap'.rev, at |-> now]}
  BY <1>0, <1>1, <1>2, EventFacts
<1>9. Shown(snap)' BY <1>1, <1>2 DEF Shown, InOrder
<1> QED BY <1>1, <1>2, <1>7, <1>9 DEF Fresh

-----------------------------------------------------------------------------
(* The worker and the IPC threads: each step is one record or none.        *)

Recorded ==
  \E t \in Threads : \E changed :
    /\ Shown(changed) /\ Fits(changed, core') /\ changed.rev = snap.rev
    /\ update(t, changed)
Recording == (Recorded \/ UNCHANGED <<snap, sending, core>>) /\ UNCHANGED <<now, desk, page>>

Control ==
  /\ core \in [state : {"Stopped", "Ready", "RecoveryRequired"}, child : Nat]
  /\ work \in [at : {"idle", "answer"}] \cup [at : {"accepted", "queued", "underway", "broken"}, op : Ops]
  /\ guard \in {"free", "worker", "command"} \cup Ops
  /\ command \in {"none", "start", "stop", "answered"}
  /\ GuardFacts

LEMMA ControlHolds == ASSUME IInv PROVE Control
BY DEF IInv, Control, StateTypes, Consistent, TypeOK

(* What the records say of the core fits the core.                         *)
LEMMA FitsNew ==
  ASSUME NEW s, NEW c, s.lifecycle = c.state, s.history = <<>>, c.state # "Ready" => s.traffic = None
  PROVE  Fits(s, c)
BY DEF Fits

LEMMA FailureFits ==
  ASSUME IInv, NEW l \in Lifecycles, core' = [core EXCEPT !.state = l],
         l = "Ready" => core.state = "Ready"
  PROVE  LET r == record_managed_failure(snap, Some(l))
         IN Shown(r) /\ r.rev = snap.rev /\ Fits(r, core')
<1> DEFINE r == record_managed_failure(snap, Some(l))
<1>0. Shown(snap) /\ Fits(snap, core) BY Stored
<1>1. /\ Shown(r) /\ r.rev = snap.rev /\ r.lifecycle = l
      /\ l = "Ready" => r.history = snap.history
      /\ l # "Ready" => r.history = <<>> /\ r.traffic = None
  BY <1>0, FailureRecord
<1> HIDE DEF r
<1>2. core'.state = l /\ core'.child = core.child BY ControlHolds DEF Control
<1>3. CASE l = "Ready" BY <1>0, <1>1, <1>2, <1>3 DEF Fits, r
<1>4. CASE l # "Ready"
  <2>1. Fits(r, core') BY <1>1, <1>2, <1>4, FitsNew
  <2> QED BY <1>1, <2>1 DEF r
<1> QED BY <1>3, <1>4

LEMMA LogFits == ASSUME IInv, UNCHANGED core
                 PROVE  LET r == record_managed_failure(snap, None)
                        IN Shown(r) /\ r.rev = snap.rev /\ Fits(r, core')
BY Stored, NoRecord

LEMMA ReadyFits ==
  ASSUME IInv, NEW op \in Options(Ops), core' = NewChild
  PROVE  LET r == record_subscription_ready(snap, NewChild.child, op)
         IN Shown(r) /\ r.rev = snap.rev /\ Fits(r, core')
<1> DEFINE r == record_subscription_ready(snap, NewChild.child, op)
<1>1. Shown(snap) BY Stored
<1>2. NewChild.child \in Nat /\ NewChild.state = "Ready" BY ControlHolds DEF Control, NewChild
<1>3. Shown(r) /\ r.rev = snap.rev /\ r.lifecycle = "Ready" /\ r.history = <<>>
  BY <1>1, <1>2, ReadyRecord
<1> HIDE DEF r
<1>4. Fits(r, core') BY <1>2, <1>3, FitsNew
<1> QED BY <1>3, <1>4 DEF r

(* A switch is recorded beside the core as it is.                          *)
LEMMA SwitchFits ==
  ASSUME IInv, UNCHANGED core, NEW op \in Ops,
         NEW w \in {<<"queued", "none">>, <<"underway", "none">>, <<"cancelled", "cancelled">>,
                    <<"failed", "startFailed">>, <<"failed", "configurationFailed">>}
  PROVE  LET r == record_subscription_switch(snap, [op |-> op, status |-> w[1], error |-> w[2]])
         IN Shown(r) /\ r.rev = snap.rev /\ Fits(r, core')
<1> DEFINE v == [op |-> op, status |-> w[1], error |-> w[2]]
           r == record_subscription_switch(snap, v)
<1>0. Shown(snap) /\ Fits(snap, core) BY Stored
<1>1. v \in Switches /\ v.status # "ready" /\ isSubscriptionSwitch(v)
  BY DEF Switches, isSubscriptionSwitch
<1> HIDE DEF v
<1>2. /\ Shown(r) /\ r.rev = snap.rev /\ r.lifecycle = snap.lifecycle
      /\ r.history = snap.history /\ r.traffic = snap.traffic
  BY <1>0, <1>1, SwitchRecord
<1> HIDE DEF r
<1>3. Fits(r, core') BY <1>0, <1>2 DEF Fits
<1> QED BY <1>2, <1>3 DEF r, v

(* A record of a thread, and no record.                                    *)
LEMMA Records ==
  ASSUME NEW t \in Threads, NEW r, Shown(r), r.rev = snap.rev, Fits(r, core'), update(t, r),
         UNCHANGED <<now, desk, page>>
  PROVE  Recording
BY DEF Recording, Recorded

LEMMA Silent == ASSUME UNCHANGED <<snap, sending, core, now, desk, page>> PROVE Recording
BY DEF Recording

LEMMA WorkerRecorded ==
  ASSUME NEW r, Shown(r), r.rev = snap.rev, Fits(r, core'), WorkerRecords(r)
  PROVE  Recording /\ UNCHANGED command
BY Records DEF WorkerRecords, Threads

LEMMA CoreStates ==
  ASSUME IInv
  PROVE  /\ \A l \in Lifecycles : [core EXCEPT !.state = l] \in [state : Lifecycles, child : Nat]
         /\ NewChild \in [state : Lifecycles, child : Nat]
         /\ core \in [state : Lifecycles, child : Nat]
BY ControlHolds DEF Control, NewChild, Lifecycles

LEMMA SampleFits ==
  ASSUME IInv, UNCHANGED core, core.state = "Ready", NEW traffic \in {None, Some(core.child)}
  PROVE  LET r == apply_managed_observation(snap, [traffic |-> traffic])
         IN Shown(r) /\ r.rev = snap.rev /\ Fits(r, core')
<1> DEFINE r == apply_managed_observation(snap, [traffic |-> traffic])
           child == core.child
<1>1. /\ Shown(snap) /\ now \in Nat /\ child \in Nat /\ traffic \in {None, Some(child)}
      /\ PointsOf(snap.history, child)
  BY Stored, ControlHolds DEF Fits, Control, PointsOf
<1> HIDE DEF child
<1>2. /\ Shown(r) /\ r.rev = snap.rev /\ r.lifecycle = "Ready"
      /\ PointsOf(r.history, child)
  BY <1>1, SampleRecord
<1> HIDE DEF r
<1>3. Fits(r, core') BY <1>2 DEF Fits, child, PointsOf
<1> QED BY <1>2, <1>3 DEF r

LEMMA WorkerStep == ASSUME IInv, WorkerNext PROVE Recording /\ Control'
<1> USE ControlHolds DEF Control, GuardFacts
<1>c. /\ \A l \in Lifecycles : [core EXCEPT !.state = l] \in [state : Lifecycles, child : Nat]
      /\ NewChild \in [state : Lifecycles, child : Nat]
      /\ core.state \in Lifecycles
  BY CoreStates
<1>g. /\ "answer" \in {"idle", "answer"} /\ {"Stopped", "RecoveryRequired"} \subseteq Lifecycles
      /\ guard = "command" => guard \notin {"free"} \cup Ops
      /\ guard = "worker" => guard \notin {"free"} \cup Ops
      /\ work # [at |-> "idle"] => guard \notin {"free"} \cup Ops
  BY DEF Lifecycles
<1>1. CASE StartCore
  <2>1. Recording /\ UNCHANGED command
    <3>1. ASSUME core' = NewChild, WorkerRecords(record_subscription_ready(snap, NewChild.child, None))
          PROVE  Recording /\ UNCHANGED command
      BY <3>1, ReadyFits, OptionFacts, WorkerRecorded
    <3>2. ASSUME NEW l \in {"Stopped", "RecoveryRequired"}, core' = [core EXCEPT !.state = l],
                 WorkerRecords(record_managed_failure(snap, Some(l)))
          PROVE  Recording /\ UNCHANGED command
      BY <3>2, <1>g, FailureFits, WorkerRecorded
    <3>3. ASSUME UNCHANGED core, WorkerRecords(record_managed_failure(snap, None))
          PROVE  Recording /\ UNCHANGED command
      BY <3>3, LogFits, WorkerRecorded
    <3> QED BY <1>1, <3>1, <3>2, <3>3 DEF StartCore
  <2>2. core' \in [state : Lifecycles, child : Nat] BY <1>1, <1>c, <1>g DEF StartCore
  <2>3. guard' = "command" /\ work' = [at |-> "answer"] BY <1>1 DEF StartCore, WorkerFree
  <2> QED BY <1>g, <2>1, <2>2, <2>3 DEF Lifecycles
<1>2. CASE StartRunning
  <2>1. Recording /\ UNCHANGED <<command, core>> BY <1>2, Silent DEF StartRunning, feed, desk
  <2>2. guard' = "command" /\ work' = [at |-> "answer"] BY <1>2 DEF StartRunning, WorkerFree
  <2> QED BY <1>g, <2>1, <2>2
<1>3. CASE StartUnrecovered
  <2>1. core' = [core EXCEPT !.state = "RecoveryRequired"] BY <1>3 DEF StartUnrecovered
  <2>2. Recording /\ UNCHANGED command
    BY <1>3, <1>g, <2>1, FailureFits, WorkerRecorded DEF StartUnrecovered
  <2>3. guard' = "command" /\ work' = [at |-> "answer"] /\ UNCHANGED core
    BY <1>3 DEF StartUnrecovered, WorkerFree
  <2> QED BY <1>g, <2>2, <2>3
<1>4. CASE stop_runtime
  <2>1. Recording /\ UNCHANGED command
    <3>1. ASSUME core' = [core EXCEPT !.state = "Stopped"], WorkerRecords(record_managed_stopped(snap))
          PROVE  Recording /\ UNCHANGED command
      <4>1. LET r == record_managed_stopped(snap)
            IN Shown(r) /\ r.rev = snap.rev /\ Fits(r, core')
        <5> DEFINE r == record_managed_stopped(snap)
        <5>1. /\ Shown(r) /\ r.rev = snap.rev /\ r.lifecycle = "Stopped" /\ r.history = <<>>
              /\ r.traffic = None
          BY Stored, StoppedRecord
        <5> HIDE DEF r
        <5>2. core'.state = "Stopped" BY <3>1
        <5>3. Fits(r, core') BY <5>1, <5>2, FitsNew
        <5> QED BY <5>1, <5>3 DEF r
      <4> QED BY <3>1, <4>1, WorkerRecorded
    <3>2. ASSUME core' = [core EXCEPT !.state = "RecoveryRequired"],
                 WorkerRecords(record_managed_failure(snap, Some("RecoveryRequired")))
          PROVE  Recording /\ UNCHANGED command
      BY <3>2, <1>g, FailureFits, WorkerRecorded
    <3> QED BY <1>4, <3>1, <3>2 DEF stop_runtime
  <2>2. core' \in [state : Lifecycles, child : Nat] BY <1>4, <1>c, <1>g DEF stop_runtime
  <2>3. guard' = "command" /\ work' = [at |-> "answer"] BY <1>4 DEF stop_runtime, WorkerFree
  <2> QED BY <1>g, <2>1, <2>2, <2>3 DEF Lifecycles
<1>5. CASE WorkerAnswers
  <2>1. UNCHANGED <<now, core, desk, page>> /\ work' = [at |-> "idle"] /\ guard' = "free"
        /\ command' \in {command, "answered"}
    BY <1>5 DEF WorkerAnswers
  <2>2. CASE update("worker", record_managed_failure(snap, None))
    BY <2>1, <2>2, LogFits, Records DEF Threads
  <2>3. CASE UNCHANGED <<snap, sending>> BY <2>1, <2>3, Silent
  <2>4. Recording BY <1>5, <2>2, <2>3 DEF WorkerAnswers
  <2> QED BY <2>1, <2>4
<1>6. CASE SwitchPhase
  <2>1. PICK status \in Phases[work.at] :
          /\ switch_phase("worker", work.op, status, ErrorOf(status))
          /\ work' = IF status \in {"failed", "cancelled"} THEN [at |-> "answer"]
                     ELSE [work EXCEPT !.at = status]
    BY <1>6 DEF SwitchPhase
  <2>2. /\ work.at \in {"accepted", "queued", "underway", "broken"}
        /\ UNCHANGED <<now, core, guard, desk, command, page>>
    BY <1>6 DEF SwitchPhase, Phases
  <2>3. work.op \in Ops /\ work # [at |-> "idle"] /\ work \in [at : {"accepted", "queued", "underway", "broken"}, op : Ops]
    BY <2>2
  <2>4. <<status, ErrorOf(status)>> \in
          {<<"queued", "none">>, <<"underway", "none">>, <<"cancelled", "cancelled">>,
           <<"failed", "startFailed">>, <<"failed", "configurationFailed">>}
    BY <2>2 DEF Phases, ErrorOf
  <2>5. Recording
    <3> DEFINE r == record_subscription_switch(snap,
                      [op |-> work.op, status |-> status, error |-> ErrorOf(status)])
               w == <<status, ErrorOf(status)>>
    <3>1. w[1] = status /\ w[2] = ErrorOf(status) OBVIOUS
    <3> HIDE DEF w
    <3>2. Shown(r) /\ r.rev = snap.rev /\ Fits(r, core')
      BY <2>2, <2>3, <2>4, <3>1, SwitchFits DEF w
    <3> QED BY <2>1, <2>2, <3>2, Records DEF switch_phase, Threads
  <2>6. work' \in [at : {"idle", "answer"}] \cup [at : {"accepted", "queued", "underway", "broken"}, op : Ops]
    BY <2>1, <2>2, <2>3 DEF Phases
  <2> QED BY <1>g, <2>2, <2>3, <2>5, <2>6
<1>7. CASE SwitchReady
  <2>0. work # [at |-> "idle"] /\ work.op \in Ops BY <1>7 DEF SwitchReady
  <2>1. Recording /\ UNCHANGED command
    BY <1>7, <2>0, ReadyFits, OptionFacts, WorkerRecorded DEF SwitchReady
  <2>2. work' = [at |-> "answer"] /\ UNCHANGED guard /\ core' = NewChild BY <1>7 DEF SwitchReady
  <2> QED BY <1>c, <1>g, <2>0, <2>1, <2>2 DEF Lifecycles
<1>8. CASE activation_runtime_failure
  <2>0. /\ work # [at |-> "idle"] /\ UNCHANGED guard
        /\ work' \in [at : {"accepted", "queued", "underway", "broken"}, op : Ops]
    BY <1>8 DEF activation_runtime_failure
  <2>1. PICK l \in {core.state, "Stopped", "RecoveryRequired"} :
          core' = [core EXCEPT !.state = l] /\ WorkerRecords(record_managed_failure(snap, Some(l)))
    BY <1>8 DEF activation_runtime_failure
  <2>2. l \in Lifecycles /\ (l = "Ready" => core.state = "Ready") BY <1>c, <1>g
  <2>3. Recording /\ UNCHANGED command BY <2>1, <2>2, FailureFits, WorkerRecorded
  <2> QED BY <1>c, <1>g, <2>0, <2>1, <2>2, <2>3 DEF Lifecycles
<1>9. CASE Sampled
  <2>1. UNCHANGED worker /\ core.state = "Ready" BY <1>9 DEF Sampled, Sampling
  <2>2. PICK traffic \in {None, Some(core.child)} :
          WorkerRecords(apply_managed_observation(snap, [traffic |-> traffic]))
    BY <1>9 DEF Sampled
  <2>3. LET r == apply_managed_observation(snap, [traffic |-> traffic])
        IN Shown(r) /\ r.rev = snap.rev /\ Fits(r, core')
    BY <2>1, SampleFits DEF worker
  <2>4. Recording /\ UNCHANGED command BY <2>2, <2>3, WorkerRecorded
  <2> QED BY <2>1, <2>4 DEF worker
<1>10. CASE SampleFails
  <2>1. PICK l \in {"Stopped", "RecoveryRequired"} :
          core' = [core EXCEPT !.state = l] /\ WorkerRecords(record_managed_failure(snap, Some(l)))
    BY <1>10 DEF SampleFails
  <2>2. Recording /\ UNCHANGED command BY <1>g, <2>1, FailureFits, WorkerRecorded
  <2>3. UNCHANGED <<work, guard>> BY <1>10 DEF SampleFails
  <2> QED BY <1>c, <1>g, <2>1, <2>2, <2>3 DEF Lifecycles
<1> QED BY <1>1, <1>2, <1>3, <1>4, <1>5, <1>6, <1>7, <1>8, <1>9, <1>10 DEF WorkerNext

LEMMA IpcStep ==
  ASSUME IInv,
         (\E op \in Ops : QueueApply(op) \/ Accept(op)) \/ RefuseApply \/ ResponseTimeout
  PROVE  Recording /\ Control'
<1>c. Control BY ControlHolds
<1>1. ASSUME NEW op \in Ops, QueueApply(op) PROVE Recording /\ Control'
  <2>1. /\ UNCHANGED <<now, core, work, desk, command, page>> /\ guard = "free" /\ guard' = op
        /\ update("ipc", record_subscription_switch(snap, [op |-> op, status |-> "queued", error |-> "none"]))
    BY <1>1 DEF QueueApply, switch_phase
  <2>2. LET r == record_subscription_switch(snap, [op |-> op, status |-> "queued", error |-> "none"])
        IN Shown(r) /\ r.rev = snap.rev /\ Fits(r, core')
    <3> DEFINE w == <<"queued", "none">>
    <3>1. w[1] = "queued" /\ w[2] = "none"
          /\ w \in {<<"queued", "none">>, <<"underway", "none">>, <<"cancelled", "cancelled">>,
                    <<"failed", "startFailed">>, <<"failed", "configurationFailed">>}
      OBVIOUS
    <3> HIDE DEF w
    <3> QED BY <2>1, <3>1, SwitchFits
  <2>3. Recording BY <2>1, <2>2, Records DEF Threads
  <2>4. Control' BY <1>c, <2>1 DEF Control, GuardFacts
  <2> QED BY <2>3, <2>4
<1>2. ASSUME NEW op \in Ops, Accept(op) PROVE Recording /\ Control'
  <2>1. UNCHANGED <<snap, now, sending, core, desk, command, page>> /\ guard' = "worker"
        /\ work' = [at |-> "accepted", op |-> op]
    BY <1>2 DEF Accept, feed
  <2>2. "worker" \notin {"free"} \cup Ops OBVIOUS
  <2>3. Control' BY <1>c, <2>1, <2>2 DEF Control, GuardFacts
  <2> QED BY <2>1, <2>3, Silent
<1>3. CASE RefuseApply
  <2>1. PICK e \in {<<"failed", "configurationFailed">>, <<"cancelled", "cancelled">>} :
          update("ipc", record_subscription_switch(snap, [op |-> guard, status |-> e[1], error |-> e[2]]))
    BY <1>3 DEF RefuseApply, switch_phase
  <2>2. UNCHANGED <<now, core, work, desk, command, page>> /\ guard \in Ops /\ guard' = "free"
    BY <1>3 DEF RefuseApply
  <2>3. LET r == record_subscription_switch(snap, [op |-> guard, status |-> e[1], error |-> e[2]])
        IN Shown(r) /\ r.rev = snap.rev /\ Fits(r, core')
    <3>1. e \in {<<"queued", "none">>, <<"underway", "none">>, <<"cancelled", "cancelled">>,
                 <<"failed", "startFailed">>, <<"failed", "configurationFailed">>}
      OBVIOUS
    <3>2. guard \in Ops /\ UNCHANGED core BY <2>2
    <3> HIDE <2>2, <2>1
    <3> QED BY <3>1, <3>2, SwitchFits
  <2>4. Recording BY <2>1, <2>2, <2>3, Records DEF Threads
  <2>5. Control' BY <1>c, <2>2 DEF Control, GuardFacts
  <2> QED BY <2>4, <2>5
<1>4. CASE ResponseTimeout
  <2>1. /\ update("ipc", record_managed_failure(snap, None)) \/ UNCHANGED <<snap, sending>>
        /\ UNCHANGED <<now, core, work, guard, desk, page>> /\ command' = "answered"
    BY <1>4 DEF ResponseTimeout, worker
  <2>2. update("ipc", record_managed_failure(snap, None)) => Recording
    BY <2>1, LogFits, Records DEF Threads
  <2>3. UNCHANGED <<snap, sending>> => Recording BY <2>1, Silent
  <2>4. Control' BY <1>c, <2>1 DEF Control, GuardFacts
  <2> QED BY <2>1, <2>2, <2>3, <2>4
<1> QED BY <1>1, <1>2, <1>3, <1>4

-----------------------------------------------------------------------------
(* What is on its way, and what the page has of it.                        *)

Pages == [obs : Options(Reads), error : BOOLEAN, first : {"subscribing", "asked", "done"},
          acting : {"no", "waiting", "reading"}, actions : Nat, early : BOOLEAN,
          start : Int, floor : Int, reply : Options(EventRecords)]
FlowTypes ==
  /\ sending \in [Threads -> Options(EventRecords)]
  /\ window \in [visible : BOOLEAN, restoring : BOOLEAN, restores : Nat]
  /\ channel \in Seq(EventRecords)
  /\ page \in Pages
Flow == FlowTypes /\ RevisionFacts /\ PageFacts /\ NewestIsOnItsWay

LEMMA FlowHolds == ASSUME IInv PROVE Flow /\ snap.rev \in Nat /\ snap.rev <= MaxRevision /\ now \in 0..MaxClock
BY DEF IInv, Flow, FlowTypes, Pages, StateTypes, Consistent, TypeOK

(* The parts of the invariant, put together again.                         *)
LEMMA Parts ==
  ASSUME Control, Shown(snap), Fits(snap, core), snap.rev <= MaxRevision, now \in 0..MaxClock, Flow
  PROVE  IInv
<1>1. snap.rev \in Nat /\ snap \in Snapshots BY DEF Shown, Snapshots
<1>2. StateTypes BY <1>1 DEF StateTypes, Control, Flow, FlowTypes, Pages
<1>3. TypeOK BY <1>1 DEF TypeOK, Control, GuardFacts
<1>4. RecordIsTheCore /\ OldCoreIsForgotten BY DEF RecordIsTheCore, OldCoreIsForgotten, Fits
<1>5. InOrder(snap.history) /\ Agrees(snap) /\ GuardFacts BY DEF Shown, Control
<1>6. RevisionFacts /\ PageFacts /\ NewestIsOnItsWay BY DEF Flow
<1> QED BY <1>2, <1>3, <1>4, <1>5, <1>6 DEF IInv, Consistent

(* An event made of the snapshot as it is after this step.                 *)
Made(e) == Fresh(e, snap'.rev, now')

OnTheWay(held, sent, asked) ==
  (UNION {held[t] : t \in Threads}) \cup {sent[i] : i \in DOMAIN sent} \cup asked

LEMMA UnionOf ==
  ASSUME NEW held, NEW sent, NEW asked, NEW e
  PROVE  e \in OnTheWay(held, sent, asked)
         <=> \/ \E t \in Threads : e \in held[t]
             \/ \E i \in DOMAIN sent : e = sent[i]
             \/ e \in asked
<1> DEFINE U == UNION {held[t] : t \in Threads}
           V == {sent[i] : i \in DOMAIN sent}
<1>1. e \in U <=> \E t \in Threads : e \in held[t] OBVIOUS
<1>2. e \in V <=> \E i \in DOMAIN sent : e = sent[i] OBVIOUS
<1> HIDE DEF U, V
<1>3. e \in U \cup V \cup asked <=> e \in U \/ e \in V \/ e \in asked OBVIOUS
<1> DEFINE inU == \E t \in Threads : e \in held[t]
           inV == \E i \in DOMAIN sent : e = sent[i]
<1>4. (e \in U <=> inU) /\ (e \in V <=> inV) BY <1>1, <1>2
<1> HIDE DEF inU, inV
<1>5. e \in U \cup V \cup asked <=> inU \/ inV \/ e \in asked BY <1>3, <1>4
<1> QED BY <1>5 DEF U, V, inU, inV, OnTheWay

(* Where what is on its way is, and that the page can read it.             *)
LEMMA KnownFacts ==
  ASSUME IInv
  PROVE  /\ \A t \in Threads : \A e \in sending[t] : e \in Travelling
         /\ \A k \in DOMAIN channel : channel[k] \in Travelling
         /\ \A e \in page.reply : e \in Travelling
         /\ \A o \in page.obs : o \in Known
         /\ \A e \in Travelling : e \in EventRecords /\ \A r \in e.read : r \in Known
         /\ \A r \in Known : r \in Reads
         /\ \A e \in Travelling : \E r \in Known : e.read = {r} /\ The(e.read) = r /\ r.rev = e.rev
<1>0. \A e : e \in Travelling <=> \/ \E t \in Threads : e \in sending[t]
                                  \/ \E i \in DOMAIN channel : e = channel[i]
                                  \/ e \in page.reply
  <2> TAKE e
  <2>1. e \in OnTheWay(sending, channel, page.reply)
          <=> \/ \E t \in Threads : e \in sending[t]
              \/ \E i \in DOMAIN channel : e = channel[i]
              \/ e \in page.reply
    BY UnionOf
  <2>2. Travelling = OnTheWay(sending, channel, page.reply) BY DEF Travelling, OnTheWay
  <2> QED BY <2>1, <2>2
<1>1. \A S : \A o \in Options(S) : \A x \in o : x \in S BY DEF Options
<1>2. \A e \in Travelling : e \in EventRecords
  <2>1. FlowTypes BY FlowHolds DEF Flow
  <2>2. \A i \in DOMAIN channel : channel[i] \in EventRecords BY <2>1 DEF FlowTypes
  <2>3. \A t \in Threads : \A e \in sending[t] : e \in EventRecords
    BY <1>1, <2>1 DEF FlowTypes
  <2>4. \A e \in page.reply : e \in EventRecords BY <1>1, <2>1 DEF FlowTypes, Pages
  <2> QED BY <1>0, <2>2, <2>3, <2>4
<1>3. \A e \in Travelling : \A r \in e.read : r \in Reads BY <1>1, <1>2 DEF EventRecords
<1>4. \A o \in page.obs : o \in Reads BY <1>1, FlowHolds DEF Flow, FlowTypes, Pages
<1>5. \A r \in Known : r \in Reads BY <1>3, <1>4 DEF Known
<1>6. \A e \in Travelling : \A r \in e.read : r \in Known BY DEF Known
<1>7. \A o \in page.obs : o \in Known BY DEF Known
<1>8. ASSUME NEW e \in Travelling
      PROVE  \E r \in Known : e.read = {r} /\ The(e.read) = r /\ r.rev = e.rev
  <2>1. e.read # None /\ \A r \in e.read : r.rev = e.rev BY FlowHolds DEF Flow, RevisionFacts
  <2>2. e.read \in Options(Reads) BY <1>2 DEF EventRecords
  <2>3. PICK r : r \in e.read BY <2>1 DEF None
  <2>4. e.read = {r} BY <2>2, <2>3 DEF Options
  <2>5. The(e.read) = r BY <2>4, TheOne DEF Some
  <2> QED BY <1>6, <2>1, <2>3, <2>4, <2>5
<1> QED BY <1>0, <1>2, <1>5, <1>6, <1>7, <1>8

(* Whatever is on its way after a step was on its way before it or is made *)
(* in it, and the page has what it had or what was on its way: so the      *)
(* revisions stay in the order of their times.                             *)
LEMMA RevisionsKept ==
  ASSUME IInv, snap'.rev \in Nat, now' \in Nat, snap'.rev >= snap.rev, now' >= now,
         \A t \in Threads : \A e \in sending'[t] : e \in Travelling \/ Made(e),
         \A i \in DOMAIN channel' : channel'[i] \in Travelling \/ Made(channel'[i]),
         \A e \in page'.reply : e \in Travelling \/ Made(e),
         \A o \in page'.obs : o \in Known
  PROVE  RevisionFacts'
<1>t. \A e : e \in Travelling' <=> \/ \E t \in Threads : e \in sending'[t]
                                   \/ \E i \in DOMAIN channel' : e = channel'[i]
                                   \/ e \in page'.reply
  <2> TAKE e
  <2>1. e \in OnTheWay(sending', channel', page'.reply)
          <=> \/ \E t \in Threads : e \in sending'[t]
              \/ \E i \in DOMAIN channel' : e = channel'[i]
              \/ e \in page'.reply
    BY UnionOf
  <2>2. Travelling' = OnTheWay(sending', channel', page'.reply) BY DEF Travelling, OnTheWay
  <2> QED BY <2>1, <2>2
<1> DEFINE new == [rev |-> snap'.rev, at |-> now']
<1>0. RevisionFacts /\ snap.rev \in Nat /\ now \in Nat BY FlowHolds DEF Flow
<1>1. \A e \in Travelling' : e \in Travelling \/ Made(e) BY <1>t
<1>2. \A e \in Travelling' : e.read # None /\ \A r \in e.read : r.rev = e.rev
  <2>1. \A e \in Travelling : e.read # None /\ \A r \in e.read : r.rev = e.rev
    BY <1>0 DEF RevisionFacts
  <2>2. \A e : Made(e) => e.read # None /\ \A r \in e.read : r.rev = e.rev
    BY DEF Made, Fresh, None
  <2> QED BY <1>1, <2>1, <2>2, Zenon
<1>3. \A r \in Known' : r \in Known \/ r = new
  <2>1. \A e \in Travelling' : \A r \in e.read : r \in Known \/ r = new
    BY <1>1 DEF Known, Made, Fresh
  <2> QED BY <2>1 DEF Known
<1>4. \A r \in Known : r.rev \in Nat /\ r.at \in Nat BY KnownFacts DEF Reads
<1>5. \A r \in Known : r.rev <= snap.rev /\ r.at <= now BY <1>0 DEF RevisionFacts
<1>6. new.rev = snap'.rev /\ new.at = now' OBVIOUS
<1> HIDE DEF new
<1>7. \A r \in Known' : r.rev <= snap'.rev /\ r.at <= now'
  BY <1>0, <1>3, <1>4, <1>5, <1>6
<1>8. \A r, q \in Known' : r.rev < q.rev => r.at <= q.at
  <2> SUFFICES ASSUME NEW r \in Known', NEW q \in Known', r.rev < q.rev PROVE r.at <= q.at
    OBVIOUS
  <2>1. CASE r \in Known /\ q \in Known BY <1>0, <2>1 DEF RevisionFacts
  <2>2. CASE r = new
    <3>1. q.rev <= snap'.rev BY <1>7
    <3>2. q.rev \in Nat BY <1>3, <1>4, <1>6
    <3> QED BY <1>6, <2>2, <3>1, <3>2
  <2>3. CASE q = new /\ r \in Known BY <1>0, <1>4, <1>5, <1>6, <2>3
  <2> QED BY <1>3, <2>1, <2>2, <2>3
<1> QED BY <1>2, <1>7, <1>8 DEF RevisionFacts

(* What a step has to keep of the snapshot and of what is on its way.      *)
Kept == /\ Shown(snap)' /\ Fits(snap, core)' /\ snap'.rev <= MaxRevision /\ now' \in 0..MaxClock
        /\ Flow'

LEMMA OneRead == \A S : \A o \in Options(S) : \A x \in o : x \in S /\ o = {x} /\ The(o) = x
<1> SUFFICES ASSUME NEW S, NEW o \in Options(S), NEW x \in o PROVE x \in S /\ o = {x} /\ The(o) = x
  OBVIOUS
<1>1. x \in S /\ o = {x} BY DEF Options
<1> QED BY <1>1, TheOne DEF Some

(* A record: its delta is held by the thread that made it.                 *)
LEMMA RecordingFlow == ASSUME IInv, Recording PROVE Kept
<1>0. Flow /\ snap.rev \in Nat /\ snap.rev <= MaxRevision /\ now \in 0..MaxClock /\ now \in Nat
  BY FlowHolds
<1>u. UNCHANGED <<now, window, channel, page>> BY DEF Recording, desk
<1>1. CASE UNCHANGED <<snap, sending, core>>
  <2>1. Shown(snap) /\ Fits(snap, core) BY Stored
  <2>2. Shown(snap)' /\ Fits(snap, core)' BY <1>1, <1>u, <2>1 DEF Shown, Fits, InOrder, Agrees
  <2>3. FlowTypes' /\ PageFacts' BY <1>0, <1>1, <1>u DEF Flow, FlowTypes, PageFacts
  <2>4. RevisionFacts' BY <1>0, <1>1, <1>u DEF Flow, RevisionFacts, Known, Travelling
  <2>5. NewestIsOnItsWay' BY <1>0, <1>1, <1>u DEF Flow, NewestIsOnItsWay
  <2> QED BY <1>0, <1>1, <1>u, <2>2, <2>3, <2>4, <2>5 DEF Kept, Flow
<1>2. CASE Recorded
  <2>1. PICK t \in Threads : \E changed :
          /\ Shown(changed) /\ Fits(changed, core') /\ changed.rev = snap.rev /\ update(t, changed)
    BY <1>2 DEF Recorded
  <2>2. PICK changed : /\ Shown(changed) /\ Fits(changed, core') /\ changed.rev = snap.rev
                       /\ update(t, changed)
    BY <2>1
  <2>3. /\ Shown(snap)' /\ snap'.rev = snap.rev + 1 /\ snap'.rev <= MaxRevision
        /\ \A c : Fits(changed, c) => Fits(snap', c)
        /\ \E e : Fresh(e, snap'.rev, now) /\ sending' = [sending EXCEPT ![t] = {e}]
    BY <1>u, <2>2, UpdateFacts
  <2>4. PICK e : Fresh(e, snap'.rev, now) /\ sending' = [sending EXCEPT ![t] = {e}] BY <2>3
  <2>5. Fits(snap, core)' BY <2>2, <2>3 DEF Fits
  <2>6. e \in EventRecords /\ {e} \in Options(EventRecords) /\ Made(e) /\ e.rev = snap'.rev
    BY <1>u, <2>4 DEF Fresh, Made, Options
  <2>7. FlowTypes' BY <1>0, <1>u, <2>4, <2>6 DEF Flow, FlowTypes
  <2>8. PageFacts' BY <1>0, <1>u DEF Flow, PageFacts
  <2>s. sending'[t] = {e} /\ \A u \in Threads : u # t => sending'[u] = sending[u]
    BY <1>0, <2>4 DEF Flow, FlowTypes
  <2>9. NewestIsOnItsWay' BY <2>6, <2>s DEF NewestIsOnItsWay
  <2>10. RevisionFacts'
    <3>1. \A u \in Threads : \A f \in sending'[u] : f \in Travelling \/ Made(f)
      BY <2>6, <2>s, KnownFacts
    <3>2. /\ \A i \in DOMAIN channel' : channel'[i] \in Travelling
          /\ \A f \in page'.reply : f \in Travelling
          /\ \A o \in page'.obs : o \in Known
      BY <1>u, KnownFacts
    <3> QED BY <1>0, <1>u, <2>3, <3>1, <3>2, RevisionsKept
  <2> QED BY <1>0, <1>u, <2>3, <2>5, <2>7, <2>8, <2>9, <2>10 DEF Kept, Flow
<1> QED BY <1>1, <1>2 DEF Recording

(* A step that leaves the snapshot and the clock.                          *)
LEMMA QuietFlow ==
  ASSUME IInv, UNCHANGED <<snap, now, core>>, FlowTypes', PageFacts', NewestIsOnItsWay',
         \A t \in Threads : \A e \in sending'[t] : e \in Travelling,
         \A i \in DOMAIN channel' : channel'[i] \in Travelling,
         \A e \in page'.reply : e \in Travelling,
         \A o \in page'.obs : o \in Known
  PROVE  Kept
<1>0. Flow /\ snap.rev \in Nat /\ snap.rev <= MaxRevision /\ now \in 0..MaxClock /\ now \in Nat
  BY FlowHolds
<1>1. Shown(snap) /\ Fits(snap, core) BY Stored
<1>2. Shown(snap)' /\ Fits(snap, core)' BY <1>1 DEF Shown, Fits, InOrder, Agrees
<1>3. RevisionFacts' BY <1>0, RevisionsKept
<1> QED BY <1>0, <1>2, <1>3 DEF Kept, Flow

(* A step in which the page, or its window, is given the snapshot.         *)
LEMMA SnapshotFlow ==
  ASSUME IInv, snap' = snapshot, UNCHANGED <<now, core, sending>>,
         FlowTypes', PageFacts', NewestIsOnItsWay',
         \A i \in DOMAIN channel' : channel'[i] \in Travelling \/ channel'[i] = Event(snap'),
         \A e \in page'.reply : e \in Travelling \/ e = Event(snap'),
         \A o \in page'.obs : o \in Known
  PROVE  Kept
<1>0. Flow /\ snap.rev \in Nat /\ snap.rev <= MaxRevision /\ now \in 0..MaxClock /\ now \in Nat
  BY FlowHolds
<1>1. Fits(snap, core) BY Stored
<1>2. /\ Shown(snap)' /\ snap'.rev = snap.rev /\ \A c : Fits(snap, c) => Fits(snap', c)
      /\ Fresh(Event(snap'), snap'.rev, now)
  BY SnapshotFacts
<1>3. Fits(snap, core)' BY <1>1, <1>2 DEF Fits
<1>4. Made(Event(snap')) BY <1>2 DEF Made
<1>5. RevisionFacts'
  <2>1. \A i \in DOMAIN channel' : channel'[i] \in Travelling \/ Made(channel'[i]) BY <1>4
  <2>2. \A e \in page'.reply : e \in Travelling \/ Made(e) BY <1>4
  <2>3. \A t \in Threads : \A e \in sending'[t] : e \in Travelling BY KnownFacts
  <2> QED BY <1>0, <1>2, <2>1, <2>2, <2>3, RevisionsKept
<1> QED BY <1>0, <1>2, <1>3, <1>5 DEF Kept, Flow

(* What of an acceptance is used: nothing is invented, and the page gets   *)
(* neither an older revision than it had nor an older one than it is given.*)
LEMMA Accepted ==
  ASSUME NEW current \in Options(Reads), NEW next \in Reads
  PROVE  LET a == acceptNewerObservation(current, next)
         IN /\ a \in Options(Reads) /\ \A o \in a : o \in current \/ o = next
            /\ \E o \in a : o.rev >= next.rev
            /\ \A c \in current : \E o \in a : o = c \/ o.rev > c.rev \/ (o.rev = c.rev /\ o.at >= c.at)
<1> DEFINE a == acceptNewerObservation(current, next)
           newer == \A c \in current : next.rev > c.rev \/ (next.rev = c.rev /\ next.at > c.at)
<1>0. \A c \in current : c \in Reads /\ current = {c} BY OneRead
<1>r. \A r \in Reads : r.rev \in Nat /\ r.at \in Nat BY DEF Reads
<1>1. CASE newer
  <2>1. a = {next} BY <1>1 DEF acceptNewerObservation, Some
  <2>2. {next} \in Options(Reads) BY DEF Options
  <2> HIDE DEF a
  <2> QED BY <1>0, <1>1, <1>r, <2>1, <2>2 DEF a
<1>2. CASE ~newer
  <2>1. a = current BY <1>2 DEF acceptNewerObservation
  <2>2. PICK c \in current : ~(next.rev > c.rev \/ (next.rev = c.rev /\ next.at > c.at)) BY <1>2
  <2>3. c.rev >= next.rev BY <1>0, <1>r, <2>2
  <2> HIDE DEF a
  <2> QED BY <1>0, <2>1, <2>3 DEF a
<1> QED BY <1>1, <1>2

(* The sink and the window.                                                *)
LEMMA EmittedFacts ==
  ASSUME channel \in Seq(EventRecords), NEW e \in EventRecords, Emitted(e)
  PROVE  /\ channel' \in Seq(EventRecords)
         /\ \A i \in DOMAIN channel : i \in DOMAIN channel' /\ channel'[i] = channel[i]
         /\ \A i \in DOMAIN channel' : (i \in DOMAIN channel /\ channel'[i] = channel[i]) \/ channel'[i] = e
         /\ \E i \in DOMAIN channel' : channel'[i] = e
<1>1. channel' = Append(channel, e) BY DEF Emitted
<1>2. /\ DOMAIN channel = 1..Len(channel) /\ Len(channel) \in Nat
      /\ DOMAIN channel' = 1..(Len(channel) + 1) /\ channel'[Len(channel) + 1] = e
      /\ \A i \in 1..Len(channel) : channel'[i] = channel[i]
      /\ channel' \in Seq(EventRecords)
  BY <1>1
<1> QED BY <1>2

LEMMA SendDeltaFlow == ASSUME IInv, NEW t \in Threads, SendDelta(t) PROVE Kept
<1>0. Flow BY FlowHolds
<1>1. /\ sending[t] # None /\ sending' = [sending EXCEPT ![t] = None]
      /\ IF window.visible THEN Emitted(The(sending[t])) ELSE UNCHANGED channel
      /\ UNCHANGED <<snap, now, window, core, page>>
  BY DEF SendDelta, worker
<1>2. PICK e : e \in EventRecords /\ sending[t] = {e} /\ The(sending[t]) = e /\ e \in Travelling
  <2>1. PICK e : e \in sending[t] BY <1>1 DEF None
  <2>2. sending[t] \in Options(EventRecords) BY <1>0 DEF Flow, FlowTypes
  <2> QED BY <2>1, <2>2, OneRead, KnownFacts
<1>3. /\ sending' \in [Threads -> Options(EventRecords)] /\ sending'[t] = {}
      /\ \A u \in Threads : u # t => sending'[u] = sending[u]
  BY <1>0, <1>1, OptionFacts DEF Flow, FlowTypes, None
<1>4. channel \in Seq(EventRecords) BY <1>0 DEF Flow, FlowTypes
<1>5. /\ channel' \in Seq(EventRecords)
      /\ \A i \in DOMAIN channel' : channel'[i] \in Travelling
      /\ window.visible => \E i \in DOMAIN channel' : channel'[i] = e
      /\ \A i \in DOMAIN channel : i \in DOMAIN channel' /\ channel'[i] = channel[i]
  <2>1. CASE window.visible BY <1>1, <1>2, <1>4, <2>1, EmittedFacts, KnownFacts
  <2>2. CASE ~window.visible BY <1>1, <1>4, <2>2, KnownFacts
  <2> QED BY <2>1, <2>2
<1>6. FlowTypes' BY <1>0, <1>1, <1>3, <1>5 DEF Flow, FlowTypes
<1>7. PageFacts' BY <1>0, <1>1 DEF Flow, PageFacts
<1>8. NewestIsOnItsWay'
  <2>1. CASE \E u \in Threads : \E d \in sending[u] : d.rev = snap.rev
    <3>1. PICK u \in Threads : \E d \in sending[u] : d.rev = snap.rev BY <2>1
    <3>2. CASE u = t BY <1>1, <1>2, <1>5, <3>1, <3>2 DEF NewestIsOnItsWay
    <3>3. CASE u # t BY <1>1, <1>3, <3>1, <3>3 DEF NewestIsOnItsWay
    <3> QED BY <3>2, <3>3
  <2>2. CASE \E i \in DOMAIN channel : channel[i].rev = snap.rev
    BY <1>1, <1>5, <2>2 DEF NewestIsOnItsWay
  <2> QED BY <1>0, <1>1, <2>1, <2>2 DEF Flow, NewestIsOnItsWay
<1>9. \A u \in Threads : \A d \in sending'[u] : d \in Travelling BY <1>3, KnownFacts
<1> QED BY <1>1, <1>5, <1>6, <1>7, <1>8, <1>9, QuietFlow, KnownFacts

LEMMA WindowFlow == ASSUME IInv, CloseRequested \/ ShowWindow PROVE Kept
<1>0. Flow BY FlowHolds
<1>1. UNCHANGED <<snap, now, sending, core, channel, page>> BY DEF CloseRequested, ShowWindow, feed, worker
<1>t. window \in [visible : BOOLEAN, restoring : BOOLEAN, restores : Nat] BY <1>0 DEF Flow, FlowTypes
<1>2. /\ window' \in [visible : BOOLEAN, restoring : BOOLEAN, restores : Nat]
      /\ ~window'.visible \/ window'.restoring
  <2>1. CASE CloseRequested BY <1>t, <2>1 DEF CloseRequested
  <2>2. CASE ShowWindow BY <1>t, <2>2 DEF ShowWindow
  <2> QED BY <2>1, <2>2
<1>3. FlowTypes' BY <1>0, <1>1, <1>2 DEF Flow, FlowTypes
<1>4. PageFacts' BY <1>0, <1>1 DEF Flow, PageFacts
<1>5. NewestIsOnItsWay' BY <1>2 DEF NewestIsOnItsWay
<1> QED BY <1>1, <1>3, <1>4, <1>5, QuietFlow, KnownFacts

LEMMA RestoreEmitFlow == ASSUME IInv, RestoreEmit PROVE Kept
<1>0. Flow BY FlowHolds
<1>1. /\ snap' = snapshot /\ Emitted(Event(snap')) /\ window' = [window EXCEPT !.restoring = FALSE]
      /\ UNCHANGED <<now, core, sending, page>>
  BY DEF RestoreEmit, worker
<1>2. Fresh(Event(snap'), snap'.rev, now) BY <1>1, SnapshotFacts
<1>3. Event(snap') \in EventRecords /\ Event(snap').rev = snap'.rev BY <1>2 DEF Fresh
<1>4. channel \in Seq(EventRecords) BY <1>0 DEF Flow, FlowTypes
<1>5. /\ channel' \in Seq(EventRecords)
      /\ \A i \in DOMAIN channel' : channel'[i] \in Travelling \/ channel'[i] = Event(snap')
      /\ \E i \in DOMAIN channel' : channel'[i] = Event(snap')
  BY <1>1, <1>3, <1>4, EmittedFacts, KnownFacts
<1>6. FlowTypes' BY <1>0, <1>1, <1>5 DEF Flow, FlowTypes
<1>7. PageFacts' BY <1>0, <1>1 DEF Flow, PageFacts
<1>8. NewestIsOnItsWay' BY <1>3, <1>5 DEF NewestIsOnItsWay
<1>9. (\A e \in page'.reply : e \in Travelling) /\ \A o \in page'.obs : o \in Known
  BY <1>1, KnownFacts
<1> QED BY <1>1, <1>5, <1>6, <1>7, <1>8, <1>9, SnapshotFlow

(* The page.                                                               *)
LEMMA ReplyFacts ==
  ASSUME IInv, page.reply # None
  PROVE  \E e \in Travelling : page.reply = {e} /\ The(page.reply) = e
<1>1. PICK e : e \in page.reply BY DEF None
<1>2. page.reply \in Options(EventRecords) BY FlowHolds DEF Flow, FlowTypes, Pages
<1> QED BY <1>1, <1>2, OneRead, KnownFacts

(* What the page shows is not ahead of the snapshot.                       *)
LEMMA NotAhead ==
  ASSUME IInv
  PROVE  /\ \A r \in Known : r \in Reads /\ r.rev \in Nat /\ r.at \in Nat /\ r.rev <= snap.rev
         /\ snap.rev \in Nat
<1>1. \A r \in Known : r \in Reads /\ r.rev \in Nat /\ r.at \in Nat BY KnownFacts DEF Reads
<1>2. \A r \in Known : r.rev <= snap.rev BY FlowHolds DEF Flow, RevisionFacts
<1> QED BY <1>1, <1>2, FlowHolds

(* The page with something it has heard taken in.                          *)
TakenIn(a, r) ==
  /\ a \in Options(Reads) /\ \A o \in a : o \in Known
  /\ \E o \in a : o.rev >= r.rev
  /\ \A c \in page.obs : \E o \in a : o = c \/ o.rev > c.rev \/ (o.rev = c.rev /\ o.at >= c.at)

LEMMA TakenInFacts ==
  ASSUME IInv, NEW r \in Known
  PROVE  TakenIn(acceptNewerObservation(page.obs, r), r)
<1> DEFINE a == acceptNewerObservation(page.obs, r)
<1>1. page.obs \in Options(Reads) /\ r \in Reads BY FlowHolds, KnownFacts DEF Flow, FlowTypes, Pages
<1>2. /\ a \in Options(Reads) /\ \A o \in a : o \in page.obs \/ o = r
      /\ \E o \in a : o.rev >= r.rev
      /\ \A c \in page.obs : \E o \in a : o = c \/ o.rev > c.rev \/ (o.rev = c.rev /\ o.at >= c.at)
  BY <1>1, Accepted
<1> HIDE DEF a
<1>3. \A o \in a : o \in Known BY <1>2, KnownFacts
<1>4. TakenIn(a, r) BY <1>2, <1>3 DEF TakenIn
<1> QED BY <1>4 DEF a

(* Taking in what it has heard keeps what the page has confirmed, and if   *)
(* that is the newest revision then the page shows it.                     *)
LEMMA TakenInKeeps ==
  ASSUME IInv, NEW a, NEW r \in Known, TakenIn(a, r)
  PROVE  /\ \A f \in Int : (\E o \in page.obs : o.rev >= f) => \E o \in a : o.rev >= f
         /\ r.rev = snap.rev \/ (\E o \in page.obs : o.rev = snap.rev)
              => \E o \in a : o.rev = snap.rev
<1>1. \A o \in a : o \in Known BY DEF TakenIn
<1>2. \A c \in page.obs : c \in Known BY KnownFacts
<1>3. \A f \in Int : (\E o \in page.obs : o.rev >= f) => \E o \in a : o.rev >= f
  <2> SUFFICES ASSUME NEW f \in Int, NEW c \in page.obs, c.rev >= f PROVE \E o \in a : o.rev >= f
    OBVIOUS
  <2>1. PICK o \in a : o = c \/ o.rev > c.rev \/ o.rev = c.rev BY DEF TakenIn
  <2>2. o.rev \in Nat /\ c.rev \in Nat BY <1>1, <1>2, NotAhead
  <2>3. o.rev >= f BY <2>1, <2>2
  <2> QED BY <2>3
<1>4. (\E o \in a : o.rev >= snap.rev) => \E o \in a : o.rev = snap.rev
  <2> SUFFICES ASSUME NEW o \in a, o.rev >= snap.rev PROVE o.rev = snap.rev OBVIOUS
  <2> QED BY <1>1, NotAhead
<1>5. (\E o \in page.obs : o.rev = snap.rev) => \E o \in a : o.rev >= snap.rev
  BY <1>3, NotAhead
<1>6. r.rev = snap.rev => \E o \in a : o.rev >= snap.rev BY DEF TakenIn
<1> QED BY <1>3, <1>4, <1>5, <1>6

(* The page shows what it did, or has taken in something it heard.         *)
Onward == page'.obs = page.obs \/ \E r \in Known : TakenIn(page'.obs, r)

(* A delta that the page takes in.                                         *)
LEMMA AppliedFacts ==
  ASSUME NEW p \in Pages, NEW r \in Reads, acceptNewerObservation(p.obs, r) \in Options(Reads)
  PROVE  LET q == applyObservation(p, r)
         IN /\ q \in Pages /\ q.obs = acceptNewerObservation(p.obs, r)
            /\ q.error = p.error \/ q.error = Acting
            /\ q.obs # p.obs => q.error = Acting
            /\ q.first = p.first /\ q.acting = p.acting /\ q.actions = p.actions
            /\ q.early = p.early /\ q.start = p.start /\ q.floor = p.floor /\ q.reply = p.reply
<1> DEFINE a == acceptNewerObservation(p.obs, r)
           q == applyObservation(p, r)
<1>1. q = IF a = p.obs THEN p ELSE [p EXCEPT !.obs = a, !.error = Acting] BY DEF applyObservation
<1>2. Acting \in BOOLEAN BY DEF Acting
<1> HIDE DEF a, q
<1>3. CASE a = p.obs BY <1>1, <1>3 DEF a, q
<1>4. CASE a # p.obs
  <2> DEFINE m == [p EXCEPT !.obs = a]
             n == [m EXCEPT !.error = Acting]
  <2>1. /\ m \in Pages /\ m.obs = a /\ m.first = p.first /\ m.acting = p.acting /\ m.actions = p.actions
        /\ m.early = p.early /\ m.start = p.start /\ m.floor = p.floor /\ m.reply = p.reply
    BY DEF Pages, a
  <2>2. q = n BY <1>1, <1>4 DEF Pages
  <2> HIDE DEF m
  <2>3. /\ n \in Pages /\ n.obs = a /\ n.first = p.first /\ n.acting = p.acting /\ n.actions = p.actions
        /\ n.early = p.early /\ n.start = p.start /\ n.floor = p.floor /\ n.reply = p.reply
        /\ n.error = Acting
    BY <1>2, <2>1 DEF Pages
  <2> HIDE DEF n
  <2> QED BY <2>2, <2>3 DEF a, q
<1> QED BY <1>3, <1>4

LEMMA PageType == ASSUME IInv PROVE page \in Pages /\ PageFacts /\ NewestIsOnItsWay /\ page.floor \in Int
BY FlowHolds DEF Flow, FlowTypes, Pages

LEMMA DeliverFlow == ASSUME IInv, Deliver PROVE Kept /\ Onward
<1>0. Flow BY FlowHolds
<1> DEFINE e == Head(channel)
<1>1. /\ channel # <<>> /\ channel' = Tail(channel)
      /\ page' = IF page.first = "subscribing" \/ e.read = None THEN page ELSE applyObservation(page, The(e.read))
      /\ UNCHANGED <<snap, now, core, sending, window>>
  BY DEF Deliver, PageOnly, worker, feed
<1>2. /\ channel' \in Seq(EventRecords)
      /\ \A i \in DOMAIN channel' : i + 1 \in DOMAIN channel /\ channel'[i] = channel[i + 1]
      /\ \A i \in DOMAIN channel : i = 1 \/ (i - 1 \in DOMAIN channel' /\ channel'[i - 1] = channel[i])
      /\ 1 \in DOMAIN channel /\ e = channel[1]
  <2>1. channel \in Seq(EventRecords) BY <1>0 DEF Flow, FlowTypes
  <2> QED BY <1>1, <2>1
<1> HIDE DEF e
<1>3. e \in Travelling BY <1>2, KnownFacts
<1>4. PICK r \in Known : e.read = {r} /\ The(e.read) = r /\ r.rev = e.rev BY <1>3, KnownFacts
<1>5. e.read # None BY <1>4 DEF None
<1>6. /\ page' \in Pages /\ \A o \in page'.obs : o \in Known
      /\ page'.first = page.first /\ page'.acting = page.acting /\ page'.actions = page.actions
      /\ page'.early = page.early /\ page'.floor = page.floor /\ page'.reply = page.reply
      /\ page'.error = page.error \/ page'.error = Acting
      /\ page.first = "subscribing" => page'.obs = page.obs
      /\ page.first # "subscribing" => TakenIn(page'.obs, r)
  <2>1. CASE page.first = "subscribing" BY <1>1, <2>1, PageType, KnownFacts
  <2>2. CASE page.first # "subscribing"
    <3> DEFINE a == acceptNewerObservation(page.obs, r)
    <3>1. TakenIn(a, r) BY TakenInFacts
    <3>2. a \in Options(Reads) /\ \A o \in a : o \in Known BY <3>1 DEF TakenIn
    <3>3. page' = applyObservation(page, r) BY <1>1, <1>4, <1>5, <2>2
    <3>4. r \in Reads /\ page \in Pages BY KnownFacts, PageType
    <3>5. /\ page' \in Pages /\ page'.obs = a
          /\ page'.error = page.error \/ page'.error = Acting
          /\ page'.first = page.first /\ page'.acting = page.acting /\ page'.actions = page.actions
          /\ page'.early = page.early /\ page'.floor = page.floor /\ page'.reply = page.reply
      BY <3>2, <3>3, <3>4, AppliedFacts
    <3> HIDE DEF a
    <3> QED BY <2>2, <3>1, <3>2, <3>5
  <2> QED BY <2>1, <2>2
<1>7. FlowTypes' BY <1>0, <1>1, <1>2, <1>6 DEF Flow, FlowTypes
<1>8. PageFacts'
  <2>1. page'.floor = -1 \/ (\E o \in page.obs : o.rev >= page.floor)
          => page'.floor = -1 \/ (\E o \in page'.obs : o.rev >= page'.floor)
    BY <1>6, PageType, TakenInKeeps
  <2>2. page'.acting # "no" => page'.error /\ page'.actions # 0
    BY <1>6, PageType DEF PageFacts, Acting
  <2> QED BY <1>6, <2>1, <2>2, PageType DEF PageFacts
<1>9. NewestIsOnItsWay'
  <2>1. CASE page.first = "subscribing" BY <1>6, <2>1 DEF NewestIsOnItsWay
  <2>2. CASE page.first # "subscribing"
    <3>1. CASE \E i \in DOMAIN channel : channel[i].rev = snap.rev
      <4>1. PICK i \in DOMAIN channel : channel[i].rev = snap.rev BY <3>1
      <4>2. CASE i = 1
        <5>1. r.rev = snap.rev BY <1>2, <1>4, <4>1, <4>2
        <5>2. \E o \in page'.obs : o.rev = snap.rev BY <1>6, <2>2, <5>1, TakenInKeeps
        <5> QED BY <1>1, <5>2 DEF NewestIsOnItsWay
      <4>3. CASE i # 1
        <5>1. i - 1 \in DOMAIN channel' /\ channel'[i - 1].rev = snap'.rev BY <1>1, <1>2, <4>1, <4>3
        <5> QED BY <5>1 DEF NewestIsOnItsWay
      <4> QED BY <4>2, <4>3
    <3>2. CASE \E o \in page.obs : o.rev = snap.rev
      <4>1. \E o \in page'.obs : o.rev = snap.rev BY <1>6, <2>2, <3>2, TakenInKeeps
      <4> QED BY <1>1, <4>1 DEF NewestIsOnItsWay
    <3> QED BY <1>1, <1>6, <2>2, <3>1, <3>2, PageType DEF NewestIsOnItsWay
  <2> QED BY <2>1, <2>2
<1>10. \A i \in DOMAIN channel' : channel'[i] \in Travelling BY <1>2, KnownFacts
<1>k. Kept BY <1>1, <1>6, <1>7, <1>8, <1>9, <1>10, QuietFlow, KnownFacts
<1>o. Onward BY <1>6 DEF Onward
<1> QED BY <1>k, <1>o

(* A snapshot that the page asks for, on its way with the revision of now. *)
LEMMA AskedFacts ==
  ASSUME IInv, NEW p \in Pages, runtime_observation_snapshot(p)
  PROVE  /\ snap' = snapshot /\ UNCHANGED <<now, sending, core, work, guard, window, channel>>
         /\ snap'.rev = snap.rev /\ Event(snap').rev = snap.rev
         /\ page' \in Pages /\ page'.reply = {Event(snap')}
         /\ page'.obs = p.obs /\ page'.error = p.error /\ page'.first = p.first
         /\ page'.acting = p.acting /\ page'.actions = p.actions /\ page'.early = p.early
         /\ page'.start = p.start /\ page'.floor = p.floor
<1>1. /\ snap' = snapshot /\ UNCHANGED <<now, sending, core, work, guard, window, channel>>
      /\ page' = [p EXCEPT !.reply = {Event(snap')}]
  BY DEF runtime_observation_snapshot, worker, desk, Some
<1>2. snap'.rev = snap.rev /\ Fresh(Event(snap'), snap'.rev, now) BY <1>1, SnapshotFacts
<1> DEFINE e == Event(snap')
<1>3. e \in EventRecords /\ e.rev = snap.rev BY <1>2 DEF Fresh
<1>4. page' = [p EXCEPT !.reply = {e}] BY <1>1
<1> HIDE DEF e
<1>5. {e} \in Options(EventRecords) BY <1>3 DEF Options
<1>6. /\ page' \in Pages /\ page'.reply = {e}
      /\ page'.obs = p.obs /\ page'.error = p.error /\ page'.first = p.first
      /\ page'.acting = p.acting /\ page'.actions = p.actions /\ page'.early = p.early
      /\ page'.start = p.start /\ page'.floor = p.floor
  BY <1>4, <1>5 DEF Pages
<1> QED BY <1>1, <1>2, <1>3, <1>6 DEF e

LEMMA SubscribedFlow == ASSUME IInv, Subscribed PROVE Kept
<1> DEFINE p == [page EXCEPT !.first = "asked"]
<1>0. Flow BY FlowHolds
<1>1. page.first = "subscribing" /\ page.reply = None /\ runtime_observation_snapshot(p)
  BY DEF Subscribed
<1>2. /\ p \in Pages /\ p.first = "asked" /\ p.obs = page.obs /\ p.error = page.error
      /\ p.acting = page.acting /\ p.actions = page.actions /\ p.early = page.early /\ p.floor = page.floor
  BY PageType DEF Pages
<1> HIDE DEF p
<1>3. /\ snap' = snapshot /\ UNCHANGED <<now, sending, core, work, guard, window, channel>>
      /\ snap'.rev = snap.rev /\ Event(snap').rev = snap.rev
      /\ page' \in Pages /\ page'.reply = {Event(snap')}
      /\ page'.obs = page.obs /\ page'.error = page.error /\ page'.first = "asked"
      /\ page'.acting = page.acting /\ page'.actions = page.actions /\ page'.early = page.early
      /\ page'.floor = page.floor
  BY <1>1, <1>2, AskedFacts
<1>4. FlowTypes' BY <1>0, <1>3 DEF Flow, FlowTypes
<1>5. page.acting # "reading" BY <1>1, PageType DEF PageFacts
<1>6. PageFacts' BY <1>1, <1>3, <1>5, PageType DEF PageFacts, None
<1>7. NewestIsOnItsWay'
  <2>1. CASE page.actions = 0 BY <1>3, <2>1 DEF NewestIsOnItsWay
  <2>2. CASE page.actions # 0
    <3>1. page'.early BY <1>1, <1>3, <2>2, PageType DEF PageFacts
    <3> QED BY <3>1 DEF NewestIsOnItsWay
  <2> QED BY <2>1, <2>2
<1>8. \A i \in DOMAIN channel' : channel'[i] \in Travelling BY <1>3, KnownFacts
<1>9. \A o \in page'.obs : o \in Known BY <1>3, KnownFacts
<1>10. \A e \in page'.reply : e = Event(snap') BY <1>3
<1> QED BY <1>3, <1>4, <1>6, <1>7, <1>8, <1>9, <1>10, SnapshotFlow

LEMMA GetAnswerFlow == ASSUME IInv, GetAnswer PROVE Kept
<1> DEFINE p == [page EXCEPT !.acting = "reading", !.floor = snap.rev]
<1>0. Flow BY FlowHolds
<1>1. page.acting = "waiting" /\ page.reply = None /\ runtime_observation_snapshot(p)
  BY DEF GetAnswer
<1>2. /\ p \in Pages /\ p.first = page.first /\ p.obs = page.obs /\ p.error = page.error
      /\ p.acting = "reading" /\ p.actions = page.actions /\ p.early = page.early /\ p.floor = snap.rev
  <2>1. snap.rev \in Int BY NotAhead
  <2> QED BY <2>1, PageType DEF Pages
<1> HIDE DEF p
<1>3. /\ snap' = snapshot /\ UNCHANGED <<now, sending, core, work, guard, window, channel>>
      /\ snap'.rev = snap.rev /\ Event(snap').rev = snap.rev
      /\ page' \in Pages /\ page'.reply = {Event(snap')}
      /\ page'.obs = page.obs /\ page'.error = page.error /\ page'.first = page.first
      /\ page'.acting = "reading" /\ page'.actions = page.actions /\ page'.early = page.early
      /\ page'.floor = snap.rev
  BY <1>1, <1>2, AskedFacts
<1>4. FlowTypes' BY <1>0, <1>3 DEF Flow, FlowTypes
<1>5. page.first # "asked" BY <1>1, PageType DEF PageFacts
<1>6. PageFacts' BY <1>1, <1>3, <1>5, PageType DEF PageFacts, None
<1>7. NewestIsOnItsWay' BY <1>3, <1>5 DEF NewestIsOnItsWay
<1>8. \A i \in DOMAIN channel' : channel'[i] \in Travelling BY <1>3, KnownFacts
<1>9. \A o \in page'.obs : o \in Known BY <1>3, KnownFacts
<1>10. \A e \in page'.reply : e = Event(snap') BY <1>3
<1> QED BY <1>3, <1>4, <1>6, <1>7, <1>8, <1>9, <1>10, SnapshotFlow

LEMMA ActionFlow ==
  ASSUME IInv, NEW action \in {"start", "stop"}, runManagedRuntimeAction(action) PROVE Kept
<1>0. Flow BY FlowHolds
<1>1. /\ page.acting = "no"
      /\ page' = [page EXCEPT !.acting = "waiting", !.actions = @ + 1, !.error = TRUE,
                              !.early = @ \/ page.first = "subscribing",
                              !.start = IF page.obs = None THEN -1 ELSE The(page.obs).rev]
      /\ UNCHANGED <<snap, now, sending, core, window, channel>>
  BY DEF runManagedRuntimeAction, feed, desk
<1>2. (IF page.obs = None THEN -1 ELSE The(page.obs).rev) \in Int
  <2>1. CASE page.obs = None BY <2>1
  <2>2. CASE page.obs # None
    <3>1. PICK o : o \in page.obs BY <2>2 DEF None
    <3>2. The(page.obs) = o /\ o \in Known BY <3>1, OneRead, KnownFacts, PageType DEF Pages
    <3>3. o.rev \in Nat BY <3>2, NotAhead
    <3> QED BY <2>2, <3>2, <3>3
  <2> QED BY <2>1, <2>2
<1> DEFINE start == IF page.obs = None THEN -1 ELSE The(page.obs).rev
           early == page.early \/ page.first = "subscribing"
           p == [page EXCEPT !.acting = "waiting", !.actions = page.actions + 1, !.error = TRUE]
<1>3. page' = [page EXCEPT !.acting = "waiting", !.actions = page.actions + 1, !.error = TRUE,
                           !.early = early, !.start = start]
  BY <1>1
<1>4. start \in Int /\ early \in BOOLEAN BY <1>2, PageType DEF Pages
<1> HIDE DEF start, early
<1>5. /\ p \in Pages /\ p.acting = "waiting" /\ p.actions # 0 /\ p.error
      /\ p.first = page.first /\ p.obs = page.obs /\ p.reply = page.reply /\ p.floor = page.floor
  <2> DEFINE n == page.actions + 1
  <2>1. page \in Pages /\ n \in Nat /\ n # 0 BY PageType DEF Pages
  <2> HIDE DEF n
  <2>2. p = [page EXCEPT !.acting = "waiting", !.actions = n, !.error = TRUE] BY DEF n
  <2> HIDE DEF p
  <2> QED BY <2>1, <2>2 DEF Pages
<1>6. page' = [p EXCEPT !.early = early, !.start = start] BY <1>3, PageType DEF Pages
<1> HIDE DEF p
<1>7. /\ page' \in Pages /\ page'.acting = "waiting" /\ page'.actions # 0 /\ page'.error
      /\ page'.first = page.first /\ page'.obs = page.obs /\ page'.reply = page.reply
      /\ page'.floor = page.floor /\ page'.early = early
  BY <1>4, <1>5, <1>6 DEF Pages
<1>8. FlowTypes' BY <1>0, <1>1, <1>7 DEF Flow, FlowTypes
<1>9. PageFacts' BY <1>1, <1>7, PageType DEF PageFacts, early
<1>10. NewestIsOnItsWay' BY <1>7 DEF NewestIsOnItsWay
<1>11. \A t \in Threads : \A e \in sending'[t] : e \in Travelling BY <1>1, KnownFacts
<1>12. \A i \in DOMAIN channel' : channel'[i] \in Travelling BY <1>1, KnownFacts
<1>13. (\A e \in page'.reply : e \in Travelling) /\ \A o \in page'.obs : o \in Known
  BY <1>7, KnownFacts
<1> QED BY <1>1, <1>8, <1>9, <1>10, <1>11, <1>12, <1>13, QuietFlow

LEMMA TickFlow == ASSUME IInv, Tick PROVE Kept
<1>0. Flow /\ snap.rev \in Nat /\ snap.rev <= MaxRevision /\ now \in 0..MaxClock BY FlowHolds
<1>1. now < MaxClock /\ now' = now + 1 /\ UNCHANGED <<snap, core, sending, window, channel, page>>
  BY DEF Tick, worker, desk
<1>2. now' \in 0..MaxClock /\ now' \in Nat /\ now' >= now /\ now \in Nat BY <1>0, <1>1
<1>3. Shown(snap) /\ Fits(snap, core) BY Stored
<1>4. InOrder(snap.history)'
  <2>1. snap.history \in Seq(Points) /\ InOrder(snap.history) BY <1>3 DEF Shown, Snapshots
  <2>2. \A i \in DOMAIN snap.history : snap.history[i].at \in Nat BY <2>1, HistoryFacts
  <2>3. \A i \in DOMAIN snap.history : snap.history[i].at <= now' BY <1>2, <2>1, <2>2 DEF InOrder
  <2> QED BY <1>1, <2>1, <2>3 DEF InOrder
<1>5. Shown(snap)' /\ Fits(snap, core)' BY <1>1, <1>3, <1>4 DEF Shown, Fits, Agrees
<1>6. FlowTypes' /\ PageFacts' /\ NewestIsOnItsWay'
  BY <1>0, <1>1 DEF Flow, FlowTypes, PageFacts, NewestIsOnItsWay
<1>7. RevisionFacts'
  <2>1. \A t \in Threads : \A e \in sending'[t] : e \in Travelling BY <1>1, KnownFacts
  <2>2. \A i \in DOMAIN channel' : channel'[i] \in Travelling BY <1>1, KnownFacts
  <2>3. (\A e \in page'.reply : e \in Travelling) /\ \A o \in page'.obs : o \in Known
    BY <1>1, KnownFacts
  <2> QED BY <1>0, <1>1, <1>2, <2>1, <2>2, <2>3, RevisionsKept
<1> QED BY <1>0, <1>1, <1>2, <1>5, <1>6, <1>7 DEF Kept, Flow

LEMMA GetFirstFlow == ASSUME IInv, GetFirst PROVE Kept /\ Onward
<1> DEFINE done == [page EXCEPT !.first = "done", !.reply = None]
<1>0. Flow BY FlowHolds
<1>1. page.first = "asked" /\ UNCHANGED <<snap, now, sending, core, window, channel>>
  BY DEF GetFirst, PageOnly, feed, worker
<1>2. PICK e \in Travelling : page.reply = {e} /\ The(page.reply) = e
  BY <1>1, PageType, ReplyFacts DEF PageFacts
<1>3. PICK r \in Known : e.read = {r} /\ The(e.read) = r /\ r.rev = e.rev BY KnownFacts
<1>4. e.read # None BY <1>3 DEF None
<1>5. page' = IF page.actions # 0 THEN done ELSE applyObservation(done, r)
  BY <1>2, <1>3, <1>4 DEF GetFirst
<1>6. /\ done \in Pages /\ done.first = "done" /\ done.reply = None /\ done.obs = page.obs
      /\ done.error = page.error /\ done.acting = page.acting /\ done.actions = page.actions
      /\ done.early = page.early /\ done.floor = page.floor
  BY PageType, OptionFacts DEF Pages
<1> HIDE DEF done
<1>7. /\ page' \in Pages /\ \A o \in page'.obs : o \in Known
      /\ page'.first = "done" /\ page'.reply = None /\ page'.acting = page.acting
      /\ page'.actions = page.actions /\ page'.early = page.early /\ page'.floor = page.floor
      /\ page'.error = page.error \/ page'.error = Acting
      /\ page.actions # 0 => page'.obs = page.obs
      /\ page.actions = 0 => TakenIn(page'.obs, r)
  <2>1. CASE page.actions # 0 BY <1>5, <1>6, <2>1, KnownFacts
  <2>2. CASE page.actions = 0
    <3> DEFINE a == acceptNewerObservation(page.obs, r)
    <3>1. TakenIn(a, r) BY TakenInFacts
    <3>2. a \in Options(Reads) /\ (\A o \in a : o \in Known) /\ a = acceptNewerObservation(done.obs, r)
      BY <1>6, <3>1 DEF TakenIn
    <3>3. page' = applyObservation(done, r) BY <1>5, <2>2
    <3>4. r \in Reads BY KnownFacts
    <3>5. /\ page' \in Pages /\ page'.obs = a
          /\ page'.error = done.error \/ page'.error = Acting
          /\ page'.first = done.first /\ page'.acting = done.acting /\ page'.actions = done.actions
          /\ page'.early = done.early /\ page'.floor = done.floor /\ page'.reply = done.reply
      BY <1>6, <3>2, <3>3, <3>4, AppliedFacts
    <3> HIDE DEF a
    <3> QED BY <1>6, <2>2, <3>1, <3>2, <3>5
  <2> QED BY <2>1, <2>2
<1>8. FlowTypes' BY <1>0, <1>1, <1>7 DEF Flow, FlowTypes
<1>9. PageFacts'
  <2>1. page.acting # "reading" BY <1>1, PageType DEF PageFacts
  <2>2. (\E o \in page.obs : o.rev >= page.floor) => \E o \in page'.obs : o.rev >= page.floor
    BY <1>7, PageType, TakenInKeeps
  <2>3. page'.acting # "no" => page'.error /\ page'.actions # 0
    BY <1>7, PageType DEF PageFacts, Acting
  <2> QED BY <1>7, <2>1, <2>2, <2>3, PageType DEF PageFacts
<1>10. NewestIsOnItsWay'
  <2>1. CASE page.actions # 0 BY <1>1, <1>7, <2>1, PageType DEF NewestIsOnItsWay
  <2>2. CASE page.actions = 0
    <3>1. e.rev = snap.rev => \E o \in page'.obs : o.rev = snap.rev
      BY <1>3, <1>7, <2>2, TakenInKeeps
    <3>2. (\E o \in page.obs : o.rev = snap.rev) => \E o \in page'.obs : o.rev = snap.rev
      BY <1>7, <2>2, TakenInKeeps
    <3>3. (\E d \in page.reply : d.rev = snap.rev) => e.rev = snap.rev BY <1>2
    <3> QED BY <1>1, <1>7, <3>1, <3>2, <3>3, PageType DEF NewestIsOnItsWay
  <2> QED BY <2>1, <2>2
<1>11. (\A d \in page'.reply : d \in Travelling) BY <1>7 DEF None
<1>12. /\ \A t \in Threads : \A d \in sending'[t] : d \in Travelling
       /\ \A i \in DOMAIN channel' : channel'[i] \in Travelling
  BY <1>1, KnownFacts
<1>k. Kept BY <1>1, <1>7, <1>8, <1>9, <1>10, <1>11, <1>12, QuietFlow
<1>o. Onward BY <1>7 DEF Onward
<1> QED BY <1>k, <1>o

LEMMA GetAfterActionFlow == ASSUME IInv, GetAfterAction PROVE Kept /\ Onward
<1> DEFINE done == [page EXCEPT !.acting = "no", !.reply = None, !.start = -1]
           a == acceptNewerObservation(page.obs, The(The(page.reply).read))
           late == \E c \in page.obs : The(The(page.reply).read).rev < c.rev /\ c.rev <= page.start
<1>0. Flow BY FlowHolds
<1>1. page.acting = "reading" /\ UNCHANGED <<snap, now, sending, core, window, channel>>
  BY DEF GetAfterAction, PageOnly, feed, worker
<1>2. PICK e \in Travelling : page.reply = {e} /\ The(page.reply) = e
  BY <1>1, PageType, ReplyFacts DEF PageFacts
<1>3. PICK r \in Known : e.read = {r} /\ The(e.read) = r /\ r.rev = e.rev BY KnownFacts
<1>4. e.read # None BY <1>3 DEF None
<1>5. page' = [done EXCEPT !.obs = a, !.error = late] BY <1>2, <1>3, <1>4 DEF GetAfterAction
<1>6. TakenIn(a, r) BY <1>2, <1>3, TakenInFacts
<1>7. late \in BOOLEAN OBVIOUS
<1>8. /\ done \in Pages /\ done.first = page.first /\ done.reply = None /\ done.acting = "no"
      /\ done.actions = page.actions /\ done.early = page.early /\ done.floor = page.floor
  <2> DEFINE back == [page EXCEPT !.acting = "no", !.reply = None]
  <2>1. /\ back \in Pages /\ back.first = page.first /\ back.reply = None /\ back.acting = "no"
        /\ back.actions = page.actions /\ back.early = page.early /\ back.floor = page.floor
    BY PageType, OptionFacts DEF Pages
  <2>2. done = [back EXCEPT !.start = -1] BY PageType DEF Pages
  <2> HIDE DEF back, done
  <2> QED BY <2>1, <2>2 DEF Pages
<1> HIDE DEF done, a, late
<1>9. a \in Options(Reads) /\ \A o \in a : o \in Known BY <1>6 DEF TakenIn
<1>10. /\ page' \in Pages /\ page'.obs = a /\ page'.first = page.first /\ page'.reply = None
       /\ page'.acting = "no" /\ page'.actions = page.actions /\ page'.early = page.early
       /\ page'.floor = page.floor
  BY <1>5, <1>7, <1>8, <1>9 DEF Pages
<1>11. FlowTypes' BY <1>0, <1>1, <1>10 DEF Flow, FlowTypes
<1>12. PageFacts'
  <2>1. page.first # "asked" BY <1>1, PageType DEF PageFacts
  <2>2. r.rev = page.floor BY <1>1, <1>2, <1>3, PageType DEF PageFacts
  <2>3. \E o \in page'.obs : o.rev >= page'.floor BY <1>6, <1>10, <2>2 DEF TakenIn
  <2> QED BY <1>10, <2>1, <2>3, PageType DEF PageFacts, None
<1>13. NewestIsOnItsWay'
  <2>1. e.rev = snap.rev => \E o \in page'.obs : o.rev = snap.rev
    BY <1>3, <1>6, <1>10, TakenInKeeps
  <2>2. (\E o \in page.obs : o.rev = snap.rev) => \E o \in page'.obs : o.rev = snap.rev
    BY <1>6, <1>10, TakenInKeeps
  <2>3. (\E d \in page.reply : d.rev = snap.rev) => e.rev = snap.rev BY <1>2
  <2> QED BY <1>1, <1>10, <2>1, <2>2, <2>3, PageType DEF NewestIsOnItsWay
<1>14. (\A d \in page'.reply : d \in Travelling) BY <1>10 DEF None
<1>15. /\ \A t \in Threads : \A d \in sending'[t] : d \in Travelling
       /\ \A i \in DOMAIN channel' : channel'[i] \in Travelling
  BY <1>1, KnownFacts
<1>k. Kept BY <1>1, <1>9, <1>10, <1>11, <1>12, <1>13, <1>14, <1>15, QuietFlow
<1>o. Onward BY <1>6, <1>10 DEF Onward
<1> QED BY <1>k, <1>o

-----------------------------------------------------------------------------
(* The invariant, and what follows from it.                                *)

LEMMA InitHolds == ASSUME Init PROVE IInv
<1> USE DEF Init
<1>0. 0 \in Nat /\ 1 \in Nat /\ MaxClock >= 1 OBVIOUS
<1>1. Control BY NamesAssumption DEF Control, GuardFacts
<1>2. FlowTypes /\ page.reply = {} /\ page.obs = {} /\ page.floor = -1 /\ page.acting = "no"
      /\ page.actions = 0 /\ page.first = "subscribing"
  <2>1. page \in Pages BY OptionFacts DEF Pages
  <2>2. sending \in [Threads -> Options(EventRecords)] BY OptionFacts
  <2>3. channel \in Seq(EventRecords) /\ window \in [visible : BOOLEAN, restoring : BOOLEAN, restores : Nat]
    OBVIOUS
  <2> QED BY <2>1, <2>2, <2>3 DEF FlowTypes, None
<1>3. Travelling = {} /\ Known = {}
  <2>1. \A e : e \notin OnTheWay(sending, channel, page.reply)
    <3>1. \A t \in Threads : sending[t] = {} BY DEF None
    <3>2. DOMAIN channel = {} OBVIOUS
    <3> QED BY <1>2, <3>1, <3>2, UnionOf
  <2>2. Travelling = OnTheWay(sending, channel, page.reply) BY DEF Travelling, OnTheWay
  <2>3. Travelling = {} BY <2>1, <2>2
  <2> QED BY <1>2, <2>3 DEF Known
<1>4. Flow
  <2>1. RevisionFacts BY <1>3 DEF RevisionFacts
  <2>2. PageFacts BY <1>2 DEF PageFacts, None
  <2>3. NewestIsOnItsWay BY <1>2 DEF NewestIsOnItsWay
  <2> QED BY <1>2, <2>1, <2>2, <2>3 DEF Flow
<1>5. NewMock \in Snapshots /\ Shown(NewMock)
  <2>1. NewMock \in Snapshots BY OptionFacts, EmptyHistory DEF NewMock, Snapshots
  <2>2. InOrder(NewMock.history) BY EmptyHistory DEF NewMock
  <2>3. Agrees(NewMock) BY DEF NewMock, Agrees, None
  <2> QED BY <2>1, <2>2, <2>3 DEF Shown
<1>6. Shown(snap) /\ Fits(snap, core) /\ snap.rev = 0
  <2>1. CASE snap = NewMock /\ core = [state |-> "Stopped", child |-> 0]
    <3>1. Fits(snap, core) BY <2>1 DEF Fits, NewMock
    <3> QED BY <1>5, <2>1, <3>1 DEF NewMock
  <2>2. CASE /\ core = [state |-> "Ready", child |-> 1]
             /\ snap = [record_subscription_ready(NewMock, 1, None)
                          EXCEPT !.traffic = Some(1), !.history = <<[at |-> 0, child |-> 1]>>]
    <3> DEFINE r == record_subscription_ready(NewMock, 1, None)
               h == <<[at |-> 0, child |-> 1]>>
    <3>0. None \in Options(Ops) BY OptionFacts
    <3>1. Shown(r) /\ r.rev = NewMock.rev /\ r.lifecycle = "Ready"
      <4> DEFINE m == NewMock
                 one == 1
      <4>1. Shown(m) /\ one \in Nat BY <1>5
      <4> HIDE DEF m, one, Init
      <4>2. LET x == record_subscription_ready(m, one, None)
            IN Shown(x) /\ x.rev = m.rev /\ x.lifecycle = "Ready"
        BY <3>0, <4>1, ReadyRecord
      <4> QED BY <4>2 DEF m, one
    <3>2. /\ h \in Seq(Points) /\ DOMAIN h = {1} /\ h[1].at = 0 /\ h[1].child = 1
      BY DEF Points
    <3>3. snap = [r EXCEPT !.traffic = Some(1), !.history = h] BY <2>2
    <3>4. r \in Snapshots /\ Agrees(r) /\ r.rev = 0 BY <3>1 DEF Shown, NewMock
    <3>5. Some(1) \in Options(Nat) BY OptionFacts
    <3> HIDE DEF r, h
    <3>6. /\ snap \in Snapshots /\ snap.history = h /\ snap.rev = 0 /\ snap.lifecycle = "Ready"
          /\ snap.id = r.id /\ snap.gen = r.gen /\ snap.switch = r.switch
      BY <3>1, <3>2, <3>3, <3>4, <3>5 DEF Snapshots
    <3>7. Agrees(snap) BY <3>1, <3>4, <3>6 DEF Agrees
    <3>8. InOrder(snap.history) BY <3>2, <3>6 DEF InOrder
    <3>9. Fits(snap, core) BY <2>2, <3>2, <3>6 DEF Fits
    <3> QED BY <3>6, <3>7, <3>8, <3>9 DEF Shown
  <2> QED BY <2>1, <2>2
<1>7. snap.rev <= MaxRevision /\ now \in 0..MaxClock BY <1>0, <1>6
<1> QED BY <1>1, <1>4, <1>6, <1>7, Parts

LEMMA KeptHolds == ASSUME Control', Kept PROVE IInv'
<1>1. /\ Shown(snap)' /\ Fits(snap, core)' /\ (snap.rev <= MaxRevision)' /\ (now \in 0..MaxClock)'
      /\ Flow'
  BY DEF Kept
<1> QED BY <1>1, Parts, PTL

(* Whatever happens, the records stay what the core is, what is on its way *)
(* can be read, and the newest revision is on its way or shown.            *)
LEMMA NextHolds == ASSUME IInv, Next PROVE IInv' /\ Onward
<1>c. Control BY ControlHolds
<1>1. CASE WorkerNext \/ (\E op \in Ops : QueueApply(op) \/ Accept(op)) \/ RefuseApply \/ ResponseTimeout
  <2>1. Recording /\ Control' BY <1>1, WorkerStep, IpcStep
  <2>2. Kept BY <2>1, RecordingFlow
  <2>3. Onward BY <2>1 DEF Recording, Onward
  <2> QED BY KeptHolds, <2>1, <2>2, <2>3
<1>2. ASSUME NEW t \in Threads, SendDelta(t) PROVE IInv' /\ Onward
  <2>1. UNCHANGED <<core, work, guard, command, page>> BY <1>2 DEF SendDelta, worker
  <2>2. Control' /\ Onward BY <1>c, <2>1 DEF Control, GuardFacts, Onward
  <2> QED BY <1>2, KeptHolds, <2>2, SendDeltaFlow
<1>3. CASE CloseRequested \/ ShowWindow
  <2>1. UNCHANGED <<core, work, guard, command, page>> BY <1>3 DEF CloseRequested, ShowWindow, worker
  <2>2. Control' /\ Onward BY <1>c, <2>1 DEF Control, GuardFacts, Onward
  <2> QED BY <1>3, KeptHolds, <2>2, WindowFlow
<1>4. CASE RestoreEmit
  <2>1. UNCHANGED <<core, work, guard, command, page>> BY <1>4 DEF RestoreEmit, worker
  <2>2. Control' /\ Onward BY <1>c, <2>1 DEF Control, GuardFacts, Onward
  <2> QED BY <1>4, KeptHolds, <2>2, RestoreEmitFlow
<1>5. CASE Tick
  <2>1. UNCHANGED <<core, work, guard, command, page>> BY <1>5 DEF Tick, worker
  <2>2. Control' /\ Onward BY <1>c, <2>1 DEF Control, GuardFacts, Onward
  <2> QED BY <1>5, KeptHolds, <2>2, TickFlow
<1>6. CASE Deliver \/ GetFirst \/ GetAfterAction
  <2>1. UNCHANGED <<core, work, guard, command>>
    BY <1>6 DEF Deliver, GetFirst, GetAfterAction, PageOnly, worker
  <2>2. Control' BY <1>c, <2>1 DEF Control, GuardFacts
  <2> QED BY <1>6, KeptHolds, <2>2, DeliverFlow, GetFirstFlow, GetAfterActionFlow
<1>7. CASE Subscribed
  <2>1. UNCHANGED <<core, work, guard, command>> /\ page'.obs = page.obs
    BY <1>7, PageType DEF Subscribed, runtime_observation_snapshot, worker, Pages
  <2>2. Control' /\ Onward BY <1>c, <2>1 DEF Control, GuardFacts, Onward
  <2> QED BY <1>7, KeptHolds, <2>2, SubscribedFlow
<1>8. CASE GetAnswer
  <2>1. UNCHANGED <<core, work, guard>> /\ command' = "none" /\ page'.obs = page.obs
    BY <1>8, PageType DEF GetAnswer, runtime_observation_snapshot, worker, Pages
  <2>2. Control' /\ Onward BY <1>c, <2>1 DEF Control, GuardFacts, Onward
  <2> QED BY <1>8, KeptHolds, <2>2, GetAnswerFlow
<1>9. ASSUME NEW a \in {"start", "stop"}, runManagedRuntimeAction(a) PROVE IInv' /\ Onward
  <2>1. UNCHANGED <<core, work>> /\ page'.obs = page.obs
    BY <1>9, PageType DEF runManagedRuntimeAction, Pages
  <2>2. /\ guard' \in {guard, "command"} /\ command' \in {"start", "stop", "answered"}
    BY <1>9 DEF runManagedRuntimeAction
  <2>3. Control' /\ Onward BY <1>c, <2>1, <2>2, NamesAssumption DEF Control, GuardFacts, Onward
  <2> QED BY <1>9, KeptHolds, <2>3, ActionFlow
<1> QED BY <1>1, <1>2, <1>3, <1>4, <1>5, <1>6, <1>7, <1>8, <1>9 DEF Next, PageNext

(* What is recorded is what the core is, what is on its way can be read in *)
(* the order of its revisions, and the newest one is shown or on its way:  *)
(* in every state of the application, whoever records, whichever delta     *)
(* overtakes which, and whenever the window is hidden or shown.            *)
THEOREM Invariance == Spec => []IInv
<1>1. Init => IInv BY InitHolds
<1>2. IInv /\ [Next]_vars => IInv'
  <2> SUFFICES ASSUME IInv, [Next]_vars PROVE IInv' OBVIOUS
  <2>1. CASE Next BY <2>1, NextHolds
  <2>2. CASE UNCHANGED vars
    <3>1. UNCHANGED <<snap, sending, core, now, desk, page>> BY <2>2 DEF vars, desk
    <3>2. Kept BY <3>1, Silent, RecordingFlow
    <3>3. UNCHANGED <<core, work, guard, command>> BY <2>2 DEF vars
    <3>4. Control' BY <3>3, ControlHolds DEF Control, GuardFacts
    <3> QED BY <3>2, <3>4, KeptHolds
  <2> QED BY <2>1, <2>2
<1> QED BY <1>1, <1>2, PTL DEF Spec

(* The snapshot tells of the core there is: its lifecycle, its traffic, and*)
(* the guards are held for as long as the worker has a request (the        *)
(* record_* of observability.rs, the operation guards of the controller).  *)
THEOREM ConsistentHolds == Spec => []Consistent
<1>1. IInv => Consistent BY DEF IInv
<1> QED BY <1>1, Invariance, PTL

(* Every event sent to the page passes parseRuntimeObservation, in whatever*)
(* order the samples, the records and the prunes come.                     *)
THEOREM EveryPayloadIsReadHolds == Spec => []EveryPayloadIsRead
<1>1. IInv => EveryPayloadIsRead
  <2> SUFFICES ASSUME IInv PROVE EveryPayloadIsRead OBVIOUS
  <2>1. \A e \in Travelling : e.read # None BY DEF IInv, RevisionFacts
  <2> QED BY <2>1, KnownFacts DEF EveryPayloadIsRead
<1> QED BY <1>1, Invariance, PTL

(* With nothing on its way the page shows the last revision, and what it   *)
(* shows as certain is no older than the answer to its own action (App.tsx,*)
(* runManagedRuntimeAction).                                               *)
THEOREM PageIsCurrentHolds == Spec => []PageIsCurrent
<1>1. IInv => PageIsCurrent
  <2> SUFFICES ASSUME IInv PROVE PageIsCurrent OBVIOUS
  <2>1. PageCatchesUp
    <3> SUFFICES ASSUME \A t \in Threads : sending[t] = None, channel = <<>>, window.visible,
                        ~window.restoring, page.first = "done", ~Acting, ~page.early
                 PROVE  \E o \in page.obs : o.rev = snap.rev
      BY DEF PageCatchesUp
    <3>1. page.acting = "no" BY DEF Acting
    <3>2. page.reply = None BY <3>1, PageType DEF PageFacts
    <3>3. \A t \in Threads : sending[t] = {} BY DEF None
    <3>4. DOMAIN channel = {} /\ page.reply = {} BY <3>2 DEF None
    <3> QED BY <3>1, <3>3, <3>4, PageType DEF NewestIsOnItsWay
  <2>2. ConfirmedIsCurrent
    <3> SUFFICES ASSUME ~page.error PROVE ~Acting /\ \A o \in page.obs : o.rev >= page.floor
      BY DEF ConfirmedIsCurrent
    <3>1. page.acting = "no" BY PageType DEF PageFacts
    <3>2. page.floor = -1 \/ \E o \in page.obs : o.rev >= page.floor BY <3>1, PageType DEF PageFacts
    <3>3. \A o \in page.obs : o.rev \in Nat /\ page.obs = {o}
      BY KnownFacts, NotAhead, OneRead, PageType DEF Pages
    <3>4. \A o \in page.obs : o.rev >= page.floor BY <3>2, <3>3
    <3> QED BY <3>1, <3>4 DEF Acting
  <2> QED BY <2>1, <2>2 DEF PageIsCurrent
<1> QED BY <1>1, Invariance, PTL

(* The page never shows an older revision, or an older time, than it has   *)
(* shown (acceptNewerObservation of src/lib/observability.ts), though the  *)
(* deltas are sent after the lock is released and overtake each other.     *)
THEOREM PageNeverGoesBackHolds == Spec => PageNeverGoesBack
<1> DEFINE Forward == \A o \in page.obs : \E n \in page'.obs : n.rev >= o.rev /\ n.at >= o.at
<1>1. IInv /\ [Next]_vars => [Forward]_vars
  <2> SUFFICES ASSUME IInv, Next PROVE Forward OBVIOUS
  <2>1. Onward BY NextHolds
  <2>2. \A o \in page.obs : o \in Known /\ o.rev \in Nat /\ o.at \in Nat BY KnownFacts, NotAhead
  <2>3. CASE page'.obs = page.obs BY <2>2, <2>3
  <2>4. CASE \E r \in Known : TakenIn(page'.obs, r)
    <3> SUFFICES ASSUME NEW o \in page.obs
                 PROVE  \E n \in page'.obs : n.rev >= o.rev /\ n.at >= o.at
      OBVIOUS
    <3>1. PICK n \in page'.obs : /\ n \in Known
                                 /\ n = o \/ n.rev > o.rev \/ (n.rev = o.rev /\ n.at >= o.at)
      BY <2>4 DEF TakenIn
    <3>2. n.rev \in Nat /\ n.at \in Nat BY <3>1, NotAhead
    <3>3. o.rev < n.rev => o.at <= n.at
      BY <2>2, <3>1, PageType, FlowHolds DEF Flow, RevisionFacts
    <3>4. n.rev >= o.rev /\ n.at >= o.at BY <2>2, <3>1, <3>2, <3>3
    <3> QED BY <3>4
  <2> QED BY <2>1, <2>3, <2>4 DEF Onward
<1> QED BY <1>1, Invariance, PTL DEF Spec, PageNeverGoesBack
=============================================================================
