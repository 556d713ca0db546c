---------------------------- MODULE ViewersProofs ------------------------------
(***************************************************************************)
(* Tabs, requests and the goroutines behind them, for any number of        *)
(* viewers, requests and lines.  The invariant: a goroutine that runs      *)
(* belongs to the live request of its viewer; the request of a followed    *)
(* log, which no deadline ends, has a tab until it is cancelled; and a     *)
(* viewer that is about to become a tab is about something no tab is       *)
(* about.                                                                  *)
(***************************************************************************)
EXTENDS Viewers, WellFoundedInduction, TLAPS

-----------------------------------------------------------------------------
(* Closing a tab takes one place out of the tabs.                          *)

Less == {p \in Nat \X Nat : p[1] < p[2]}

LEMMA LessIsWellFounded == IsWellFoundedOn(Less, Nat)
<1>1. OpToRel(<, Nat) = Less
  BY DEF OpToRel, Less
<1> QED
  BY <1>1, NatLessThanWellFounded, Zenon

LEMMA LeastExists ==
    ASSUME NEW S \in SUBSET Nat, S # {}
    PROVE  \E m \in S : \A i \in S : m <= i
<1>1. PICK m \in S : \A i \in S : <<i, m>> \notin Less
  BY LessIsWellFounded, WFMin
<1>2. ASSUME NEW i \in S PROVE m <= i
  <2>1. <<i, m>> \in Nat \X Nat /\ <<i, m>>[1] = i /\ <<i, m>>[2] = m
    OBVIOUS
  <2>2. ~(i < m)
    BY <1>1, <2>1 DEF Less
  <2> QED
    BY <2>2
<1> QED
  BY <1>2

\* What slices.Delete leaves: the first place of e is skipped.
LEMMA Removed ==
    ASSUME NEW S, NEW s \in Seq(S), NEW e
    PROVE  LET r == RemoveFirst(s, e) IN
           \/ (\A i \in 1..Len(s) : s[i] # e) /\ r = s
           \/ \E k \in 1..Len(s) :
                 /\ s[k] = e
                 /\ r \in Seq(S) /\ Len(r) = Len(s) - 1
                 /\ \A i \in 1..Len(r) : r[i] = IF i < k THEN s[i] ELSE s[i + 1]
<1> DEFINE places == {i \in 1..Len(s) : s[i] = e}
           k == Min(places)
<1>1. CASE places = {}
  BY <1>1 DEF RemoveFirst
<1>2. CASE places # {}
  <2>1. \E i \in 1..Len(s) : s[i] = e
    BY <1>2
  <2>2. SelectInSeq(s, LAMBDA v : v = e) = k
    BY <1>2 DEF SelectInSeq
  <2>3. k \in places
    <3>1. places \in SUBSET Nat
      OBVIOUS
    <3> HIDE DEF places
    <3>2. \E m \in places : \A i \in places : m <= i
      BY <1>2, <3>1, LeastExists
    <3> QED
      BY <3>2 DEF Min
  <2>4. RemoveFirst(s, e) = RemoveAt(s, k)
    BY <2>1, <2>2 DEF RemoveFirst
  <2> HIDE DEF k
  <2>5. k \in 1..Len(s) /\ s[k] = e
    BY <2>3
  <2>6. Len(s) \in Nat
    OBVIOUS
  <2>7. /\ SubSeq(s, 1, k - 1) \in Seq(S) /\ Len(SubSeq(s, 1, k - 1)) = k - 1
        /\ \A i \in 1..k - 1 : SubSeq(s, 1, k - 1)[i] = s[i]
    BY <2>5, <2>6
  <2>8. /\ SubSeq(s, k + 1, Len(s)) \in Seq(S) /\ Len(SubSeq(s, k + 1, Len(s))) = Len(s) - k
        /\ \A i \in 1..Len(s) - k : SubSeq(s, k + 1, Len(s))[i] = s[k + i]
    BY <2>5, <2>6
  <2> DEFINE a == SubSeq(s, 1, k - 1)
             b == SubSeq(s, k + 1, Len(s))
  <2> HIDE DEF a, b
  <2>9. /\ a \o b \in Seq(S) /\ Len(a \o b) = Len(a) + Len(b)
        /\ \A i \in 1..Len(a) + Len(b) :
              (a \o b)[i] = IF i <= Len(a) THEN a[i] ELSE b[i - Len(a)]
    <3>1. a \in Seq(S) /\ b \in Seq(S)
      BY <2>7, <2>8 DEF a, b
    <3> QED
      BY <3>1
  <2>10. \A i \in 1..Len(s) - 1 : (a \o b)[i] = IF i < k THEN s[i] ELSE s[i + 1]
    <3> TAKE i \in 1..Len(s) - 1
    <3>1. Len(a) = k - 1 /\ Len(b) = Len(s) - k
      BY <2>7, <2>8 DEF a, b
    <3>2. CASE i < k
      <4>1. i \in 1..k - 1
        BY <2>5, <3>2
      <4> QED
        BY <2>5, <2>6, <2>7, <2>9, <3>1, <3>2, <4>1 DEF a
    <3>3. CASE ~(i < k)
      <4>1. i - (k - 1) \in 1..Len(s) - k
        BY <2>5, <2>6, <3>3
      <4>2. (a \o b)[i] = b[i - (k - 1)]
        BY <2>5, <2>6, <2>9, <3>1, <3>3
      <4>3. b[i - (k - 1)] = s[k + (i - (k - 1))]
        BY <2>8, <4>1 DEF b
      <4> QED
        BY <2>5, <2>6, <3>3, <4>2, <4>3
    <3> QED
      BY <3>2, <3>3
  <2>11. RemoveFirst(s, e) = a \o b
    BY <2>4 DEF RemoveAt, a, b
  <2>12. Len(a \o b) = Len(s) - 1
    BY <2>5, <2>6, <2>7, <2>8, <2>9 DEF a, b
  <2> QED
    BY <2>5, <2>9, <2>10, <2>11, <2>12
<1> QED
  BY <1>1, <1>2

-----------------------------------------------------------------------------
Viewer == [kind : Kinds, target : Targets, parent : Ids \cup {Nil},
           gen : Requests \cup {Nil}, live : BOOLEAN, done : BOOLEAN,
           lines : Seq([gen : Requests, n : 1..Output])]
Worker == [owner : Ids \cup {Nil}, at : {"off", "run", "gone"}, timed : BOOLEAN,
           sent : 0..Output, cancelled : BOOLEAN, late : BOOLEAN]
Result == {r \in [gen : Requests, n : 0..Output, done : BOOLEAN] : r.done \/ r.n > 0}

Typed ==
    /\ viewers \in Seq(Viewer) /\ Len(viewers) <= MaxViewers
    /\ view \in DOMAIN viewers \cup {Nil, Help, Flow}
    /\ outputs \in Seq(DOMAIN viewers)
    /\ generation \in 0..MaxRequests
    /\ worker \in [Requests -> Worker]
    /\ results \in Seq(Result) /\ Len(results) <= ResultCap
    /\ main \in Stops \cup {Loop, Gone}
    /\ main.stop \in DOMAIN viewers \cup {Nil}

\* A page lies over an archive list that is there.
Parents ==
    \A v \in DOMAIN viewers :
        viewers[v].parent # Nil => /\ viewers[v].parent \in DOMAIN viewers
                                   /\ Kind(viewers[v].parent) = "archive"

LEMMA TypedIsTypeOK == Typed => TypeOK
<1> SUFFICES ASSUME Typed PROVE TypeOK
  OBVIOUS
<1>1. results \in Seq([gen : Requests, n : 0..Output, done : BOOLEAN])
  <2>1. Result \subseteq [gen : Requests, n : 0..Output, done : BOOLEAN]
    BY DEF Result
  <2> DEFINE R == [gen : Requests, n : 0..Output, done : BOOLEAN]
  <2> HIDE DEF R
  <2>2. results \in Seq(Result) /\ Result \subseteq R
    BY <2>1 DEF Typed, R
  <2>3. results \in Seq(R)
    BY <2>2
  <2> QED
    BY <2>3 DEF R
<1>2. viewers \in Seq([kind : Kinds, target : Targets, parent : Ids \cup {Nil},
                       gen : Requests \cup {Nil}, live : BOOLEAN, done : BOOLEAN,
                       lines : Seq([gen : Requests, n : 1..Output])])
  BY DEF Typed, Viewer
<1>3. worker \in [Requests -> [owner : Ids \cup {Nil}, at : {"off", "run", "gone"},
                              timed : BOOLEAN, sent : 0..Output,
                              cancelled : BOOLEAN, late : BOOLEAN]]
  BY DEF Typed, Worker
<1> QED
  BY <1>1, <1>2, <1>3 DEF Typed, TypeOK

LEMMA InitTyped == Init => Typed
BY ViewersAssumption DEF Init, Typed, Viewer, Worker, Result, Ids, Requests, Nil, Loop, Gone,
   Stops

\* A viewer stays a viewer when one of its fields changes.
Lines == Seq([gen : Requests, n : 1..Output])

LEMMA ViewerFlags ==
    ASSUME NEW x \in Viewer
    PROVE  /\ [x EXCEPT !.live = FALSE] \in Viewer
           /\ [x EXCEPT !.done = TRUE] \in Viewer
           /\ x.lines \in Lines
<1> DEFINE L == Lines
<1>1. x \in [kind : Kinds, target : Targets, parent : Ids \cup {Nil},
             gen : Requests \cup {Nil}, live : BOOLEAN, done : BOOLEAN, lines : L]
  BY DEF Viewer, Lines
<1> HIDE DEF L
<1>2. /\ [x EXCEPT !.live = FALSE] \in
             [kind : Kinds, target : Targets, parent : Ids \cup {Nil},
              gen : Requests \cup {Nil}, live : BOOLEAN, done : BOOLEAN, lines : L]
      /\ [x EXCEPT !.done = TRUE] \in
             [kind : Kinds, target : Targets, parent : Ids \cup {Nil},
              gen : Requests \cup {Nil}, live : BOOLEAN, done : BOOLEAN, lines : L]
      /\ x.lines \in L
  BY <1>1
<1> QED
  BY <1>2 DEF Viewer, Lines, L

LEMMA ViewerLines ==
    ASSUME NEW x \in Viewer, NEW s \in Lines
    PROVE  /\ [x EXCEPT !.lines = s] \in Viewer
           /\ [x EXCEPT !.done = TRUE, !.lines = s] \in Viewer
<1> DEFINE L == Lines
<1>1. x \in [kind : Kinds, target : Targets, parent : Ids \cup {Nil},
             gen : Requests \cup {Nil}, live : BOOLEAN, done : BOOLEAN, lines : L]
  BY DEF Viewer, Lines
<1>2. s \in L
  OBVIOUS
<1> HIDE DEF L
<1>3. /\ [x EXCEPT !.lines = s] \in
             [kind : Kinds, target : Targets, parent : Ids \cup {Nil},
              gen : Requests \cup {Nil}, live : BOOLEAN, done : BOOLEAN, lines : L]
      /\ [x EXCEPT !.done = TRUE, !.lines = s] \in
             [kind : Kinds, target : Targets, parent : Ids \cup {Nil},
              gen : Requests \cup {Nil}, live : BOOLEAN, done : BOOLEAN, lines : L]
  BY <1>1, <1>2
<1> QED
  BY <1>3 DEF Viewer, Lines, L

LEMMA ViewerStarts ==
    ASSUME NEW x \in Viewer, NEW g \in Requests, NEW d \in BOOLEAN
    PROVE  [x EXCEPT !.gen = g, !.live = TRUE, !.done = d, !.lines = <<>>] \in Viewer
<1> DEFINE L == Lines
<1>1. x \in [kind : Kinds, target : Targets, parent : Ids \cup {Nil},
             gen : Requests \cup {Nil}, live : BOOLEAN, done : BOOLEAN, lines : L]
  BY DEF Viewer, Lines
<1>2. <<>> \in L
  BY DEF Lines
<1> HIDE DEF L
<1>3. [x EXCEPT !.gen = g, !.live = TRUE, !.done = d, !.lines = <<>>] \in
             [kind : Kinds, target : Targets, parent : Ids \cup {Nil},
              gen : Requests \cup {Nil}, live : BOOLEAN, done : BOOLEAN, lines : L]
  BY <1>1, <1>2
<1> QED
  BY <1>3 DEF Viewer, Lines, L

LEMMA WorkerFields ==
    ASSUME NEW x \in Worker
    PROVE  /\ [x EXCEPT !.cancelled = TRUE] \in Worker
           /\ [x EXCEPT !.at = "gone"] \in Worker
           /\ [x EXCEPT !.cancelled = TRUE, !.late = TRUE] \in Worker
BY DEF Worker

LEMMA WorkerSends ==
    ASSUME NEW x \in Worker, NEW s \in 0..Output
    PROVE  /\ [x EXCEPT !.sent = s] \in Worker
           /\ [x EXCEPT !.at = "gone", !.sent = s] \in Worker
BY DEF Worker

LEMMA StopWorks ==
    ASSUME Typed, NEW v \in DOMAIN viewers, NEW then \in {"start", "close", "exit"},
           Stop(v, then)
    PROVE  worker' \in [Requests -> Worker] /\ main' \in Stops /\ main'.stop = v
<1> DEFINE g == Owned(v)
<1>1. main' \in Stops /\ main'.stop = v
  <2>1. v \in Ids
    BY ViewersAssumption DEF Typed, Ids
  <2>2. main' = [stop |-> v, then |-> then]
    BY DEF Stop
  <2> QED
    BY <2>1, <2>2 DEF Stops
<1>2. worker' \in [Requests -> Worker]
  <2>1. CASE ~viewers[v].live
    BY <2>1 DEF Stop, Typed
  <2>2. CASE viewers[v].live
    <3>1. worker' = [worker EXCEPT ![g].cancelled = TRUE]
      BY <2>2 DEF Stop
    <3> HIDE DEF g
    <3>2. ASSUME NEW h \in Requests PROVE worker'[h] \in Worker
      <4>1. worker[h] \in Worker
        BY DEF Typed
      <4>2. worker'[h] \in {worker[h], [worker[h] EXCEPT !.cancelled = TRUE]}
        BY <3>1 DEF Typed
      <4> QED
        BY <4>1, <4>2 DEF Worker
    <3> QED
      BY <3>1, <3>2 DEF Typed
  <2> QED
    BY <2>1, <2>2
<1> QED
  BY <1>1, <1>2

LEMMA StopTyped ==
    ASSUME Typed, NEW v \in DOMAIN viewers, NEW then \in {"start", "close", "exit"},
           Stop(v, then), UNCHANGED <<viewers, view, outputs, generation, results>>
    PROVE  Typed'
BY StopWorks DEF Typed

LEMMA LeftAreViewers ==
    ASSUME Typed, Parents, NEW v \in Left
    PROVE  v \in DOMAIN viewers
<1>1. CASE v \in Range(outputs)
  BY <1>1 DEF Typed, Range
<1>2. CASE v \in Chain
  <2>1. view \in Ids
    BY <1>2 DEF Chain
  <2>2. view \in DOMAIN viewers
    BY <2>1, ViewersAssumption DEF Typed, Ids, Nil, Help, Flow
  <2> QED
    BY <1>2, <2>1, <2>2 DEF Chain, Parents
<1> QED
  BY <1>1, <1>2 DEF Left

-----------------------------------------------------------------------------
LEMMA KeysTyped ==
    ASSUME Typed, Parents, Keys
    PROVE  Typed'
<1> USE ViewersAssumption
<1>0. DOMAIN viewers = 1..Len(viewers) /\ Len(viewers) \in Nat
  BY DEF Typed
<1>1. ASSUME NEW kind \in Kinds, NEW t \in Targets, NEW p \in Ids \cup {Nil}, New(kind, t, p)
      PROVE  Typed'
  <2>1. Fresh(kind, t, p) \in Viewer
    BY DEF Fresh, Viewer, Nil
  <2>2. /\ viewers' = Append(viewers, Fresh(kind, t, p)) /\ Len(viewers) < MaxViewers
        /\ main' = [stop |-> Len(viewers) + 1, then |-> "start"]
        /\ UNCHANGED <<view, outputs, generation, worker, results>>
    BY <1>1 DEF New
  <2>3. viewers' \in Seq(Viewer) /\ Len(viewers') = Len(viewers) + 1
    BY <2>1, <2>2 DEF Typed
  <2>4. DOMAIN viewers' = 1..Len(viewers) + 1 /\ DOMAIN viewers \subseteq DOMAIN viewers'
    BY <1>0, <2>3
  <2>5. Len(viewers) + 1 \in Ids
    BY <1>0, <2>2 DEF Ids
  <2>6. main' \in Stops /\ main'.stop \in DOMAIN viewers'
    BY <1>0, <2>2, <2>4, <2>5 DEF Stops
  <2>7. outputs' \in Seq(DOMAIN viewers')
    <3> DEFINE A == DOMAIN viewers
               B == DOMAIN viewers'
    <3> HIDE DEF A, B
    <3>1. outputs \in Seq(A) /\ A \subseteq B
      BY <2>4 DEF Typed, A, B
    <3> QED
      BY <2>2, <3>1 DEF B
  <2> QED
    BY <1>0, <2>2, <2>3, <2>4, <2>6, <2>7 DEF Typed
<1>2. ASSUME NEW kind \in Kinds, NEW t \in Targets, Open(kind, t) PROVE Typed'
  <2>1. CASE New(kind, t, Nil)
    BY <1>1, <2>1
  <2>2. CASE view' \in SameTab(kind, t) /\ UNCHANGED <<viewers, outputs, generation, worker, results, main>>
    <3>1. view' \in DOMAIN viewers
      BY <2>2 DEF Typed, SameTab, Range
    <3> QED
      BY <2>2, <3>1 DEF Typed
  <2> QED
    BY <1>2, <2>1, <2>2 DEF Open
<1>3. CASE OpenDetail
  <2>1. view \in Ids /\ view \in DOMAIN viewers
    BY <1>3 DEF OpenDetail, Typed, Ids, Nil, Help, Flow
  <2>2. viewers[view] \in Viewer
    BY <2>1 DEF Typed
  <2>3. viewers[view].target \in Targets
    BY <2>2 DEF Viewer
  <2> QED
    BY <1>1, <1>3, <2>1, <2>3 DEF OpenDetail, Kinds
<1>4. CASE Reload
  <2>1. view \in DOMAIN viewers
    BY <1>4 DEF Reload, Typed, Ids, Nil, Help, Flow
  <2> QED
    BY <1>4, <2>1, StopTyped DEF Reload
<1>5. ASSUME NEW v \in DOMAIN viewers, Close(v) PROVE Typed'
  BY <1>5, StopTyped DEF Close
<1>6. ASSUME NEW x \in DOMAIN viewers \cup {Nil, Help, Flow}, Select(x) PROVE Typed'
  BY <1>6 DEF Select, Typed
<1>7. ASSUME NEW v \in Left, Stop(v, "exit"), UNCHANGED <<viewers, view, outputs, generation, results>>
      PROVE  Typed'
  <2>1. v \in DOMAIN viewers
    BY LeftAreViewers
  <2> QED
    BY <1>7, <2>1, StopTyped
<1>8. CASE Quit
  <2>1. CASE Left = {}
    BY <1>8, <2>1 DEF Quit, Typed, Gone
  <2>2. CASE Left # {}
    BY <1>7, <1>8, <2>2 DEF Quit
  <2> QED
    BY <2>1, <2>2
<1> QED
  BY <1>2, <1>3, <1>4, <1>5, <1>6, <1>8 DEF Keys
LEMMA RestTyped ==
    ASSUME Typed, Parents, Continue \/ Receive \/ \E g \in Requests : Work(g)
    PROVE  Typed'
<1> USE ViewersAssumption
<1>0. DOMAIN viewers = 1..Len(viewers) /\ Len(viewers) \in Nat
  BY DEF Typed
\* What keeps the viewers and changes some of their fields.
<1>1. ASSUME DOMAIN viewers' = DOMAIN viewers,
             \A v \in DOMAIN viewers : viewers'[v] \in Viewer,
             viewers' = [v \in DOMAIN viewers |-> viewers'[v]]
      PROVE  viewers' \in Seq(Viewer) /\ Len(viewers') = Len(viewers)
  BY <1>0, <1>1
<1>2. ASSUME NEW v \in DOMAIN viewers, Start(v) PROVE Typed'
  <2> DEFINE g == generation'
  <2>1. g = generation + 1 /\ g \in Requests
    BY <1>2 DEF Start, NextGeneration, Requests, Typed
  <2>2. PICK timed \in BOOLEAN, built \in BOOLEAN : Request(v, g, timed, built)
    BY <1>2 DEF Start, Deadlines, Built
  <2> HIDE DEF g
  <2>3. /\ DOMAIN viewers' = DOMAIN viewers /\ viewers' = [w \in DOMAIN viewers |-> viewers'[w]]
        /\ \A w \in DOMAIN viewers : w # v => viewers'[w] = viewers[w]
        /\ viewers'[v] = [viewers[v] EXCEPT !.gen = g, !.live = TRUE, !.done = ~built,
                                            !.lines = <<>>]
    BY <2>2 DEF Request, Typed
  <2>4. \A w \in DOMAIN viewers : viewers'[w] \in Viewer
    <3>1. viewers[v] \in Viewer
      BY DEF Typed
    <3>2. viewers'[v] \in Viewer
      <4>1. (~built) \in BOOLEAN
        OBVIOUS
      <4> DEFINE d == ~built
      <4> HIDE DEF d
      <4>2. [viewers[v] EXCEPT !.gen = g, !.live = TRUE, !.done = d, !.lines = <<>>] \in Viewer
        BY <2>1, <3>1, <4>1, ViewerStarts DEF d
      <4> QED
        BY <2>3, <4>2 DEF d
    <3> SUFFICES ASSUME NEW w \in DOMAIN viewers PROVE viewers'[w] \in Viewer
      OBVIOUS
    <3>3. viewers[w] \in Viewer
      BY DEF Typed
    <3> QED
      BY <2>3, <3>2, <3>3
  <2>5. worker' \in [Requests -> Worker]
    <3>1. v \in Ids
      BY <1>0 DEF Typed, Ids
    <3> DEFINE fresh == [owner |-> v, at |-> IF built THEN "run" ELSE "gone", timed |-> timed,
                         sent |-> 0, cancelled |-> FALSE, late |-> FALSE]
    <3>2. fresh \in Worker
      BY <3>1 DEF Worker
    <3>3. worker' = [worker EXCEPT ![g] = fresh]
      BY <2>2 DEF Request
    <3> HIDE DEF fresh
    <3> QED
      BY <3>2, <3>3 DEF Typed
  <2>6. viewers' \in Seq(Viewer) /\ Len(viewers') = Len(viewers)
    BY <1>1, <2>3, <2>4
  <2>7. outputs' \in Seq(DOMAIN viewers)
    <3> DEFINE D == DOMAIN viewers
    <3>1. outputs \in Seq(D) /\ v \in D
      BY DEF Typed
    <3>2. outputs' \in {outputs, Append(outputs, v)}
      BY <1>2 DEF Start, AddTab
    <3> HIDE DEF D
    <3>3. outputs' \in Seq(D)
      BY <3>1, <3>2
    <3> QED
      BY <3>3 DEF D
  <2>8. UNCHANGED results /\ main' = Loop /\ view' = v /\ generation' \in 0..MaxRequests
    BY <1>2, <2>1 DEF Start, Requests, g
  <2> QED
    BY <2>3, <2>5, <2>6, <2>7, <2>8 DEF Typed, Loop
\* The live flag of v falls.
<1>3. ASSUME NEW v \in DOMAIN viewers, viewers' = [viewers EXCEPT ![v].live = FALSE]
      PROVE  viewers' \in Seq(Viewer) /\ Len(viewers') = Len(viewers) /\ DOMAIN viewers' = DOMAIN viewers
  <2>1. DOMAIN viewers' = DOMAIN viewers /\ viewers' = [w \in DOMAIN viewers |-> viewers'[w]]
    BY <1>3 DEF Typed
  <2>2. \A w \in DOMAIN viewers : viewers'[w] \in {viewers[w], [viewers[w] EXCEPT !.live = FALSE]}
    BY <1>3 DEF Typed
  <2>3. \A w \in DOMAIN viewers : viewers'[w] \in Viewer
    <3> TAKE w \in DOMAIN viewers
    <3>1. viewers[w] \in Viewer
      BY DEF Typed
    <3> QED
      BY <2>2, <3>1, ViewerFlags
  <2> QED
    BY <1>1, <2>1, <2>3
<1>4. ASSUME NEW v \in DOMAIN viewers, Closed(v) PROVE Typed'
  <2>1. /\ viewers' = [viewers EXCEPT ![v].live = FALSE] /\ outputs' = RemoveFirst(outputs, v)
        /\ view' = (IF view = v THEN viewers[v].parent ELSE view)
        /\ main' = Loop /\ UNCHANGED <<generation, worker, results>>
    BY <1>4 DEF Closed
  <2>2. viewers' \in Seq(Viewer) /\ Len(viewers') = Len(viewers) /\ DOMAIN viewers' = DOMAIN viewers
    BY <1>3, <2>1
  <2>3. outputs' \in Seq(DOMAIN viewers)
    <3> DEFINE D == DOMAIN viewers
    <3>1. outputs \in Seq(D)
      BY DEF Typed
    <3> HIDE DEF D
    <3>2. RemoveFirst(outputs, v) \in Seq(D)
      BY <3>1, Removed
    <3> QED
      BY <2>1, <3>2 DEF D
  <2>4. view' \in DOMAIN viewers \cup {Nil, Help, Flow}
    BY <2>1 DEF Parents, Typed
  <2> QED
    BY <2>1, <2>2, <2>3, <2>4 DEF Typed, Loop
<1>5. ASSUME NEW v \in DOMAIN viewers, Stopped(v) PROVE Typed'
  <2>1. /\ viewers' = [viewers EXCEPT ![v].live = FALSE]
        /\ UNCHANGED <<view, outputs, generation, results>>
    BY <1>5 DEF Stopped
  <2>2. viewers' \in Seq(Viewer) /\ Len(viewers') = Len(viewers) /\ DOMAIN viewers' = DOMAIN viewers
    BY <1>3, <2>1
  <2>3. CASE main' = Gone /\ UNCHANGED worker
    BY <2>1, <2>2, <2>3 DEF Typed, Gone
  <2>4. ASSUME NEW w \in Left, Stop(w, "exit") PROVE Typed'
    <3>1. w \in DOMAIN viewers
      BY LeftAreViewers
    <3>2. worker' \in [Requests -> Worker] /\ main' \in Stops /\ main'.stop = w
      BY <2>4, <3>1, StopWorks
    <3> QED
      BY <2>1, <2>2, <3>1, <3>2 DEF Typed
  <2> QED
    BY <1>5, <2>3, <2>4 DEF Stopped
<1>6. CASE Receive
  <2> DEFINE r == Head(results)
  <2>1. r \in Result /\ Tail(results) \in Seq(Result) /\ Len(Tail(results)) = Len(results) - 1
    <3>1. results \in Seq(Result) /\ results # <<>>
      BY <1>6 DEF Receive, Typed
    <3> QED
      BY <3>1
  <2>2. r.gen \in Requests /\ r.n \in 0..Output /\ (~r.done => r.n > 0)
    BY <2>1 DEF Result
  <2> DEFINE line == [gen |-> r.gen, n |-> r.n]
  <2>3. viewers' = [v \in DOMAIN viewers |-> viewers'[v]] /\ DOMAIN viewers' = DOMAIN viewers
    BY <1>6 DEF Receive
  <2>4. ASSUME NEW v \in DOMAIN viewers PROVE viewers'[v] \in Viewer
    <3>0. viewers[v] \in Viewer
      BY DEF Typed
    <3>1. viewers[v] \in Viewer /\ viewers[v].lines \in Lines
      BY <3>0, ViewerFlags
    <3>2. \/ viewers'[v] = viewers[v]
          \/ ~r.done /\ viewers'[v] = [viewers[v] EXCEPT !.lines = appendLine(viewers[v].lines, line)]
          \/ r.n > 0 /\ viewers'[v] = [viewers[v] EXCEPT !.done = TRUE, !.lines = <<line>>]
          \/ viewers'[v] = [viewers[v] EXCEPT !.done = TRUE]
      BY <1>6, <2>1, <2>2 DEF Receive
    <3>3. r.n > 0 => line \in [gen : Requests, n : 1..Output]
      BY <2>2
    <3>4. ASSUME NEW l \in [gen : Requests, n : 1..Output], NEW ls \in Lines
          PROVE  appendLine(ls, l) \in Lines
      <4> DEFINE L == [gen : Requests, n : 1..Output]
      <4> HIDE DEF L
      <4>1. l \in L /\ ls \in Seq(L)
        BY DEF L, Lines
      <4>2. appendLine(ls, l) \in Seq(L)
        <5>1. CASE Len(ls) >= LogLines
          <6>1. ls # <<>>
            BY <4>1, <5>1
          <6>2. Tail(ls) \in Seq(L)
            BY <4>1, <6>1
          <6> QED
            BY <4>1, <5>1, <6>2 DEF appendLine
        <5>2. CASE ~(Len(ls) >= LogLines)
          BY <4>1, <5>2 DEF appendLine
        <5> QED
          BY <5>1, <5>2
      <4> QED
        BY <4>2 DEF L, Lines
    <3>5. r.n > 0 => <<line>> \in Lines
      <4> DEFINE L == [gen : Requests, n : 1..Output]
      <4>1. r.n > 0 => line \in L
        BY <3>3
      <4> HIDE DEF L, line
      <4>2. r.n > 0 => <<line>> \in Seq(L)
        BY <4>1
      <4> QED
        BY <4>2 DEF L, Lines
    <3> HIDE DEF line, r
    <3>6. ASSUME ~r.done, viewers'[v] = [viewers[v] EXCEPT !.lines = appendLine(viewers[v].lines, line)]
          PROVE  viewers'[v] \in Viewer
      <4>1. appendLine(viewers[v].lines, line) \in Lines
        BY <2>2, <3>1, <3>3, <3>4, <3>6
      <4> QED
        BY <3>1, <3>6, <4>1, ViewerLines
    <3>7. ASSUME r.n > 0, viewers'[v] = [viewers[v] EXCEPT !.done = TRUE, !.lines = <<line>>]
          PROVE  viewers'[v] \in Viewer
      BY <3>1, <3>5, <3>7, ViewerLines
    <3>8. ASSUME viewers'[v] = [viewers[v] EXCEPT !.done = TRUE] PROVE viewers'[v] \in Viewer
      BY <3>1, <3>8, ViewerFlags
    <3> QED
      BY <3>1, <3>2, <3>6, <3>7, <3>8
  <2>5. viewers' \in Seq(Viewer) /\ Len(viewers') = Len(viewers)
    BY <1>1, <2>3, <2>4
  <2>6. results' \in Seq(Result) /\ Len(results') <= ResultCap
    <3>1. results' = Tail(results)
      BY <1>6 DEF Receive
    <3>2. Len(results) <= ResultCap /\ Len(results) \in Nat
      BY DEF Typed
    <3> QED
      BY <2>1, <3>1, <3>2
  <2> QED
    BY <1>6, <2>3, <2>5, <2>6 DEF Receive, Typed
<1>7. ASSUME NEW g \in Requests, Work(g) PROVE Typed'
  <2>1. worker[g] \in Worker
    BY DEF Typed
  <2>2. ASSUME NEW n \in 0..Output, NEW done \in BOOLEAN, done \/ n > 0, Send(g, n, done)
        PROVE  results' \in Seq(Result) /\ Len(results') <= ResultCap
    <3>1. [gen |-> g, n |-> n, done |-> done] \in Result
      BY <2>2 DEF Result
    <3>2. results' = Append(results, [gen |-> g, n |-> n, done |-> done]) /\ Len(results) < ResultCap
      BY <2>2 DEF Send
    <3> QED
      BY <3>1, <3>2 DEF Typed
  <2>3. ASSUME NEW x \in Worker, worker' = [worker EXCEPT ![g] = x]
        PROVE  worker' \in [Requests -> Worker]
    BY <2>3 DEF Typed
  <2>4. CASE SendLine(g)
    <3>1. worker[g].sent + 1 \in 0..Output /\ worker[g].sent + 1 > 0
      BY <2>1, <2>4 DEF SendLine, Worker
    <3>2. worker' = [worker EXCEPT ![g] = [worker[g] EXCEPT !.sent = worker[g].sent + 1]]
      BY <2>4 DEF SendLine
    <3>3. worker' \in [Requests -> Worker]
      BY <2>1, <2>3, <3>1, <3>2, WorkerSends
    <3>4. results' \in Seq(Result) /\ Len(results') <= ResultCap
      BY <2>2, <2>4, <3>1 DEF SendLine
    <3> QED
      BY <2>4, <3>3, <3>4 DEF SendLine, Stays, Typed
  <2>5. CASE SendDone(g)
    <3>1. worker' \in [Requests -> Worker]
      <4>1. \/ worker' = [worker EXCEPT ![g] = [worker[g] EXCEPT !.at = "gone"]]
            \/ Output > 0 /\ worker' = [worker EXCEPT ![g] =
                                          [worker[g] EXCEPT !.at = "gone", !.sent = 1]]
        BY <2>5 DEF SendDone
      <4>2. Output > 0 => 1 \in 0..Output
        OBVIOUS
      <4> QED
        BY <2>1, <2>3, <4>1, <4>2, WorkerFields, WorkerSends
    <3>2. results' \in Seq(Result) /\ Len(results') <= ResultCap
      <4>1. Send(g, 0, TRUE) \/ (Output > 0 /\ Send(g, 1, TRUE))
        BY <2>5 DEF SendDone
      <4>2. 0 \in 0..Output /\ (Output > 0 => 1 \in 0..Output) /\ TRUE \in BOOLEAN
        OBVIOUS
      <4> QED
        BY <2>2, <4>1, <4>2
    <3> QED
      BY <2>5, <3>1, <3>2 DEF SendDone, Stays, Typed
  <2>6. CASE Abandon(g)
    <3>1. worker' = [worker EXCEPT ![g] = [worker[g] EXCEPT !.at = "gone"]]
      BY <2>6 DEF Abandon
    <3>2. worker' \in [Requests -> Worker]
      BY <2>1, <2>3, <3>1, WorkerFields
    <3> QED
      BY <2>6, <3>2 DEF Abandon, Stays, Typed
  <2>7. CASE Deadline(g)
    <3>1. worker' = [worker EXCEPT ![g] = [worker[g] EXCEPT !.cancelled = TRUE, !.late = TRUE]]
      BY <2>7 DEF Deadline
    <3>2. worker' \in [Requests -> Worker]
      BY <2>1, <2>3, <3>1, WorkerFields
    <3> QED
      BY <2>7, <3>2 DEF Deadline, Stays, Typed
  <2> QED
    BY <1>7, <2>4, <2>5, <2>6, <2>7 DEF Work
<1> QED
  BY <1>2, <1>4, <1>5, <1>6, <1>7 DEF Continue
-----------------------------------------------------------------------------
(* Requests and tabs.                                                      *)

Runs ==
    \A g \in Requests : Running(g) =>
        LET v == worker[g].owner IN
        /\ g <= generation
        /\ v \in DOMAIN viewers /\ viewers[v].gen = g /\ viewers[v].live
        /\ worker[g].timed \/ Kind(v) = "logs"
        /\ \/ worker[g].timed \/ worker[g].cancelled
           \/ main # Gone /\ v \in Range(outputs)

Alike(v, w) == Kind(v) = Kind(w) /\ viewers[v].target = viewers[w].target

Unopened(v) ==
    Kind(v) \in Workspace /\ v \notin Range(outputs) =>
        \A w \in Range(outputs) : ~Alike(v, w)

Tabs ==
    /\ TabsDistinct
    /\ view \in Ids /\ Kind(view) \in Workspace => view \in Range(outputs)
    /\ main.then = "start" => Unopened(main.stop)

IInv == Typed /\ Parents /\ Runs /\ Tabs

\* Steps of one kind or another that end requests and start none.
Fewer ==
    \A g \in Requests : worker'[g].at = "run" =>
        /\ worker[g].at = "run"
        /\ worker'[g].owner = worker[g].owner /\ worker'[g].timed = worker[g].timed
        /\ worker[g].cancelled => worker'[g].cancelled

\* The viewers stay what they are about.
Same ==
    /\ DOMAIN viewers' = DOMAIN viewers
    /\ \A v \in DOMAIN viewers :
          /\ viewers'[v].kind = viewers[v].kind
          /\ viewers'[v].target = viewers[v].target
          /\ viewers'[v].parent = viewers[v].parent
SameRequests ==
    \A v \in DOMAIN viewers :
        viewers'[v].gen = viewers[v].gen /\ viewers'[v].live = viewers[v].live

LEMMA StopEndsRequests ==
    ASSUME Typed, NEW v \in DOMAIN viewers, NEW then \in {"start", "close", "exit"},
           Stop(v, then)
    PROVE  Fewer /\ main' # Gone /\ main'.then = then /\ main'.stop = v
<1>1. main' = [stop |-> v, then |-> then]
  BY DEF Stop
<1>2. main' # Gone
  BY <1>1 DEF Gone
<1>3. Fewer
  <2>1. CASE UNCHANGED worker
    BY <2>1 DEF Fewer
  <2>2. CASE worker' = [worker EXCEPT ![Owned(v)].cancelled = TRUE]
    <3> DEFINE o == Owned(v)
    <3>1. worker' = [worker EXCEPT ![o].cancelled = TRUE]
      BY <2>2
    <3> HIDE DEF o
    <3>2. ASSUME NEW g \in Requests, worker'[g].at = "run"
          PROVE  /\ worker[g].at = "run"
                 /\ worker'[g].owner = worker[g].owner /\ worker'[g].timed = worker[g].timed
                 /\ worker[g].cancelled => worker'[g].cancelled
      <4>1. worker[g] \in Worker /\ worker \in [Requests -> Worker]
        BY DEF Typed
      <4>2. CASE g # o
        BY <3>1, <3>2, <4>1, <4>2
      <4>3. CASE g = o
        <5>1. worker'[g] = [worker[g] EXCEPT !.cancelled = TRUE]
          BY <3>1, <4>1, <4>3
        <5> QED
          BY <3>2, <4>1, <5>1 DEF Worker
      <4> QED
        BY <4>2, <4>3
    <3> QED
      BY <3>2 DEF Fewer
  <2> QED
    BY <2>1, <2>2 DEF Stop
<1> QED
  BY <1>1, <1>2, <1>3

LEMMA RunsKept ==
    ASSUME Typed, Runs, Fewer, UNCHANGED generation,
           \A v \in DOMAIN viewers :
               /\ v \in DOMAIN viewers'
               /\ viewers'[v].kind = viewers[v].kind /\ viewers'[v].gen = viewers[v].gen
               /\ viewers'[v].live = viewers[v].live,
           main' # Gone \/ (main = Gone /\ UNCHANGED worker), UNCHANGED outputs
    PROVE  Runs'
BY DEF Runs, Running, Fewer, Kind

LEMMA StopIsViewer == Typed /\ main.then \in {"start", "close", "exit"} => main.stop \in DOMAIN viewers
BY ViewersAssumption DEF Typed, Stops, Loop, Gone, Ids, Nil

LEMMA ViewIsViewer == Typed /\ view \in Ids => view \in DOMAIN viewers
BY ViewersAssumption DEF Typed, Ids, Nil, Help, Flow

LEMMA TabsKept ==
    ASSUME Typed, Parents, Tabs, Same, UNCHANGED outputs,
           view' = view \/ view' \notin Ids \/ view' \in Range(outputs),
           main'.then = "start" =>
               \/ main.then = "start" /\ main'.stop = main.stop
               \/ main'.stop \in DOMAIN viewers /\ Unopened(main'.stop)
    PROVE  Tabs' /\ Parents'
<1>1. \A v \in DOMAIN viewers : Kind(v)' = Kind(v)
  BY DEF Same, Kind
<1>2. Range(outputs) \subseteq DOMAIN viewers /\ \A i \in DOMAIN outputs : outputs[i] \in DOMAIN viewers
  BY DEF Typed, Range
<1>3. Parents'
  BY <1>1 DEF Parents, Same
<1>4. TabsDistinct'
  BY <1>1, <1>2 DEF Tabs, TabsDistinct, Same
<1>5. \A v, w \in DOMAIN viewers : Alike(v, w)' <=> Alike(v, w)
  BY <1>1 DEF Alike, Same
<1>6. Range(outputs)' = Range(outputs)
  BY DEF Range
<1>7. \A v \in DOMAIN viewers : Unopened(v) => Unopened(v)'
  BY <1>1, <1>2, <1>5, <1>6 DEF Unopened
<1>8. main'.then = "start" => Unopened(main.stop)'
  BY <1>7, StopIsViewer DEF Tabs
<1>9. view' \in Ids /\ Kind(view)' \in Workspace => view' \in Range(outputs)'
  <2>1. CASE view' = view
    <3>1. view \in Ids => Kind(view)' = Kind(view)
      BY <1>1, <2>1, ViewIsViewer DEF Kind
    <3> QED
      BY <1>6, <2>1, <3>1 DEF Tabs
  <2>2. CASE view' # view
    BY <1>6, <2>2
  <2> QED
    BY <2>1, <2>2
<1>10. Ids' = Ids /\ Workspace' = Workspace
  BY DEF Ids, Workspace
<1> QED
  BY <1>3, <1>4, <1>8, <1>9, <1>10 DEF Tabs
-----------------------------------------------------------------------------
\* A handler that stops something first.
LEMMA StopKeeps ==
    ASSUME IInv, NEW v \in DOMAIN viewers, NEW then \in {"start", "close", "exit"},
           Stop(v, then), UNCHANGED <<viewers, view, outputs, generation, results>>,
           then = "start" => Unopened(v)
    PROVE  Runs' /\ Tabs' /\ Parents'
<1>1. Fewer /\ main' # Gone /\ main'.then = then /\ main'.stop = v
  BY StopEndsRequests DEF IInv
<1>2. Same
  BY DEF Same
<1>3. Runs'
  BY <1>1, RunsKept DEF IInv
<1> QED
  BY <1>1, <1>2, <1>3, TabsKept DEF IInv

LEMMA NewKeeps ==
    ASSUME IInv, NEW kind \in Kinds, NEW t \in Targets, NEW p \in DOMAIN viewers \cup {Nil},
           New(kind, t, p), p # Nil => Kind(p) = "archive",
           kind \in Workspace => SameTab(kind, t) = {}
    PROVE  Runs' /\ Tabs' /\ Parents'
<1> DEFINE n == Len(viewers) + 1
<1>1. Len(viewers) \in Nat /\ DOMAIN viewers = 1..Len(viewers) /\ Range(outputs) \subseteq DOMAIN viewers
      /\ \A i \in DOMAIN outputs : outputs[i] \in DOMAIN viewers
  BY DEF IInv, Typed, Range
<1>2. /\ main' = [stop |-> n, then |-> "start"] /\ UNCHANGED <<view, outputs, generation, worker>>
      /\ viewers' = Append(viewers, Fresh(kind, t, p))
  BY DEF New
<1>3. /\ DOMAIN viewers' = 1..n /\ n \in DOMAIN viewers' /\ n \notin DOMAIN viewers
      /\ \A v \in DOMAIN viewers : v \in DOMAIN viewers' /\ viewers'[v] = viewers[v]
      /\ viewers'[n] = Fresh(kind, t, p)
  BY <1>1, <1>2 DEF IInv, Typed
<1>4. main' # Gone
  BY <1>2 DEF Gone
<1>5. Runs'
  <2>1. Fewer
    BY <1>2 DEF Fewer
  <2> QED
    BY <1>2, <1>3, <1>4, <2>1, RunsKept DEF IInv
<1>6. \A v \in DOMAIN viewers : Kind(v)' = Kind(v) /\ Kind(v)' = viewers'[v].kind
  BY <1>3 DEF Kind
<1>7. viewers'[n].kind = kind /\ viewers'[n].target = t /\ viewers'[n].parent = p
  BY <1>3 DEF Kind, Fresh
<1>8. Parents'
  <2>1. ASSUME NEW v \in DOMAIN viewers', viewers'[v].parent # Nil
        PROVE  viewers'[v].parent \in DOMAIN viewers' /\ Kind(viewers[v].parent)' = "archive"
    <3>1. CASE v = n
      BY <1>3, <1>6, <1>7, <2>1, <3>1
    <3>2. CASE v # n
      <4>1. v \in DOMAIN viewers
        BY <1>1, <1>3, <3>2
      <4> QED
        BY <1>3, <1>6, <2>1, <4>1 DEF IInv, Parents
    <3> QED
      BY <3>1, <3>2
  <2> QED
    BY <2>1 DEF Parents, Nil
<1>9. TabsDistinct'
  BY <1>1, <1>2, <1>3, <1>6 DEF IInv, Tabs, TabsDistinct
<1>10. view' \in Ids /\ Kind(view)' \in Workspace => view' \in Range(outputs)'
  <2>1. view \in Ids => Kind(view)' = Kind(view)
    BY <1>2, <1>6, ViewIsViewer DEF IInv, Kind
  <2> QED
    BY <1>2, <2>1 DEF IInv, Tabs, Range
<1>11. main'.stop = n
  BY <1>2
<1>12. Unopened(main.stop)'
  <2>1. ASSUME kind \in Workspace, NEW w \in Range(outputs)
        PROVE  ~(kind = Kind(w)' /\ t = viewers'[w].target)
    <3>1. w \in DOMAIN viewers /\ w \notin SameTab(kind, t)
      BY <1>1, <2>1
    <3> QED
      BY <1>3, <1>6, <3>1, <2>1 DEF SameTab
  <2>2. Range(outputs)' = Range(outputs)
    BY <1>2 DEF Range
  <2>3. kind \in Workspace => \A w \in Range(outputs)' : ~Alike(main.stop, w)'
    BY <1>7, <1>11, <2>1, <2>2 DEF Alike, Kind
  <2>4. Kind(main.stop)' = kind
    BY <1>7, <1>11 DEF Kind
  <2> QED
    BY <2>3, <2>4 DEF Unopened, Workspace
<1>13. Ids' = Ids /\ Workspace' = Workspace
  BY DEF Ids, Workspace
<1> QED
  BY <1>5, <1>8, <1>9, <1>10, <1>12, <1>13 DEF Tabs

LEMMA LeftCovers ==
    ASSUME IInv, NEW g \in Requests, Running(g), ~worker[g].timed, ~worker[g].cancelled
    PROVE  worker[g].owner \in Left
BY DEF IInv, Runs, Left

LEMMA KeysKeep ==
    ASSUME IInv, Keys
    PROVE  IInv'
<1>1. Typed'
  BY KeysTyped DEF IInv
<1> SUFFICES Runs' /\ Tabs' /\ Parents'
  BY <1>1 DEF IInv
<1>2. ASSUME NEW kind \in Kinds, NEW t \in Targets, Open(kind, t)
      PROVE  Runs' /\ Tabs' /\ Parents'
  <2>1. CASE /\ view' \in SameTab(kind, t)
             /\ UNCHANGED <<viewers, outputs, generation, worker, results, main>>
    <3>1. view' \in Range(outputs)
      BY <2>1 DEF SameTab
    <3>2. Fewer /\ Same
      BY <2>1 DEF Fewer, Same
    <3> QED
      BY <2>1, <3>1, <3>2, RunsKept, TabsKept DEF IInv
  <2>2. CASE New(kind, t, Nil) /\ (kind \in Workspace => SameTab(kind, t) = {})
    BY <2>2, NewKeeps
  <2> QED
    BY <1>2, <2>1, <2>2 DEF Open
<1>3. CASE OpenDetail
  <2>1. view \in DOMAIN viewers /\ Kind(view) = "archive" /\ New("archive-detail", viewers[view].target, view)
    BY <1>3, ViewIsViewer DEF OpenDetail, IInv
  <2>2. viewers[view].target \in Targets
    <3>1. viewers[view] \in Viewer
      BY <2>1 DEF IInv, Typed
    <3> QED
      BY <3>1 DEF Viewer
  <2>3. "archive-detail" \in Kinds /\ "archive-detail" \notin Workspace
    BY DEF Kinds, Workspace
  <2> QED
    BY <2>1, <2>2, <2>3, NewKeeps
<1>4. CASE Reload
  <2>1. view \in DOMAIN viewers /\ Stop(view, "start")
        /\ UNCHANGED <<viewers, view, outputs, generation, results>> /\ view \in Ids
    BY <1>4, ViewIsViewer DEF Reload, IInv
  <2>2. Unopened(view)
    BY <2>1 DEF Unopened, IInv, Tabs
  <2> QED
    BY <2>1, <2>2, StopKeeps
<1>5. ASSUME NEW v \in DOMAIN viewers, Close(v) PROVE Runs' /\ Tabs' /\ Parents'
  BY <1>5, StopKeeps DEF Close
<1>6. ASSUME NEW x \in DOMAIN viewers \cup {Nil, Help, Flow}, Select(x)
      PROVE  Runs' /\ Tabs' /\ Parents'
  <2>1. Fewer /\ Same /\ UNCHANGED <<viewers, outputs, generation, worker, main>>
    BY <1>6 DEF Select, Fewer, Same
  <2>2. view' \notin Ids \/ view' \in Range(outputs)
    BY <1>6, ViewersAssumption DEF Select, Ids, Nil, Help, Flow
  <2> QED
    BY <2>1, <2>2, RunsKept, TabsKept DEF IInv
<1>7. CASE Quit
  <2>1. CASE Left = {} /\ main' = Gone /\ UNCHANGED <<viewers, view, outputs, generation, results, worker>>
    <3>1. Same
      BY <2>1 DEF Same
    <3>2. \A g \in Requests : Running(g) => worker[g].timed \/ worker[g].cancelled
      BY <2>1, LeftCovers
    <3>3. Runs'
      BY <2>1, <3>2 DEF IInv, Runs, Running, Kind
    <3>4. main'.then # "start"
      BY <2>1 DEF Gone
    <3> QED
      BY <2>1, <3>1, <3>3, <3>4, TabsKept DEF IInv
  <2>2. ASSUME NEW v \in Left, Stop(v, "exit"),
               UNCHANGED <<viewers, view, outputs, generation, results>>
        PROVE  Runs' /\ Tabs' /\ Parents'
    BY <2>2, LeftAreViewers, StopKeeps DEF IInv
  <2> QED
    BY <1>7, <2>1, <2>2 DEF Quit
<1> QED
  BY <1>2, <1>3, <1>4, <1>5, <1>6, <1>7 DEF Keys
-----------------------------------------------------------------------------
(* After a join.                                                           *)

LEMMA JoinedIsIdle ==
    ASSUME IInv, NEW v \in DOMAIN viewers, Joined(v), NEW g \in Requests, Running(g)
    PROVE  worker[g].owner # v
BY DEF IInv, Runs, Joined, Owned, Running

LEMMA StartKeeps ==
    ASSUME IInv, NEW v \in DOMAIN viewers, Start(v)
    PROVE  Runs' /\ Tabs' /\ Parents'
<1> DEFINE g == generation + 1
<1>1. Joined(v) /\ main.then = "start" /\ main.stop = v /\ generation' = g /\ g \in Requests
      /\ view' = v /\ outputs' = AddTab(v) /\ main' = Loop /\ generation \in Nat
  <2>1. generation \in Nat /\ generation < MaxRequests /\ MaxRequests \in Nat
    BY ViewersAssumption DEF Start, IInv, Typed
  <2>2. g \in Requests
    BY <2>1 DEF Requests
  <2> QED
    BY <2>1, <2>2 DEF Start, Joined, NextGeneration
<1>2. PICK timed \in Deadlines(Kind(v)), built \in Built(Kind(v)) : Request(v, generation', timed, built)
  BY DEF Start
<1>3. timed \in BOOLEAN /\ (timed \/ Kind(v) = "logs")
  BY <1>2 DEF Deadlines
<1>4. /\ DOMAIN viewers' = DOMAIN viewers
      /\ \A w \in DOMAIN viewers : w # v => viewers'[w] = viewers[w]
      /\ viewers'[v] = [viewers[v] EXCEPT !.gen = g, !.live = TRUE, !.done = ~built,
                                          !.lines = <<>>]
  BY <1>1, <1>2 DEF Request, IInv, Typed
<1>5. viewers'[v].gen = g /\ viewers'[v].live /\ viewers'[v].kind = viewers[v].kind
      /\ viewers'[v].target = viewers[v].target /\ viewers'[v].parent = viewers[v].parent
  <2>1. viewers[v] \in Viewer
    BY DEF IInv, Typed
  <2> QED
    BY <1>4, <2>1 DEF Viewer
<1>6. Same
  BY <1>4, <1>5 DEF Same
<1>7. /\ \A h \in Requests : h # g => worker'[h] = worker[h]
      /\ worker'[g].owner = v /\ worker'[g].timed = timed
  BY <1>1, <1>2 DEF Request, IInv, Typed
<1>8. outputs \in Seq(DOMAIN viewers)
  BY DEF IInv, Typed
<1>9. /\ Range(outputs) \subseteq Range(outputs')
      /\ Kind(v) \in Workspace => v \in Range(outputs')
  <2>1. CASE outputs' = outputs /\ ~(Kind(v) \in Workspace /\ v \notin Range(outputs))
    BY <2>1
  <2>2. CASE outputs' = Append(outputs, v)
    <3>1. \A i \in 1..Len(outputs) : outputs'[i] = outputs[i] /\ i \in DOMAIN outputs'
      BY <1>8, <2>2
    <3>2. outputs'[Len(outputs) + 1] = v /\ Len(outputs) + 1 \in DOMAIN outputs'
      BY <1>8, <2>2
    <3>3. DOMAIN outputs = 1..Len(outputs)
      BY <1>8
    <3> QED
      BY <3>1, <3>2, <3>3 DEF Range
  <2> QED
    BY <1>1, <2>1, <2>2 DEF AddTab
<1>10. Range(outputs)' = Range(outputs')
  BY DEF Range
<1>11. \A w \in DOMAIN viewers : Kind(w)' = Kind(w)
  BY <1>6 DEF Same, Kind
<1>12. Runs'
  <2>1. ASSUME NEW h \in Requests, worker'[h].at = "run"
        PROVE  LET w == worker'[h].owner IN
               /\ h <= g
               /\ w \in DOMAIN viewers /\ viewers'[w].gen = h /\ viewers'[w].live
               /\ worker'[h].timed \/ viewers'[w].kind = "logs"
               /\ worker'[h].timed \/ worker'[h].cancelled \/ w \in Range(outputs')
    <3>1. CASE h = g
      <4>1. "logs" \in Workspace
        BY DEF Workspace
      <4> QED
        BY <1>1, <1>3, <1>5, <1>7, <1>9, <3>1, <4>1 DEF Kind, Requests
    <3>2. CASE h # g
      <4>1. Running(h) /\ worker'[h] = worker[h]
        BY <1>7, <2>1, <3>2 DEF Running
      <4>2. worker[h].owner # v
        BY <1>1, <4>1, JoinedIsIdle
      <4>3. h <= generation /\ h \in Nat /\ worker[h].owner \in DOMAIN viewers
        BY <4>1 DEF IInv, Runs, Requests
      <4> QED
        BY <1>1, <1>4, <1>9, <4>1, <4>2, <4>3 DEF IInv, Runs, Kind
    <3> QED
      BY <3>1, <3>2
  <2>2. main' # Gone /\ generation' = g
    BY <1>1 DEF Loop, Gone
  <2> QED
    BY <1>4, <1>10, <2>1, <2>2 DEF Runs, Running, Kind, Requests
<1>13. Parents'
  BY <1>6, <1>11 DEF IInv, Parents, Same
<1>14. TabsDistinct'
  <2>1. \A i \in DOMAIN outputs : outputs[i] \in DOMAIN viewers
    BY <1>8
  <2>2. CASE outputs' = outputs
    BY <1>6, <1>11, <2>1, <2>2 DEF IInv, Tabs, TabsDistinct, Same
  <2>3. CASE outputs' = Append(outputs, v) /\ Kind(v) \in Workspace /\ v \notin Range(outputs)
    <3>1. \A w \in Range(outputs) : ~Alike(v, w)
      BY <1>1, <2>3 DEF IInv, Tabs, Unopened
    <3>2. \A i \in DOMAIN outputs : ~Alike(v, outputs[i])
      BY <3>1 DEF Range
    <3> DEFINE n == Len(outputs) + 1
    <3>3. DOMAIN outputs = 1..Len(outputs) /\ Len(outputs) \in Nat
          /\ DOMAIN outputs' = 1..n /\ outputs'[n] = v
          /\ \A i \in 1..Len(outputs) : outputs'[i] = outputs[i]
      BY <1>8, <2>3
    <3>4. ASSUME NEW i \in 1..n, NEW j \in 1..n,
                 viewers'[outputs'[i]].kind = viewers'[outputs'[j]].kind,
                 viewers'[outputs'[i]].target = viewers'[outputs'[j]].target
          PROVE  i = j
      <4>1. CASE i \in DOMAIN outputs /\ j \in DOMAIN outputs
        <5>1. Kind(outputs[i]) = Kind(outputs[j])
              /\ viewers[outputs[i]].target = viewers[outputs[j]].target
          BY <1>6, <2>1, <3>3, <3>4, <4>1 DEF Same, Kind
        <5> QED
          BY <4>1, <5>1 DEF IInv, Tabs, TabsDistinct
      <4>2. CASE i = n /\ j \in DOMAIN outputs
        BY <1>6, <2>1, <3>2, <3>3, <3>4, <4>2 DEF Same, Alike, Kind
      <4>3. CASE j = n /\ i \in DOMAIN outputs
        BY <1>6, <2>1, <3>2, <3>3, <3>4, <4>3 DEF Same, Alike, Kind
      <4>4. (i \in DOMAIN outputs \/ i = n) /\ (j \in DOMAIN outputs \/ j = n)
        BY <3>3
      <4> QED
        BY <4>1, <4>2, <4>3, <4>4
    <3> QED
      BY <3>3, <3>4 DEF TabsDistinct, Kind
  <2> QED
    BY <1>1, <2>2, <2>3 DEF AddTab
<1>15. Kind(view)' \in Workspace => view' \in Range(outputs')
  BY <1>1, <1>5, <1>9 DEF Kind
<1>16. Workspace' = Workspace /\ main'.then # "start"
  BY <1>1 DEF Workspace, Loop
<1> QED
  BY <1>10, <1>12, <1>13, <1>14, <1>15, <1>16 DEF Tabs

LEMMA ClosedKeeps ==
    ASSUME IInv, NEW v \in DOMAIN viewers, Closed(v)
    PROVE  Runs' /\ Tabs' /\ Parents'
<1>1. /\ Joined(v) /\ viewers' = [viewers EXCEPT ![v].live = FALSE]
      /\ outputs' = RemoveFirst(outputs, v)
      /\ view' = (IF view = v THEN viewers[v].parent ELSE view)
      /\ main' = Loop /\ UNCHANGED <<generation, worker, results>>
  BY DEF Closed
<1>2. /\ DOMAIN viewers' = DOMAIN viewers
      /\ \A w \in DOMAIN viewers : w # v => viewers'[w] = viewers[w]
      /\ viewers'[v] = [viewers[v] EXCEPT !.live = FALSE]
  BY <1>1 DEF IInv, Typed
<1>3. viewers[v] \in Viewer
  BY DEF IInv, Typed
<1>4. Same
  BY <1>2, <1>3 DEF Same, Viewer
<1>5. \A w \in DOMAIN viewers : Kind(w)' = Kind(w) /\ viewers'[w].target = viewers[w].target
  BY <1>4 DEF Same, Kind
<1> DEFINE D == DOMAIN viewers
<1>6. outputs \in Seq(D) /\ DOMAIN outputs = 1..Len(outputs) /\ Len(outputs) \in Nat
  BY DEF IInv, Typed
<1> DEFINE Shift(k) ==
              /\ outputs[k] = v
              /\ outputs' \in Seq(D) /\ Len(outputs') = Len(outputs) - 1
              /\ \A i \in 1..Len(outputs') :
                    outputs'[i] = IF i < k THEN outputs[i] ELSE outputs[i + 1]
<1>6a. outputs' = outputs \/ \E k \in 1..Len(outputs) : Shift(k)
  <2> HIDE DEF D
  <2> DEFINE r == RemoveFirst(outputs, v)
  <2>1. \/ r = outputs
        \/ \E k \in 1..Len(outputs) :
              /\ outputs[k] = v
              /\ r \in Seq(D) /\ Len(r) = Len(outputs) - 1
              /\ \A i \in 1..Len(r) : r[i] = IF i < k THEN outputs[i] ELSE outputs[i + 1]
    <3> DEFINE s == outputs
    <3>1. s \in Seq(D)
      BY <1>6
    <3> HIDE DEF s
    <3>2. \/ (\A i \in 1..Len(s) : s[i] # v) /\ RemoveFirst(s, v) = s
          \/ \E k \in 1..Len(s) :
                /\ s[k] = v
                /\ RemoveFirst(s, v) \in Seq(D) /\ Len(RemoveFirst(s, v)) = Len(s) - 1
                /\ \A i \in 1..Len(RemoveFirst(s, v)) :
                      RemoveFirst(s, v)[i] = IF i < k THEN s[i] ELSE s[i + 1]
      BY <3>1, Removed
    <3> QED
      BY <3>2 DEF s
  <2>2. outputs' = r
    BY <1>1
  <2> HIDE DEF r
  <2> QED
    BY <2>1, <2>2
<1>7. \A w \in Range(outputs) : w # v => w \in Range(outputs')
  <2> HIDE DEF D
  <2>1. CASE outputs' = outputs
    BY <2>1
  <2>2. ASSUME NEW k \in 1..Len(outputs), outputs[k] = v,
               outputs' \in Seq(D), Len(outputs') = Len(outputs) - 1,
               \A i \in 1..Len(outputs') : outputs'[i] = IF i < k THEN outputs[i] ELSE outputs[i + 1]
        PROVE  \A i \in 1..Len(outputs) : outputs[i] # v => outputs[i] \in Range(outputs')
    <3> TAKE i \in 1..Len(outputs)
    <3>1. DOMAIN outputs' = 1..Len(outputs')
      BY <2>2
    <3>2. CASE i < k
      <4>1. i \in 1..Len(outputs') /\ outputs'[i] = outputs[i]
        BY <1>6, <2>2, <3>2
      <4> QED
        BY <3>1, <4>1 DEF Range
    <3>3. CASE i > k
      <4>1. i - 1 \in 1..Len(outputs') /\ ~(i - 1 < k) /\ (i - 1) + 1 = i
        BY <1>6, <2>2, <3>3
      <4>2. outputs'[i - 1] = outputs[i]
        BY <2>2, <4>1
      <4> QED
        BY <3>1, <4>1, <4>2 DEF Range
    <3> QED
      BY <2>2, <3>2, <3>3
  <2>3. CASE \E k \in 1..Len(outputs) : Shift(k)
    <3>1. \A i \in 1..Len(outputs) : outputs[i] # v => outputs[i] \in Range(outputs')
      BY <2>2, <2>3
    <3>2. \A w \in Range(outputs) : \E i \in 1..Len(outputs) : w = outputs[i]
      BY <1>6 DEF Range
    <3> QED
      BY <3>1, <3>2
  <2> QED
    BY <1>6a, <2>1, <2>3
<1>8. Range(outputs)' = Range(outputs')
  BY DEF Range
<1>9. Runs'
  <2>1. main' # Gone
    BY <1>1 DEF Loop, Gone
  <2>2. \A g \in Requests : Running(g) => worker[g].owner # v
    BY <1>1, JoinedIsIdle
  <2> QED
    BY <1>1, <1>2, <1>7, <1>8, <2>1, <2>2 DEF IInv, Runs, Running, Kind
<1>10. Parents'
  BY <1>4, <1>5 DEF IInv, Parents, Same
<1>11. TabsDistinct'
  <2>1. \A i \in DOMAIN outputs : outputs[i] \in DOMAIN viewers
    BY <1>6
  <2>2. CASE outputs' = outputs
    BY <1>5, <2>1, <2>2 DEF IInv, Tabs, TabsDistinct
  <2>3. ASSUME NEW k \in 1..Len(outputs),
               outputs' \in Seq(D), Len(outputs') = Len(outputs) - 1,
               \A i \in 1..Len(outputs') : outputs'[i] = IF i < k THEN outputs[i] ELSE outputs[i + 1]
        PROVE  TabsDistinct'
    <3> DEFINE at(i) == IF i < k THEN i ELSE i + 1
    <3>1. DOMAIN outputs' = 1..Len(outputs')
      BY <2>3
    <3>2. \A i \in 1..Len(outputs') : at(i) \in DOMAIN outputs /\ outputs'[i] = outputs[at(i)]
      BY <1>6, <2>3
    <3>3. \A i, j \in 1..Len(outputs') : at(i) = at(j) => i = j
      BY <1>6, <2>3
    <3> HIDE DEF at
    <3>4. ASSUME NEW i \in 1..Len(outputs'), NEW j \in 1..Len(outputs'),
                 viewers'[outputs'[i]].kind = viewers'[outputs'[j]].kind,
                 viewers'[outputs'[i]].target = viewers'[outputs'[j]].target
          PROVE  i = j
      <4>1. /\ Kind(outputs[at(i)]) = Kind(outputs[at(j)])
            /\ viewers[outputs[at(i)]].target = viewers[outputs[at(j)]].target
        BY <1>5, <2>1, <3>2, <3>4 DEF Kind
      <4>2. at(i) = at(j)
        BY <3>2, <4>1 DEF IInv, Tabs, TabsDistinct
      <4> QED
        BY <3>3, <4>2
    <3> QED
      BY <3>1, <3>4 DEF TabsDistinct, Kind
  <2>4. CASE \E k \in 1..Len(outputs) : Shift(k)
    <3> HIDE DEF D, TabsDistinct
    <3> QED
      BY <2>3, <2>4
  <2> QED
    BY <1>6a, <2>2, <2>4
<1>12. view' \in Ids /\ Kind(view)' \in Workspace => view' \in Range(outputs')
  <2>1. CASE view = v
    <3>1. view' = viewers[v].parent
      BY <1>1, <2>1
    <3>2. view' # Nil => view' \in DOMAIN viewers /\ Kind(view)' = "archive"
      BY <1>5, <3>1 DEF IInv, Parents, Kind
    <3> QED
      BY <3>2, ViewersAssumption DEF Ids, Nil, Workspace
  <2>2. CASE view # v
    <3>1. view' = view
      BY <1>1, <2>2
    <3>2. view \in Ids => view \in DOMAIN viewers /\ Kind(view)' = Kind(view)
      BY <1>5, <3>1, ViewIsViewer DEF IInv, Kind
    <3> QED
      BY <1>7, <2>2, <3>1, <3>2 DEF IInv, Tabs
  <2> QED
    BY <2>1, <2>2
<1>13. Workspace' = Workspace /\ Ids' = Ids /\ main'.then # "start"
  BY <1>1 DEF Workspace, Loop, Ids
<1> QED
  BY <1>8, <1>9, <1>10, <1>11, <1>12, <1>13 DEF Tabs

LEMMA StoppedKeeps ==
    ASSUME IInv, NEW v \in DOMAIN viewers, Stopped(v)
    PROVE  Runs' /\ Tabs' /\ Parents'
<1>1. /\ Joined(v) /\ viewers' = [viewers EXCEPT ![v].live = FALSE]
      /\ UNCHANGED <<view, outputs, generation, results>>
  BY DEF Stopped
<1>2. /\ DOMAIN viewers' = DOMAIN viewers
      /\ \A w \in DOMAIN viewers : w # v => viewers'[w] = viewers[w]
      /\ viewers'[v] = [viewers[v] EXCEPT !.live = FALSE]
  BY <1>1 DEF IInv, Typed
<1>3. viewers[v] \in Viewer
  BY DEF IInv, Typed
<1>4. Same
  BY <1>2, <1>3 DEF Same, Viewer
<1>5. \A g \in Requests : Running(g) => worker[g].owner # v
  BY <1>1, JoinedIsIdle
<1>6. Range(outputs)' = Range(outputs)
  BY <1>1 DEF Range
<1>7. CASE Left = {v} /\ main' = Gone /\ UNCHANGED worker
  <2>1. \A g \in Requests : Running(g) => worker[g].timed \/ worker[g].cancelled
    BY <1>5, <1>7, LeftCovers
  <2>2. Runs'
    BY <1>1, <1>2, <1>5, <1>7, <2>1 DEF IInv, Runs, Running, Kind
  <2>3. main'.then # "start"
    BY <1>7 DEF Gone
  <2> QED
    BY <1>1, <1>4, <2>2, <2>3, TabsKept DEF IInv
<1>8. ASSUME NEW w \in Left, Stop(w, "exit") PROVE Runs' /\ Tabs' /\ Parents'
  <2>1. w \in DOMAIN viewers
    BY LeftAreViewers DEF IInv
  <2>2. Fewer /\ main' # Gone /\ main'.then = "exit"
    BY <1>8, <2>1, StopEndsRequests DEF IInv
  <2>3. Runs'
    BY <1>1, <1>2, <1>5, <1>6, <2>2 DEF IInv, Runs, Running, Kind, Fewer
  <2> QED
    BY <1>1, <1>4, <2>2, <2>3, TabsKept DEF IInv
<1> QED
  BY <1>7, <1>8 DEF Stopped

-----------------------------------------------------------------------------
(* Results and workers.                                                    *)

LEMMA ReceiveLeaves ==
    ASSUME IInv, Receive
    PROVE  Same /\ SameRequests /\ Fewer /\ main' # Gone
           /\ UNCHANGED <<view, outputs, generation, worker, main>>
<1> DEFINE r == Head(results)
<1>1. main = Loop /\ UNCHANGED <<view, outputs, generation, worker, main>>
  BY DEF Receive
<1>2. DOMAIN viewers' = DOMAIN viewers
  BY DEF Receive
<1>3. ASSUME NEW v \in DOMAIN viewers
      PROVE  \/ viewers'[v] = viewers[v]
             \/ \E ls : viewers'[v] = [viewers[v] EXCEPT !.lines = ls]
             \/ \E ls : viewers'[v] = [viewers[v] EXCEPT !.done = TRUE, !.lines = ls]
             \/ viewers'[v] = [viewers[v] EXCEPT !.done = TRUE]
  BY DEF Receive
<1>4. ASSUME NEW v \in DOMAIN viewers
      PROVE  /\ viewers'[v].kind = viewers[v].kind /\ viewers'[v].target = viewers[v].target
             /\ viewers'[v].parent = viewers[v].parent /\ viewers'[v].gen = viewers[v].gen
             /\ viewers'[v].live = viewers[v].live
  <2>1. viewers[v] \in Viewer
    BY DEF IInv, Typed
  <2> QED
    BY <1>3, <2>1 DEF Viewer
<1>5. Same /\ SameRequests /\ Fewer
  BY <1>1, <1>2, <1>4 DEF Same, SameRequests, Fewer
<1>6. main' # Gone
  BY <1>1 DEF Loop, Gone
<1> QED
  BY <1>1, <1>5, <1>6

LEMMA ReceiveKeeps ==
    ASSUME IInv, Receive
    PROVE  Runs' /\ Tabs' /\ Parents'
<1>1. Same /\ SameRequests /\ Fewer /\ main' # Gone
      /\ UNCHANGED <<view, outputs, generation, worker, main>>
  BY ReceiveLeaves
<1>2. Runs'
  BY <1>1, RunsKept DEF IInv, Same, SameRequests
<1> QED
  BY <1>1, <1>2, TabsKept DEF IInv

LEMMA WorkLeaves ==
    ASSUME IInv, NEW g \in Requests, Work(g)
    PROVE  Fewer /\ main # Gone /\ UNCHANGED <<viewers, view, outputs, generation, main>>
<1>1. UNCHANGED <<viewers, view, outputs, generation, main>> /\ main # Gone
  BY DEF Work, SendLine, SendDone, Abandon, Deadline, Stays, Alive
<1>2. worker[g] \in Worker /\ worker \in [Requests -> Worker] /\ worker[g].at = "run"
  BY DEF IInv, Typed, Work, SendLine, SendDone, Abandon, Deadline, Alive, Running
<1>3. /\ \A h \in Requests : h # g => worker'[h] = worker[h]
      /\ worker'[g].owner = worker[g].owner /\ worker'[g].timed = worker[g].timed
      /\ worker[g].cancelled => worker'[g].cancelled
  <2> DEFINE Step(x) == worker' = [worker EXCEPT ![g] = x]
  <2>1. CASE SendLine(g)
    <3> DEFINE x == [worker[g] EXCEPT !.sent = worker[g].sent + 1]
    <3>1. Step(x)
      BY <2>1 DEF SendLine
    <3>2. /\ x.owner = worker[g].owner /\ x.timed = worker[g].timed
          /\ x.cancelled = worker[g].cancelled
      BY <1>2 DEF Worker
    <3> HIDE DEF x
    <3> QED
      BY <1>2, <3>1, <3>2
  <2>2. CASE SendDone(g)
    <3> DEFINE x == [worker[g] EXCEPT !.at = "gone"]
               y == [worker[g] EXCEPT !.at = "gone", !.sent = 1]
    <3>1. Step(x) \/ Step(y)
      BY <2>2 DEF SendDone
    <3>2. /\ x.owner = worker[g].owner /\ x.timed = worker[g].timed
          /\ x.cancelled = worker[g].cancelled
      BY <1>2 DEF Worker
    <3>3. /\ y.owner = worker[g].owner /\ y.timed = worker[g].timed
          /\ y.cancelled = worker[g].cancelled
      BY <1>2 DEF Worker
    <3> HIDE DEF x, y
    <3> QED
      BY <1>2, <3>1, <3>2, <3>3
  <2>3. CASE Abandon(g)
    <3> DEFINE x == [worker[g] EXCEPT !.at = "gone"]
    <3>1. Step(x)
      BY <2>3 DEF Abandon
    <3>2. /\ x.owner = worker[g].owner /\ x.timed = worker[g].timed
          /\ x.cancelled = worker[g].cancelled
      BY <1>2 DEF Worker
    <3> HIDE DEF x
    <3> QED
      BY <1>2, <3>1, <3>2
  <2>4. CASE Deadline(g)
    <3> DEFINE x == [worker[g] EXCEPT !.cancelled = TRUE, !.late = TRUE]
    <3>1. Step(x)
      BY <2>4 DEF Deadline
    <3>2. x.owner = worker[g].owner /\ x.timed = worker[g].timed /\ x.cancelled
      BY <1>2 DEF Worker
    <3> HIDE DEF x
    <3> QED
      BY <1>2, <3>1, <3>2
  <2> QED
    BY <2>1, <2>2, <2>3, <2>4 DEF Work
<1>4. Fewer
  BY <1>2, <1>3 DEF Fewer
<1> QED
  BY <1>1, <1>4

LEMMA WorkKeeps ==
    ASSUME IInv, NEW g \in Requests, Work(g)
    PROVE  Runs' /\ Tabs' /\ Parents'
<1>1. Fewer /\ main # Gone /\ UNCHANGED <<viewers, view, outputs, generation, main>>
  BY WorkLeaves
<1>2. Same
  BY <1>1 DEF Same
<1> QED
  BY <1>1, <1>2, RunsKept, TabsKept DEF IInv

LEMMA InitHolds == Init => IInv
<1> SUFFICES ASSUME Init PROVE IInv
  OBVIOUS
<1>1. Typed
  BY InitTyped
<1>2. viewers = <<>> /\ outputs = <<>> /\ view = Nil /\ main = Loop
      /\ \A g \in Requests : worker[g].at = "off"
  BY DEF Init
<1> QED
  BY <1>1, <1>2, ViewersAssumption
  DEF IInv, Parents, Runs, Running, Tabs, TabsDistinct, Nil, Ids, Loop

LEMMA NextKeeps == IInv /\ [Next]_vars => IInv'
<1> SUFFICES ASSUME IInv, [Next]_vars PROVE IInv'
  OBVIOUS
<1>1. CASE Keys
  BY <1>1, KeysKeep
<1>2. CASE Continue \/ Receive \/ \E g \in Requests : Work(g)
  <2>1. Typed'
    BY <1>2, RestTyped DEF IInv
  <2>2. Runs' /\ Tabs' /\ Parents'
    BY <1>2, StartKeeps, ClosedKeeps, StoppedKeeps, ReceiveKeeps, WorkKeeps DEF Continue
  <2> QED
    BY <2>1, <2>2 DEF IInv
<1>3. CASE UNCHANGED vars
  BY <1>3 DEF vars, IInv, Typed, Parents, Runs, Tabs, Running, TabsDistinct, Kind, Unopened,
              Alike, Range
<1> QED
  BY <1>1, <1>2, <1>3 DEF Next

-----------------------------------------------------------------------------
(* What a viewer shows.  The channel holds, in order, what the worker has  *)
(* sent and the viewer has not seen; a tab misses none of it.              *)

\* A request that was made has an owner, whose latest it may be.
Owners ==
    /\ \A g \in Requests : /\ generation < g => worker[g].at = "off"
                           /\ worker[g].at # "off" => worker[g].owner \in DOMAIN viewers
    /\ \A v \in DOMAIN viewers : LET g == viewers[v].gen IN
          g # Nil => worker[g].owner = v /\ worker[g].at # "off"

\* Results come from requests that were made, the last one at their end.
Channel ==
    \A a \in DOMAIN results :
        LET r == results[a]
            w == worker[r.gen]
        IN  /\ w.at # "off"
            /\ r.done => w.at = "gone"
            /\ Kind(w.owner) \in Workspace => IF r.done THEN r.n = 0 ELSE r.n <= w.sent
            /\ Kind(w.owner) \notin Workspace => r.done /\ r.n = 1 /\ w.sent = 1

Order ==
    \A a, b \in DOMAIN results :
        a < b /\ results[a].gen = results[b].gen =>
            /\ ~results[a].done
            /\ results[b].done \/ results[a].n < results[b].n

Got(ls) == IF ls = <<>> THEN 0 ELSE ls[Len(ls)].n

\* Consecutive lines of one request, from the first unless some were dropped.
Sequel(ls, g) ==
    /\ Len(ls) <= LogLines
    /\ \A i \in DOMAIN ls : /\ ls[i].gen = g
                            /\ i > 1 => ls[i].n = ls[i - 1].n + 1
    /\ ls # <<>> /\ Len(ls) < LogLines => ls[1].n = 1

\* A viewer that says Complete has everything.
Complete(v) ==
    LET x == viewers[v]
    IN  x.done => /\ Got(x.lines) = worker[x.gen].sent
                  /\ worker[x.gen].at = "gone"
                  /\ \A a \in DOMAIN results : results[a].gen # x.gen

\* What a tab has not received is on the channel.
Missing(v) ==
    LET x == viewers[v]
    IN  Kind(v) \in Workspace /\ v \in Range(outputs) =>
            /\ \A a \in DOMAIN results :
                  results[a].gen = x.gen /\ ~results[a].done => Got(x.lines) < results[a].n
            /\ \A n \in (Got(x.lines) + 1)..worker[x.gen].sent :
                  \E a \in DOMAIN results :
                      results[a].gen = x.gen /\ ~results[a].done /\ results[a].n = n

Shown(v) ==
    LET x == viewers[v]
    IN  /\ Sequel(x.lines, x.gen)
        /\ x.gen = Nil => x.lines = <<>> /\ ~x.done
        /\ x.gen # Nil =>
              /\ Got(x.lines) <= worker[x.gen].sent
              /\ Kind(v) \notin Workspace /\ x.lines # <<>> => x.done
              /\ Complete(v)
              /\ Missing(v)

Show == Owners /\ Channel /\ Order /\ \A v \in DOMAIN viewers : Shown(v)

\* Steps that send and deliver nothing.
Quiet ==
    /\ UNCHANGED <<results, generation>>
    /\ DOMAIN viewers \subseteq DOMAIN viewers' /\ Range(outputs') \subseteq Range(outputs)
    /\ \A g \in Requests :
          /\ worker'[g].owner = worker[g].owner /\ worker'[g].sent = worker[g].sent
          /\ worker'[g].at = worker[g].at \/ (Running(g) /\ worker'[g].at = "gone")
    /\ \A v \in DOMAIN viewers :
          /\ viewers'[v].kind = viewers[v].kind /\ viewers'[v].gen = viewers[v].gen
          /\ viewers'[v].lines = viewers[v].lines /\ viewers'[v].done = viewers[v].done
    /\ \A v \in DOMAIN viewers' \ DOMAIN viewers :
          viewers'[v].gen = Nil /\ viewers'[v].lines = <<>> /\ ~viewers'[v].done

LEMMA ShowTypes ==
    ASSUME Typed
    PROVE  /\ Nil \notin Requests
           /\ DOMAIN results = 1..Len(results) /\ Len(results) \in Nat
           /\ \A a \in DOMAIN results : /\ results[a].gen \in Requests /\ results[a].n \in Nat
                                        /\ results[a].done \in BOOLEAN
           /\ \A g \in Requests : worker[g] \in Worker /\ worker[g].sent \in Nat
           /\ \A v \in DOMAIN viewers :
                 /\ viewers[v] \in Viewer /\ viewers[v].gen \in Requests \cup {Nil}
                 /\ viewers[v].lines \in Lines /\ viewers[v].done \in BOOLEAN
                 /\ Kind(v) \in Kinds
<1>1. \A a \in DOMAIN results : results[a] \in Result
  BY DEF Typed
<1>2. \A a \in DOMAIN results : /\ results[a].gen \in Requests /\ results[a].n \in Nat
                                /\ results[a].done \in BOOLEAN
  BY <1>1, ViewersAssumption DEF Result
<1>3. \A g \in Requests : worker[g] \in Worker /\ worker[g].sent \in Nat
  BY ViewersAssumption DEF Typed, Worker
<1>4. \A v \in DOMAIN viewers : viewers[v] \in Viewer
  BY DEF Typed
<1>5. \A v \in DOMAIN viewers :
         /\ viewers[v].gen \in Requests \cup {Nil} /\ viewers[v].done \in BOOLEAN
         /\ Kind(v) \in Kinds
  BY <1>4 DEF Viewer, Kind
<1>6. Nil \notin Requests
  BY DEF Nil, Requests
<1>7. DOMAIN results = 1..Len(results) /\ Len(results) \in Nat
  BY DEF Typed
<1> QED
  BY <1>2, <1>3, <1>4, <1>5, <1>6, <1>7, ViewerFlags

LEMMA QuietShows ==
    ASSUME Typed, Show, Quiet
    PROVE  Show'
<1>1. \A v \in DOMAIN viewers : Kind(v)' = Kind(v)
  BY DEF Quiet, Kind
<1>2. \A g \in Requests : worker[g].at # "off" =>
         viewers'[worker[g].owner].kind = Kind(worker[g].owner)
  BY <1>1 DEF Show, Owners, Quiet, Kind
<1>3. Owners'
  BY ShowTypes DEF Show, Owners, Quiet, Running
<1>4. Channel'
  <2> SUFFICES ASSUME NEW a \in DOMAIN results
               PROVE  LET r == results[a]
                          w == worker'[r.gen]
                      IN  /\ w.at # "off"
                          /\ r.done => w.at = "gone"
                          /\ viewers'[w.owner].kind \in Workspace =>
                                IF r.done THEN r.n = 0 ELSE r.n <= w.sent
                          /\ viewers'[w.owner].kind \notin Workspace =>
                                r.done /\ r.n = 1 /\ w.sent = 1
    BY DEF Channel, Quiet, Kind, Workspace
  <2> DEFINE r == results[a]
             w == worker[r.gen]
  <2>1. r.gen \in Requests
    BY ShowTypes
  <2>2. /\ w.at # "off"
        /\ r.done => w.at = "gone"
        /\ Kind(w.owner) \in Workspace => IF r.done THEN r.n = 0 ELSE r.n <= w.sent
        /\ Kind(w.owner) \notin Workspace => r.done /\ r.n = 1 /\ w.sent = 1
    <3>1. Channel
      BY DEF Show
    <3> QED
      BY <3>1, Zenon DEF Channel
  <2>3. viewers'[w.owner].kind = Kind(w.owner)
    BY <1>2, <2>1, <2>2 DEF Kind
  <2>4. /\ worker'[r.gen].owner = w.owner /\ worker'[r.gen].sent = w.sent
        /\ worker'[r.gen].at = w.at \/ worker'[r.gen].at = "gone"
    BY <2>1 DEF Quiet
  <2> QED
    BY <2>2, <2>3, <2>4
<1>5. Order'
  BY DEF Show, Order, Quiet
<1>6. ASSUME NEW v \in DOMAIN viewers' PROVE Shown(v)'
  <2>1. CASE v \in DOMAIN viewers
    <3> DEFINE x == viewers[v]
               g == x.gen
    <3>1. viewers'[v].gen = g /\ viewers'[v].lines = x.lines /\ viewers'[v].done = x.done
      BY <2>1 DEF Quiet
    <3>2. Shown(v) /\ Kind(v)' = Kind(v) /\ g \in Requests \cup {Nil}
      BY <1>1, <2>1, ShowTypes DEF Show
    <3>3. Sequel(viewers'[v].lines, viewers'[v].gen)
      BY <3>1, <3>2 DEF Shown
    <3>4. CASE g = Nil
      BY <3>1, <3>2, <3>3, <3>4 DEF Shown, Sequel, Nil
    <3>5. CASE g \in Requests
      <4>1. g # Nil /\ worker'[g].sent = worker[g].sent
            /\ (worker[g].at = "gone" => worker'[g].at = "gone")
        BY <3>5, ShowTypes DEF Quiet, Running
      <4>2. Complete(v)'
        BY <3>1, <3>2, <4>1 DEF Shown, Complete, Quiet, Got
      <4>3. Missing(v)'
        BY <3>1, <3>2, <4>1 DEF Shown, Missing, Quiet, Got, Workspace
      <4> QED
        BY <3>1, <3>2, <3>3, <4>1, <4>2, <4>3 DEF Shown, Sequel, Got, Workspace
    <3> QED
      BY <3>2, <3>4, <3>5
  <2>2. CASE v \notin DOMAIN viewers
    <3>1. viewers'[v].gen = Nil /\ viewers'[v].lines = <<>> /\ ~viewers'[v].done
      BY <2>2 DEF Quiet
    <3> QED
      BY <3>1, ViewersAssumption DEF Shown, Sequel, Nil
  <2> QED
    BY <2>1, <2>2
<1> QED
  BY <1>3, <1>4, <1>5, <1>6 DEF Show

LEMMA StopIsQuiet ==
    ASSUME Typed, NEW v \in DOMAIN viewers, NEW then \in {"start", "close", "exit"},
           Stop(v, then), NEW g \in Requests
    PROVE  /\ worker'[g].owner = worker[g].owner /\ worker'[g].sent = worker[g].sent
           /\ worker'[g].at = worker[g].at
<1> DEFINE o == Owned(v)
<1>1. worker[g] \in Worker /\ worker \in [Requests -> Worker]
  BY DEF Typed
<1>2. UNCHANGED worker \/ worker' = [worker EXCEPT ![o].cancelled = TRUE]
  BY DEF Stop
<1> HIDE DEF o
<1>3. worker'[g] = worker[g] \/ worker'[g] = [worker[g] EXCEPT !.cancelled = TRUE]
  BY <1>1, <1>2
<1> QED
  BY <1>1, <1>3 DEF Worker

LEMMA KeysShow ==
    ASSUME IInv, Show, Keys
    PROVE  Show'
<1>0. Typed /\ Parents /\ DOMAIN viewers = 1..Len(viewers) /\ Len(viewers) \in Nat
  BY DEF IInv, Typed
<1> SUFFICES Quiet
  BY <1>0, QuietShows
<1>1. ASSUME NEW v \in DOMAIN viewers, NEW then \in {"start", "close", "exit"}, Stop(v, then),
             UNCHANGED <<viewers, view, outputs, generation, results>>
      PROVE  Quiet
  BY <1>0, <1>1, StopIsQuiet DEF Quiet, Range
<1>2. ASSUME NEW kind \in Kinds, NEW t, NEW p, New(kind, t, p)
      PROVE  Quiet
  <2>1. /\ viewers' = Append(viewers, Fresh(kind, t, p))
        /\ UNCHANGED <<outputs, generation, worker, results>>
    BY <1>2 DEF New
  <2>2. /\ DOMAIN viewers' = 1..(Len(viewers) + 1)
        /\ \A v \in DOMAIN viewers : viewers'[v] = viewers[v]
        /\ viewers'[Len(viewers) + 1] = Fresh(kind, t, p)
    BY <1>0, <2>1 DEF Typed
  <2>3. \A v \in DOMAIN viewers' \ DOMAIN viewers : v = Len(viewers) + 1
    BY <1>0, <2>2
  <2> QED
    BY <1>0, <2>1, <2>2, <2>3 DEF Quiet, Fresh, Range
<1>3. ASSUME UNCHANGED <<viewers, outputs, generation, worker, results>> PROVE Quiet
  BY <1>3 DEF Quiet, Range
<1>4. ASSUME NEW kind \in Kinds, NEW t \in Targets, Open(kind, t) PROVE Quiet
  BY <1>2, <1>3, <1>4 DEF Open
<1>5. CASE OpenDetail
  BY <1>2, <1>5 DEF OpenDetail, Kinds
<1>6. CASE Reload
  BY <1>0, <1>1, <1>6, ViewIsViewer DEF Reload
<1>7. CASE Quit
  BY <1>0, <1>1, <1>3, <1>7, LeftAreViewers DEF Quit
<1>8. ASSUME NEW v \in DOMAIN viewers, Close(v) PROVE Quiet
  BY <1>1, <1>8 DEF Close
<1>9. ASSUME NEW x, Select(x) PROVE Quiet
  BY <1>3, <1>9 DEF Select
<1> QED
  BY <1>4, <1>5, <1>6, <1>7, <1>8, <1>9 DEF Keys

LEMMA EndsShow ==
    ASSUME IInv, Show, NEW v \in DOMAIN viewers, Closed(v) \/ Stopped(v)
    PROVE  Show'
<1>0. Typed /\ Parents
  BY DEF IInv
<1>1. viewers' = [viewers EXCEPT ![v].live = FALSE] /\ UNCHANGED <<generation, results>>
  BY DEF Closed, Stopped
<1>2. /\ DOMAIN viewers' = DOMAIN viewers
      /\ \A w \in DOMAIN viewers :
            /\ viewers'[w].kind = viewers[w].kind /\ viewers'[w].gen = viewers[w].gen
            /\ viewers'[w].lines = viewers[w].lines /\ viewers'[w].done = viewers[w].done
  <2>1. \A w \in DOMAIN viewers : viewers[w] \in Viewer
    BY <1>0 DEF Typed
  <2>2. DOMAIN viewers' = DOMAIN viewers
    BY <1>1
  <2>3. \A w \in DOMAIN viewers : viewers'[w] \in {viewers[w], [viewers[w] EXCEPT !.live = FALSE]}
    BY <1>1, <2>2
  <2> QED
    BY <2>1, <2>2, <2>3 DEF Viewer
<1>3. Range(outputs') \subseteq Range(outputs)
  <2>1. CASE Stopped(v)
    BY <2>1 DEF Stopped
  <2>2. CASE Closed(v)
    <3> DEFINE D == DOMAIN viewers
               s == outputs
               q == RemoveFirst(s, v)
    <3>1. s \in Seq(D)
      BY <1>0 DEF Typed
    <3> HIDE DEF D, s
    <3>2. \/ q = s
          \/ \E k \in 1..Len(s) :
                /\ q \in Seq(D) /\ Len(q) = Len(s) - 1
                /\ \A i \in 1..Len(q) : q[i] = IF i < k THEN s[i] ELSE s[i + 1]
      BY <3>1, Removed
    <3> HIDE DEF q
    <3>3. \A i \in DOMAIN q : \E j \in DOMAIN s : q[i] = s[j]
      <4>1. CASE q = s
        BY <4>1
      <4>2. ASSUME NEW k \in 1..Len(s), q \in Seq(D), Len(q) = Len(s) - 1,
                   \A i \in 1..Len(q) : q[i] = IF i < k THEN s[i] ELSE s[i + 1],
                   NEW i \in DOMAIN q
            PROVE  \E j \in DOMAIN s : q[i] = s[j]
        <5>1. i \in 1..Len(q) /\ Len(s) \in Nat /\ DOMAIN s = 1..Len(s)
          BY <3>1, <4>2
        <5>2. i \in 1..Len(s) /\ i + 1 \in 1..Len(s)
          BY <4>2, <5>1
        <5> QED
          BY <4>2, <5>1, <5>2
      <4> QED
        BY <3>2, <4>1, <4>2
    <3>4. outputs' = q
      BY <2>2 DEF Closed, q, s
    <3> QED
      BY <3>3, <3>4 DEF Range, s
  <2> QED
    BY <2>1, <2>2
<1>4. \A g \in Requests : /\ worker'[g].owner = worker[g].owner /\ worker'[g].sent = worker[g].sent
                          /\ worker'[g].at = worker[g].at
  <2>1. CASE UNCHANGED worker
    BY <2>1
  <2>2. ASSUME NEW w \in Left, Stop(w, "exit"), NEW g \in Requests
        PROVE  /\ worker'[g].owner = worker[g].owner /\ worker'[g].sent = worker[g].sent
               /\ worker'[g].at = worker[g].at
    BY <1>0, <2>2, LeftAreViewers, StopIsQuiet
  <2> QED
    BY <2>1, <2>2 DEF Closed, Stopped
<1>5. Quiet
  BY <1>1, <1>2, <1>3, <1>4 DEF Quiet
<1> QED
  BY <1>0, <1>5, QuietShows

\* A new request: nothing of it is on the channel.
LEMMA StartShows ==
    ASSUME IInv, Show, NEW v \in DOMAIN viewers, Start(v)
    PROVE  Show'
<1> DEFINE g == generation'
<1>0. Typed /\ v \in Ids
  BY ViewersAssumption DEF IInv, Typed, Ids
<1>1. /\ g = generation + 1 /\ g \in Requests /\ generation < g
      /\ \A h \in Requests : g < h => generation < h
  <2>1. generation \in Nat /\ generation < MaxRequests /\ MaxRequests \in Nat
    BY <1>0, ViewersAssumption DEF Start, Typed
  <2>2. g = generation + 1
    BY DEF Start, NextGeneration
  <2> HIDE DEF g
  <2> QED
    BY <2>1, <2>2 DEF Requests
<1>2. PICK timed \in BOOLEAN, built \in BOOLEAN : Request(v, g, timed, built)
  BY DEF Start, Deadlines, Built
<1>3. UNCHANGED results /\ outputs' = AddTab(v)
  BY DEF Start
<1> HIDE DEF g
<1>4. /\ DOMAIN viewers' = DOMAIN viewers
      /\ \A w \in DOMAIN viewers : w # v => viewers'[w] = viewers[w]
      /\ viewers'[v].kind = Kind(v) /\ viewers'[v].gen = g
      /\ viewers'[v].lines = <<>> /\ viewers'[v].done = ~built
  <2>1. viewers' = [viewers EXCEPT ![v] = [viewers[v] EXCEPT !.gen = g, !.live = TRUE,
                                                             !.done = ~built, !.lines = <<>>]]
    BY <1>2 DEF Request
  <2>2. viewers[v] \in Viewer
    BY <1>0 DEF Typed
  <2> QED
    BY <2>1, <2>2 DEF Viewer, Kind
<1>5. /\ \A h \in Requests : h # g => worker'[h] = worker[h]
      /\ worker'[g].owner = v /\ worker'[g].sent = 0
      /\ worker'[g].at = (IF built THEN "run" ELSE "gone")
  BY <1>0, <1>1, <1>2 DEF Request, Typed
<1>6. worker[g].at = "off"
  BY <1>1 DEF Show, Owners
<1>7. \A a \in DOMAIN results : results[a].gen \in Requests /\ results[a].gen # g
  BY <1>0, <1>6, ShowTypes DEF Show, Channel
<1>8. \A w \in DOMAIN viewers : viewers[w].gen # g /\ Kind(w)' = Kind(w)
  <2>1. \A w \in DOMAIN viewers : viewers[w].gen # g
    BY <1>0, <1>1, <1>6, ShowTypes DEF Show, Owners
  <2> QED
    BY <1>4, <2>1 DEF Kind
<1>9. \A w \in DOMAIN viewers : w # v /\ w \in Range(outputs') => w \in Range(outputs)
  <2> DEFINE D == DOMAIN viewers
             s == outputs
  <2>1. s \in Seq(D) /\ v \in D
    BY <1>0 DEF Typed
  <2> HIDE DEF D
  <2>2. \A i \in DOMAIN Append(s, v) : (i \in DOMAIN s /\ Append(s, v)[i] = s[i])
                                              \/ Append(s, v)[i] = v
    <3> HIDE DEF s
    <3> QED
      BY <2>1
  <2> QED
    BY <1>3, <2>2 DEF AddTab, Range
<1>10. Owners'
  <2>1. ASSUME NEW h \in Requests
        PROVE  /\ generation' < h => worker'[h].at = "off"
               /\ worker'[h].at # "off" => worker'[h].owner \in DOMAIN viewers'
    <3>1. CASE h = g
      BY <1>1, <1>4, <1>5, <3>1 DEF g, Requests
    <3>2. CASE h # g
      BY <1>1, <1>4, <1>5, <3>2 DEF Show, Owners, g
    <3> QED
      BY <3>1, <3>2
  <2>2. ASSUME NEW w \in DOMAIN viewers', viewers'[w].gen # Nil
        PROVE  worker'[viewers'[w].gen].owner = w /\ worker'[viewers'[w].gen].at # "off"
    <3>1. CASE w = v
      BY <1>4, <1>5, <3>1
    <3>2. CASE w # v
      BY <1>0, <1>4, <1>5, <1>8, <2>2, <3>2, ShowTypes DEF Show, Owners
    <3> QED
      BY <3>1, <3>2
  <2> QED
    BY <2>1, <2>2 DEF Owners
<1>11. Channel'
  <2> SUFFICES ASSUME NEW a \in DOMAIN results
               PROVE  LET r == results[a]
                          w == worker'[r.gen]
                      IN  /\ w.at # "off"
                          /\ r.done => w.at = "gone"
                          /\ viewers'[w.owner].kind \in Workspace =>
                                IF r.done THEN r.n = 0 ELSE r.n <= w.sent
                          /\ viewers'[w.owner].kind \notin Workspace =>
                                r.done /\ r.n = 1 /\ w.sent = 1
    BY <1>3 DEF Channel, Kind, Workspace
  <2> DEFINE r == results[a]
             w == worker[r.gen]
  <2>1. r.gen \in Requests /\ worker'[r.gen] = w
    BY <1>5, <1>7
  <2>2. /\ w.at # "off"
        /\ r.done => w.at = "gone"
        /\ Kind(w.owner) \in Workspace => IF r.done THEN r.n = 0 ELSE r.n <= w.sent
        /\ Kind(w.owner) \notin Workspace => r.done /\ r.n = 1 /\ w.sent = 1
    BY DEF Show, Channel
  <2>3. w.owner \in DOMAIN viewers
    BY <2>1, <2>2 DEF Show, Owners
  <2>4. viewers'[w.owner].kind = Kind(w.owner)
    BY <1>4, <2>3 DEF Kind
  <2> QED
    BY <2>1, <2>2, <2>4
<1>12. Order'
  BY <1>3 DEF Show, Order
<1>13. ASSUME NEW w \in DOMAIN viewers' PROVE Shown(w)'
  <2>1. CASE w = v
    <3>1. viewers'[w].gen # Nil
      BY <1>0, <1>1, <1>4, <2>1, ShowTypes
    <3>2. Got(<<>>) = 0 /\ (Got(<<>>) + 1)..0 = {}
      BY DEF Got
    <3>3. Sequel(viewers'[w].lines, viewers'[w].gen)
      BY <1>4, <2>1, ViewersAssumption DEF Sequel
    <3>4. Complete(w)'
      BY <1>3, <1>4, <1>5, <1>7, <2>1, <3>2 DEF Complete, Got
    <3>5. Missing(w)'
      BY <1>3, <1>4, <1>5, <1>7, <2>1, <3>2 DEF Missing, Got
    <3> QED
      BY <1>4, <1>5, <2>1, <3>1, <3>2, <3>3, <3>4, <3>5 DEF Shown, Sequel, Got
  <2>2. CASE w # v
    <3>1. w \in DOMAIN viewers /\ viewers'[w] = viewers[w] /\ Kind(w)' = Kind(w) /\ Shown(w)
      BY <1>4, <1>8, <2>2 DEF Show
    <3>2. viewers[w].gen # Nil => worker'[viewers[w].gen] = worker[viewers[w].gen]
      BY <1>0, <1>5, <1>8, <3>1, ShowTypes
    <3>3. w \in Range(outputs)' => w \in Range(outputs)
      BY <1>9, <2>2, <3>1 DEF Range
    <3>4. viewers[w].gen # Nil => Complete(w)'
      BY <1>3, <3>1, <3>2 DEF Shown, Complete, Got
    <3>5. viewers[w].gen # Nil => Missing(w)'
      BY <1>3, <3>1, <3>2, <3>3 DEF Shown, Missing, Got, Workspace
    <3> QED
      BY <1>3, <3>1, <3>2, <3>4, <3>5 DEF Shown, Sequel, Got, Workspace, Nil
  <2> QED
    BY <2>1, <2>2
<1> QED
  BY <1>10, <1>11, <1>12, <1>13 DEF Show

\* A worker that runs sends a result, its last one if done.
LEMMA SendShows ==
    ASSUME IInv, Show, NEW g \in Requests, NEW n \in Nat, NEW done \in BOOLEAN,
           Running(g), Send(g, n, done), Stays,
           worker' \in [Requests -> Worker],
           \A h \in Requests : h # g => worker'[h] = worker[h],
           worker'[g].owner = worker[g].owner,
           \/ /\ Kind(worker[g].owner) \in Workspace /\ ~done
              /\ n = worker[g].sent + 1 /\ worker'[g].sent = n /\ worker'[g].at = "run"
           \/ /\ Kind(worker[g].owner) \in Workspace /\ done
              /\ n = 0 /\ worker'[g].sent = worker[g].sent /\ worker'[g].at = "gone"
           \/ /\ Kind(worker[g].owner) \notin Workspace /\ done
              /\ n = 1 /\ worker'[g].sent = 1 /\ worker'[g].at = "gone"
    PROVE  Show'
<1> DEFINE e == [gen |-> g, n |-> n, done |-> done]
           L == Len(results)
           o == worker[g].owner
<1>0. /\ Typed /\ L \in Nat /\ UNCHANGED <<viewers, view, outputs, generation, main>>
      /\ worker[g].at = "run" /\ g # Nil /\ worker[g].sent \in Nat
      /\ o \in DOMAIN viewers
  <2>1. Typed
    BY DEF IInv
  <2> QED
    BY <2>1, ShowTypes DEF IInv, Stays, Running, Show, Owners
<1>1. /\ DOMAIN results = 1..L /\ DOMAIN results' = 1..(L + 1)
      /\ \A a \in 1..L : results'[a] = results[a]
      /\ results'[L + 1] = e
  <2>1. results \in Seq(Result) /\ results' = Append(results, e)
    BY <1>0 DEF Typed, Send
  <2> HIDE DEF e
  <2> QED
    BY <2>1
<1>2. \A a \in 1..(L + 1) : a \in 1..L \/ a = L + 1
  BY <1>0
<1>3. e.gen = g /\ e.n = n /\ e.done = done
  OBVIOUS
<1> HIDE DEF e, L
<1>4. \A a \in 1..L : results[a].gen \in Requests /\ results[a].n \in Nat /\ results[a].done \in BOOLEAN
  BY <1>0, <1>1, ShowTypes
<1>5. \A a \in 1..L : results[a].gen = g =>
         /\ ~results[a].done
         /\ Kind(o) \in Workspace /\ results[a].n <= worker[g].sent
  <2> TAKE a \in 1..L
  <2> HAVE results[a].gen = g
  <2>1. /\ results[a].done => worker[g].at = "gone"
        /\ Kind(o) \in Workspace => IF results[a].done THEN results[a].n = 0
                                    ELSE results[a].n <= worker[g].sent
        /\ Kind(o) \notin Workspace => results[a].done
    BY <1>1 DEF Show, Channel
  <2> QED
    BY <1>0, <2>1
<1>6. \A x : Kind(x)' = Kind(x) /\ Workspace' = Workspace
  BY <1>0 DEF Kind, Workspace
<1>7. Owners'
  <2>1. \A h \in Requests : /\ worker'[h].owner = worker[h].owner
                            /\ worker'[h].at # "off" <=> worker[h].at # "off"
    BY <1>0
  <2> QED
    BY <1>0, <2>1, ShowTypes DEF Show, Owners
<1>8. Channel'
  <2> SUFFICES ASSUME NEW a \in 1..(L + 1)
               PROVE  LET r == results'[a]
                          w == worker'[r.gen]
                      IN  /\ w.at # "off"
                          /\ r.done => w.at = "gone"
                          /\ Kind(w.owner) \in Workspace =>
                                IF r.done THEN r.n = 0 ELSE r.n <= w.sent
                          /\ Kind(w.owner) \notin Workspace =>
                                r.done /\ r.n = 1 /\ w.sent = 1
    BY <1>0, <1>1 DEF Channel, Kind, Workspace
  <2>1. CASE a = L + 1
    BY <1>1, <1>3, <2>1
  <2>2. CASE a \in 1..L
    <3> DEFINE r == results[a]
               w == worker[r.gen]
    <3>1. /\ w.at # "off"
          /\ r.done => w.at = "gone"
          /\ Kind(w.owner) \in Workspace => IF r.done THEN r.n = 0 ELSE r.n <= w.sent
          /\ Kind(w.owner) \notin Workspace => r.done /\ r.n = 1 /\ w.sent = 1
      BY <1>1, <2>2 DEF Show, Channel
    <3>2. CASE r.gen = g
      <4>1. ~r.done /\ Kind(o) \in Workspace /\ r.n <= worker[g].sent /\ r.n \in Nat
        BY <1>4, <1>5, <2>2, <3>2
      <4>2. worker'[g].at # "off" /\ worker[g].sent <= worker'[g].sent
            /\ worker'[g].sent \in Nat /\ worker'[g].owner = o
        BY <1>0, <4>1
      <4>3. results'[a] = r
        BY <1>1, <2>2
      <4>4. r.n <= worker'[g].sent
        BY <1>0, <4>1, <4>2
      <4> QED
        BY <3>2, <4>1, <4>2, <4>3, <4>4
    <3>3. CASE r.gen # g
      BY <1>1, <1>4, <2>2, <3>1, <3>3
    <3> QED
      BY <3>2, <3>3
  <2> QED
    BY <1>2, <2>1, <2>2
<1>9. Order'
  <2> SUFFICES ASSUME NEW a \in 1..(L + 1), NEW b \in 1..(L + 1), a < b,
                      results'[a].gen = results'[b].gen
               PROVE  ~results'[a].done /\ (results'[b].done \/ results'[a].n < results'[b].n)
    BY <1>1 DEF Order
  <2>1. a \in 1..L /\ results'[a] = results[a]
    BY <1>0, <1>1, <1>2
  <2>2. CASE b \in 1..L
    BY <1>1, <2>1, <2>2 DEF Show, Order
  <2>3. CASE b = L + 1
    <3>1. /\ results[a].gen = g /\ ~results[a].done
          /\ Kind(o) \in Workspace /\ results[a].n <= worker[g].sent
      BY <1>1, <1>3, <1>5, <2>1, <2>3
    <3>2. done \/ n = worker[g].sent + 1
      BY <3>1
    <3> QED
      BY <1>0, <1>1, <1>3, <1>4, <2>1, <2>3, <3>1, <3>2
  <2> QED
    BY <1>2, <2>2, <2>3
<1>10. ASSUME NEW v \in DOMAIN viewers' PROVE Shown(v)'
  <2> DEFINE x == viewers[v]
  <2>0. /\ v \in DOMAIN viewers /\ viewers'[v] = x /\ Shown(v) /\ x.gen \in Requests \cup {Nil}
        /\ x.lines \in Lines /\ x.done \in BOOLEAN
    BY <1>0, ShowTypes DEF Show
  <2>1. Range(outputs)' = Range(outputs)
    BY <1>0 DEF Range
  <2>2. CASE x.gen = Nil
    BY <2>0, <2>2 DEF Shown, Nil, Sequel
  <2>3. CASE x.gen # Nil /\ x.gen # g
    <3>1. worker'[x.gen] = worker[x.gen]
      BY <2>0, <2>3
    <3>2. \A a \in 1..(L + 1) : results'[a].gen = x.gen => a \in 1..L /\ results'[a] = results[a]
      BY <1>1, <1>2, <1>3, <2>3
    <3>3. \A a \in 1..L : a \in 1..(L + 1) /\ results'[a] = results[a]
      BY <1>0, <1>1
    <3>4. Complete(v)'
      BY <1>1, <2>0, <2>3, <3>1, <3>2 DEF Shown, Complete, Got
    <3>5. Missing(v)'
      <4> SUFFICES ASSUME Kind(v) \in Workspace, v \in Range(outputs)
                   PROVE  /\ \A a \in 1..(L + 1) :
                                results'[a].gen = x.gen /\ ~results'[a].done => Got(x.lines) < results'[a].n
                          /\ \A k \in (Got(x.lines) + 1)..worker[x.gen].sent :
                                \E a \in 1..(L + 1) :
                                    results'[a].gen = x.gen /\ ~results'[a].done /\ results'[a].n = k
        BY <1>1, <1>6, <2>0, <2>1, <3>1 DEF Missing, Got
      <4>1. /\ \A a \in 1..L : results[a].gen = x.gen /\ ~results[a].done => Got(x.lines) < results[a].n
            /\ \A k \in (Got(x.lines) + 1)..worker[x.gen].sent :
                 \E a \in 1..L : results[a].gen = x.gen /\ ~results[a].done /\ results[a].n = k
        BY <1>1, <2>0, <2>3 DEF Shown, Missing
      <4> QED
        BY <3>2, <3>3, <4>1
    <3> QED
      BY <1>6, <2>0, <2>3, <3>1, <3>4, <3>5 DEF Shown, Sequel, Got
  <2>4. CASE x.gen = g
    <3>1. o = v /\ ~x.done /\ Got(x.lines) <= worker[g].sent
      BY <1>0, <2>0, <2>4 DEF Show, Owners, Shown, Complete
    <3>2. Got(x.lines) \in Nat
      <4>1. \A i \in 1..Len(x.lines) : x.lines[i].n \in Nat
        <5> DEFINE T == [gen : Requests, n : 1..Output]
        <5>1. x.lines \in Seq(T)
          BY <2>0 DEF Lines
        <5>2. \A y \in T : y.n \in Nat
          BY ViewersAssumption
        <5> HIDE DEF T
        <5> QED
          BY <5>1, <5>2
      <4>2. x.lines # <<>> => Len(x.lines) \in 1..Len(x.lines)
        <5> DEFINE T == [gen : Requests, n : 1..Output]
        <5>1. x.lines \in Seq(T)
          BY <2>0 DEF Lines
        <5> HIDE DEF T
        <5> QED
          BY <5>1
      <4> QED
        BY <4>1, <4>2 DEF Got
    <3>3. Kind(v) \notin Workspace => x.lines = <<>> /\ Got(x.lines) = 0
      BY <1>0, <2>0, <2>4, <3>1 DEF Shown, Got
    <3>4. Got(x.lines) <= worker'[g].sent
      BY <1>0, <3>1, <3>2, <3>3
    <3>5. Complete(v)'
      BY <2>0, <3>1 DEF Complete
    <3>6. Missing(v)'
      <4> SUFFICES ASSUME Kind(v) \in Workspace, v \in Range(outputs)
                   PROVE  /\ \A a \in 1..(L + 1) :
                                results'[a].gen = g /\ ~results'[a].done => Got(x.lines) < results'[a].n
                          /\ \A k \in (Got(x.lines) + 1)..worker'[g].sent :
                                \E a \in 1..(L + 1) :
                                    results'[a].gen = g /\ ~results'[a].done /\ results'[a].n = k
        BY <1>1, <1>6, <2>0, <2>1, <2>4 DEF Missing, Got
      <4>1. /\ \A a \in 1..L : results[a].gen = g /\ ~results[a].done => Got(x.lines) < results[a].n
            /\ \A k \in (Got(x.lines) + 1)..worker[g].sent :
                 \E a \in 1..L : results[a].gen = g /\ ~results[a].done /\ results[a].n = k
        BY <1>0, <1>1, <2>0, <2>4 DEF Shown, Missing
      <4>2. \A a \in 1..L : a \in 1..(L + 1) /\ results'[a] = results[a]
        BY <1>0, <1>1
      <4>3. ASSUME NEW a \in 1..(L + 1), results'[a].gen = g, ~results'[a].done
            PROVE  Got(x.lines) < results'[a].n
        <5>1. CASE a \in 1..L
          BY <4>1, <4>2, <4>3, <5>1
        <5>2. CASE a = L + 1
          <6>1. ~done /\ n = worker[g].sent + 1
            BY <1>1, <1>3, <3>1, <4>3, <5>2
          <6> QED
            BY <1>0, <1>1, <1>3, <3>1, <3>2, <5>2, <6>1
        <5> QED
          BY <1>2, <5>1, <5>2
      <4>4. ASSUME NEW k \in (Got(x.lines) + 1)..worker'[g].sent
            PROVE  \E a \in 1..(L + 1) :
                      results'[a].gen = g /\ ~results'[a].done /\ results'[a].n = k
        <5>1. CASE k \in (Got(x.lines) + 1)..worker[g].sent
          BY <4>1, <4>2, <5>1
        <5>2. CASE ~done /\ n = worker[g].sent + 1 /\ k = n
          <6>1. L + 1 \in 1..(L + 1)
            BY <1>0
          <6> QED
            BY <1>1, <1>3, <5>2, <6>1
        <5>3. \/ k \in (Got(x.lines) + 1)..worker[g].sent
              \/ ~done /\ n = worker[g].sent + 1 /\ k = n
          <6>1. CASE ~done
            <7>1. n = worker[g].sent + 1 /\ worker'[g].sent = n
              BY <6>1
            <7> QED
              BY <1>0, <3>2, <6>1, <7>1
          <6>2. CASE done
            <7>1. worker'[g].sent = worker[g].sent
              BY <3>1, <6>2
            <7> QED
              BY <7>1
          <6> QED
            BY <6>1, <6>2
        <5> QED
          BY <5>1, <5>2, <5>3
      <4> QED
        BY <4>3, <4>4
    <3> QED
      BY <1>6, <2>0, <2>4, <3>1, <3>3, <3>4, <3>5, <3>6 DEF Shown, Sequel, Got
  <2> QED
    BY <2>2, <2>3, <2>4
<1> QED
  BY <1>7, <1>8, <1>9, <1>10 DEF Show

LEMMA WorkShows ==
    ASSUME IInv, Show, NEW g \in Requests, Work(g)
    PROVE  Show'
<1>0. /\ Typed /\ Typed' /\ worker[g] \in Worker /\ worker[g].at = "run" /\ Running(g)
      /\ worker \in [Requests -> Worker] /\ worker' \in [Requests -> Worker]
  <2>1. Typed /\ Typed'
    BY RestTyped DEF IInv
  <2> QED
    BY <2>1 DEF Typed, Work, SendLine, SendDone, Abandon, Deadline, Alive, Running
<1>1. CASE SendLine(g)
  <2> DEFINE x == [worker[g] EXCEPT !.sent = worker[g].sent + 1]
  <2>1. worker' = [worker EXCEPT ![g] = x]
    BY <1>1 DEF SendLine
  <2>2. x.owner = worker[g].owner /\ x.sent = worker[g].sent + 1 /\ x.at = "run"
    BY <1>0 DEF Worker
  <2>3. worker[g].sent + 1 \in Nat
    BY <1>0, ShowTypes
  <2> HIDE DEF x
  <2> QED
    BY <1>0, <1>1, <2>1, <2>2, <2>3, SendShows DEF SendLine
<1>2. CASE SendDone(g)
  <2>1. CASE Kind(worker[g].owner) \in Workspace
    <3> DEFINE x == [worker[g] EXCEPT !.at = "gone"]
    <3>1. worker' = [worker EXCEPT ![g] = x] /\ Send(g, 0, TRUE) /\ Stays
      BY <1>2, <2>1 DEF SendDone
    <3>2. x.owner = worker[g].owner /\ x.sent = worker[g].sent /\ x.at = "gone"
      BY <1>0 DEF Worker
    <3> HIDE DEF x
    <3> QED
      BY <1>0, <2>1, <3>1, <3>2, SendShows
  <2>2. CASE Kind(worker[g].owner) \notin Workspace
    <3> DEFINE x == [worker[g] EXCEPT !.at = "gone", !.sent = 1]
    <3>1. worker' = [worker EXCEPT ![g] = x] /\ Send(g, 1, TRUE) /\ Stays
      BY <1>2, <2>2 DEF SendDone
    <3>2. x.owner = worker[g].owner /\ x.sent = 1 /\ x.at = "gone"
      BY <1>0 DEF Worker
    <3> HIDE DEF x
    <3> QED
      BY <1>0, <2>2, <3>1, <3>2, SendShows
  <2> QED
    BY <2>1, <2>2
<1>3. CASE Abandon(g) \/ Deadline(g)
  <2>1. /\ UNCHANGED <<viewers, outputs, generation, results>>
        /\ \/ worker' = [worker EXCEPT ![g] = [worker[g] EXCEPT !.at = "gone"]]
           \/ worker' = [worker EXCEPT ![g] = [worker[g] EXCEPT !.cancelled = TRUE, !.late = TRUE]]
    BY <1>3 DEF Abandon, Deadline, Stays
  <2>2. /\ worker'[g].owner = worker[g].owner /\ worker'[g].sent = worker[g].sent
        /\ worker'[g].at = worker[g].at \/ worker'[g].at = "gone"
        /\ \A h \in Requests : h # g => worker'[h] = worker[h]
    <3>1. \/ worker'[g] = [worker[g] EXCEPT !.at = "gone"]
          \/ worker'[g] = [worker[g] EXCEPT !.cancelled = TRUE, !.late = TRUE]
      BY <1>0, <2>1
    <3>2. \A h \in Requests : h # g => worker'[h] = worker[h]
      BY <1>0, <2>1
    <3> QED
      BY <1>0, <3>1, <3>2 DEF Worker
  <2>3. Quiet
    BY <1>0, <2>1, <2>2 DEF Quiet, Range
  <2> QED
    BY <1>0, <2>3, QuietShows
<1> QED
  BY <1>1, <1>2, <1>3 DEF Work

\* The next line of a request is put behind the others, the oldest may go.
LEMMA AppendedSequel ==
    ASSUME NEW ls \in Lines, NEW g \in Requests, Sequel(ls, g), Got(ls) + 1 \in 1..Output
    PROVE  LET l == [gen |-> g, n |-> Got(ls) + 1]
           IN  Sequel(appendLine(ls, l), g) /\ Got(appendLine(ls, l)) = Got(ls) + 1
<1> USE ViewersAssumption
<1> DEFINE T == [gen : Requests, n : 1..Output]
           l == [gen |-> g, n |-> Got(ls) + 1]
           base == IF Len(ls) >= LogLines THEN Tail(ls) ELSE ls
           k == Len(base)
<1>1. ls \in Seq(T) /\ l \in T /\ l.gen = g /\ l.n = Got(ls) + 1
  BY DEF Lines
<1> HIDE DEF T, l
\* base is the end of ls, whose first d lines are gone.
<1>2. PICK d \in {0, 1} :
         /\ base \in Seq(T) /\ k \in Nat /\ k = Len(ls) - d /\ k < LogLines
         /\ \A i \in 1..k : base[i] = ls[i + d]
         /\ d = 1 => Len(ls) = LogLines
  <2>1. Len(ls) \in Nat /\ Len(ls) <= LogLines /\ LogLines \in Nat \ {0}
    BY <1>1 DEF Sequel
  <2>2. CASE Len(ls) >= LogLines
    <3>1. ls # <<>>
      BY <1>1, <2>1, <2>2
    <3>2. Tail(ls) \in Seq(T) /\ Len(Tail(ls)) = Len(ls) - 1
          /\ \A i \in 1..(Len(ls) - 1) : Tail(ls)[i] = ls[i + 1]
      BY <1>1, <3>1
    <3>3. base = Tail(ls) /\ Len(ls) = LogLines
      BY <2>1, <2>2
    <3> DEFINE d == 1
    <3>4. base \in Seq(T) /\ k \in Nat /\ k = Len(ls) - d /\ k < LogLines
      BY <2>1, <3>1, <3>2, <3>3
    <3>5. \A i \in 1..k : base[i] = ls[i + d]
      BY <3>2, <3>3, <3>4
    <3> HIDE DEF base
    <3> QED
      BY <3>3, <3>4, <3>5
  <2>3. CASE ~(Len(ls) >= LogLines)
    <3>1. base = ls /\ \A i \in 1..Len(ls) : i + 0 = i
      BY <2>3
    <3> QED
      BY <1>1, <2>1, <2>3, <3>1
  <2> QED
    BY <2>2, <2>3
<1> DEFINE q == appendLine(ls, l)
<1>3. q = Append(base, l)
  BY DEF appendLine
<1> HIDE DEF base
<1>4. /\ q \in Seq(T) /\ Len(q) = k + 1 /\ DOMAIN q = 1..(k + 1) /\ q # <<>>
      /\ \A i \in 1..k : q[i] = base[i]
      /\ q[k + 1] = l
  <2>1. base \in Seq(T) /\ l \in T /\ Len(base) = k /\ k \in Nat
    BY <1>1, <1>2
  <2>2. /\ q \in Seq(T) /\ Len(q) = Len(base) + 1
        /\ \A i \in 1..Len(base) : q[i] = base[i]
        /\ q[Len(base) + 1] = l
    BY <1>3, <2>1
  <2> HIDE DEF q, k
  <2>3. DOMAIN q = 1..(k + 1) /\ q # <<>>
    BY <2>1, <2>2
  <2> QED
    BY <2>1, <2>2, <2>3
<1> HIDE DEF q
<1>5. Got(q) = Got(ls) + 1
  BY <1>1, <1>4 DEF Got
<1>6. DOMAIN ls = 1..Len(ls) /\ Len(ls) \in Nat
  BY <1>1
<1>7. ASSUME NEW i \in 1..(k + 1)
      PROVE  q[i].gen = g /\ (i > 1 => q[i].n = q[i - 1].n + 1)
  <2>1. CASE i \in 1..k
    <3>0. d \in Nat
      OBVIOUS
    <3>1. q[i] = ls[i + d] /\ i + d \in 1..Len(ls)
      BY <1>2, <1>4, <1>6, <2>1, <3>0
    <3>2. i > 1 => /\ i - 1 \in 1..k /\ q[i - 1] = ls[(i - 1) + d] /\ (i - 1) + d = (i + d) - 1
                   /\ i + d > 1
      <4> SUFFICES ASSUME i > 1
                   PROVE  /\ i - 1 \in 1..k /\ q[i - 1] = ls[(i - 1) + d]
                          /\ (i - 1) + d = (i + d) - 1 /\ i + d > 1
        OBVIOUS
      <4>0. k \in Nat
        BY <1>2
      <4> HIDE DEF k
      <4>1. i - 1 \in 1..k /\ (i - 1) + d = (i + d) - 1 /\ i + d > 1
        BY <2>1, <3>0, <4>0
      <4>2. q[i - 1] = base[i - 1]
        BY <1>4, <4>1
      <4> QED
        BY <1>2, <4>1, <4>2
    <3> QED
      BY <1>6, <3>1, <3>2 DEF Sequel
  <2>2. CASE i = k + 1
    <3>1. q[i].gen = g /\ q[i].n = Got(ls) + 1
      BY <1>1, <1>4, <2>2
    <3>2. i > 1 => q[i - 1] = ls[Len(ls)] /\ ls # <<>>
      <4> SUFFICES ASSUME i > 1 PROVE q[i - 1] = ls[Len(ls)] /\ ls # <<>>
        OBVIOUS
      <4>1. k \in 1..k /\ i - 1 = k /\ k + d = Len(ls)
        BY <1>2, <1>6, <2>2
      <4>2. q[k] = ls[k + d]
        BY <1>2, <1>4, <4>1
      <4>3. ls # <<>>
        BY <1>2, <1>6, <4>1
      <4> QED
        BY <4>1, <4>2, <4>3
    <3> QED
      BY <3>1, <3>2 DEF Got
  <2> QED
    BY <1>2, <2>1, <2>2
<1>8. Len(q) < LogLines => q[1].n = 1
  <2> SUFFICES ASSUME k + 1 < LogLines PROVE q[1].n = 1
    BY <1>4
  <2>1. d = 0 /\ Len(ls) < LogLines
    BY <1>2, <1>6
  <2>2. CASE k = 0
    <3>1. ls = <<>>
      BY <1>1, <1>2, <2>1, <2>2
    <3> QED
      BY <1>1, <1>4, <2>2, <3>1 DEF Got
  <2>3. CASE k # 0
    <3>1. 1 \in 1..k /\ ls # <<>>
      BY <1>2, <1>6, <2>1, <2>3
    <3>2. q[1] = ls[1]
      BY <1>2, <1>4, <2>1, <3>1
    <3> QED
      BY <2>1, <3>1, <3>2 DEF Sequel
  <2> QED
    BY <2>2, <2>3
<1>9. Len(q) <= LogLines
  BY <1>2, <1>4
<1>10. Sequel(q, g)
  BY <1>4, <1>7, <1>8, <1>9 DEF Sequel
<1> QED
  BY <1>5, <1>10 DEF q, l

LEMMA ReceiveShows ==
    ASSUME IInv, Show, Receive
    PROVE  Show'
<1> DEFINE r == Head(results)
           L == Len(results)
<1>0. Typed /\ Tabs
  BY DEF IInv
<1>1. /\ r = results[1] /\ L \in Nat /\ L >= 1 /\ 1 \in DOMAIN results
      /\ DOMAIN results = 1..L /\ DOMAIN results' = 1..(L - 1)
      /\ \A a \in 1..(L - 1) : results'[a] = results[a + 1] /\ a + 1 \in 1..L
  <2>1. results \in Seq(Result) /\ results # <<>> /\ results' = Tail(results)
    BY <1>0 DEF Receive, Typed
  <2> QED
    BY <2>1
<1>2. r.gen \in Requests /\ r.n \in Nat /\ r.done \in BOOLEAN
  BY <1>0, <1>1, ShowTypes
<1>3. /\ DOMAIN viewers' = DOMAIN viewers /\ UNCHANGED <<view, outputs, generation, worker>>
      /\ \A v \in DOMAIN viewers : viewers'[v] =
            IF v \notin ViewersOf(r) THEN viewers[v]
            ELSE IF ~r.done
                 THEN [viewers[v] EXCEPT !.lines =
                          appendLine(viewers[v].lines, [gen |-> r.gen, n |-> r.n])]
            ELSE IF Kind(v) \notin Workspace /\ r.n > 0
                 THEN [viewers[v] EXCEPT !.done = TRUE, !.lines = <<[gen |-> r.gen, n |-> r.n]>>]
            ELSE [viewers[v] EXCEPT !.done = TRUE]
  BY DEF Receive
<1>a. DOMAIN viewers' = DOMAIN viewers /\ UNCHANGED <<view, outputs, generation, worker>>
  BY <1>3
<1>4. /\ worker[r.gen].at # "off"
      /\ r.done => worker[r.gen].at = "gone"
      /\ Kind(worker[r.gen].owner) \in Workspace =>
            IF r.done THEN r.n = 0 ELSE r.n <= worker[r.gen].sent
      /\ Kind(worker[r.gen].owner) \notin Workspace =>
            r.done /\ r.n = 1 /\ worker[r.gen].sent = 1
  BY <1>1 DEF Show, Channel
<1>5. \A a \in 2..L : results[a].gen = r.gen =>
          ~r.done /\ (results[a].done \/ r.n < results[a].n)
  <2> TAKE a \in 2..L
  <2>1. 1 \in 1..L /\ a \in 1..L /\ 1 < a
    BY <1>1
  <2> QED
    BY <1>1, <2>1 DEF Show, Order
<1> HIDE DEF r, L
<1>6. \A a \in 1..(L - 1) : a + 1 \in 2..L
  BY <1>1
<1>7. \A v \in DOMAIN viewers :
         viewers'[v].kind = viewers[v].kind /\ viewers'[v].gen = viewers[v].gen
  BY <1>0, <1>3, ShowTypes DEF Viewer
<1>8. Owners'
  BY <1>3, <1>7 DEF Show, Owners
<1>9. Channel'
  <2> SUFFICES ASSUME NEW a \in 1..(L - 1)
               PROVE  LET q == results'[a]
                          w == worker[q.gen]
                      IN  /\ w.at # "off"
                          /\ q.done => w.at = "gone"
                          /\ viewers'[w.owner].kind \in Workspace =>
                                IF q.done THEN q.n = 0 ELSE q.n <= w.sent
                          /\ viewers'[w.owner].kind \notin Workspace =>
                                q.done /\ q.n = 1 /\ w.sent = 1
    BY <1>1, <1>3 DEF Channel, Kind, Workspace
  <2> DEFINE q == results[a + 1]
             w == worker[q.gen]
  <2>1. a + 1 \in DOMAIN results /\ results'[a] = q
    BY <1>1
  <2>2. /\ w.at # "off"
        /\ q.done => w.at = "gone"
        /\ Kind(w.owner) \in Workspace => IF q.done THEN q.n = 0 ELSE q.n <= w.sent
        /\ Kind(w.owner) \notin Workspace => q.done /\ q.n = 1 /\ w.sent = 1
    BY <2>1 DEF Show, Channel
  <2>3. q.gen \in Requests
    BY <1>0, <2>1, ShowTypes
  <2>4. w.owner \in DOMAIN viewers
    BY <2>2, <2>3 DEF Show, Owners
  <2>5. viewers'[w.owner].kind = Kind(w.owner)
    BY <1>7, <2>4 DEF Kind
  <2> QED
    BY <2>1, <2>2, <2>5
<1>10. Order'
  <2> SUFFICES ASSUME NEW a \in 1..(L - 1), NEW b \in 1..(L - 1), a < b,
                      results'[a].gen = results'[b].gen
               PROVE  ~results'[a].done /\ (results'[b].done \/ results'[a].n < results'[b].n)
    BY <1>1 DEF Order
  <2>1. a + 1 \in 1..L /\ b + 1 \in 1..L /\ a + 1 < b + 1
    BY <1>1
  <2> QED
    BY <1>1, <2>1 DEF Show, Order
<1>11. ASSUME NEW v \in DOMAIN viewers PROVE Shown(v)'
  <2> DEFINE x == viewers[v]
             g == x.gen
  <2>0. /\ Shown(v) /\ g \in Requests \cup {Nil} /\ x \in Viewer
        /\ x.lines \in Lines /\ x.done \in BOOLEAN
        /\ viewers'[v].gen = g /\ Kind(v)' = Kind(v) /\ Range(outputs)' = Range(outputs)
    <3>1. Shown(v)
      BY DEF Show
    <3>2. g \in Requests \cup {Nil} /\ x \in Viewer /\ x.lines \in Lines /\ x.done \in BOOLEAN
      BY <1>0, ShowTypes
    <3>3. viewers'[v].gen = g /\ Kind(v)' = Kind(v)
      BY <1>7 DEF Kind
    <3>4. Range(outputs)' = Range(outputs)
      BY <1>a DEF Range
    <3> QED
      BY <3>1, <3>2, <3>3, <3>4
  <2>a. \A a \in 1..(L - 1) : results'[a] = results[a + 1] /\ a + 1 \in DOMAIN results
    BY <1>1
  <2>b. ASSUME NEW a \in DOMAIN results, a # 1
        PROVE  \E b \in 1..(L - 1) : results'[b] = results[a]
    <3>1. a - 1 \in 1..(L - 1) /\ (a - 1) + 1 = a
      BY <1>1, <2>b
    <3> QED
      BY <1>1, <3>1
  <2>1. CASE v \notin ViewersOf(r)
    <3>1. viewers'[v] = x
      BY <1>3, <2>1
    <3>2. CASE g = Nil
      BY <1>3, <2>0, <3>1, <3>2 DEF Shown, Sequel, Nil
    <3>3. CASE g # Nil
      <4>1. Complete(v)'
        <5>1. Complete(v)
          BY <2>0, <3>3 DEF Shown
        <5>2. viewers'[v] = viewers[v] /\ worker' = worker
          BY <1>a, <3>1
        <5>3. (\A a \in DOMAIN results : results[a].gen # x.gen) =>
                 \A a \in DOMAIN results' : results'[a].gen # x.gen
          BY <1>1, <2>a
        <5> QED
          BY <5>1, <5>2, <5>3 DEF Complete, Got
      <4>2. Missing(v)'
        <5> SUFFICES ASSUME Kind(v) \in Workspace, v \in Range(outputs)
                     PROVE  /\ \A a \in 1..(L - 1) :
                                  results'[a].gen = g /\ ~results'[a].done => Got(x.lines) < results'[a].n
                            /\ \A n \in (Got(x.lines) + 1)..worker[g].sent :
                                  \E a \in 1..(L - 1) :
                                      results'[a].gen = g /\ ~results'[a].done /\ results'[a].n = n
          BY <1>1, <1>a, <2>0, <3>1 DEF Missing, Got, Workspace
        <5>1. /\ \A a \in DOMAIN results :
                    results[a].gen = g /\ ~results[a].done => Got(x.lines) < results[a].n
              /\ \A n \in (Got(x.lines) + 1)..worker[g].sent :
                    \E a \in DOMAIN results :
                        results[a].gen = g /\ ~results[a].done /\ results[a].n = n
          BY <2>0, <3>3 DEF Shown, Missing
        <5>2. results[1].gen # g
          BY <1>1, <2>1 DEF ViewersOf
        <5> QED
          BY <2>a, <2>b, <5>1, <5>2
      <4> QED
        BY <1>3, <2>0, <3>1, <3>3, <4>1, <4>2 DEF Shown, Sequel, Got, Workspace
    <3> QED
      BY <3>2, <3>3
  <2>2. CASE v \in ViewersOf(r)
    <3>1. g = r.gen /\ g \in Requests /\ g # Nil
      BY <1>0, <1>2, <2>2, ShowTypes DEF ViewersOf
    <3>2. worker[g].owner = v
      BY <3>1 DEF Show, Owners
    <3>3. ~x.done /\ Got(x.lines) <= worker[g].sent
          /\ (Kind(v) \notin Workspace => x.lines = <<>>)
      BY <1>1, <2>0, <3>1 DEF Shown, Complete
    <3>4. worker[g].sent \in 0..Output /\ worker[g].sent \in Nat
      BY <1>0, <3>1, ShowTypes DEF Worker
    <3>5. Got(x.lines) \in Nat
      <4> DEFINE T == [gen : Requests, n : 1..Output]
      <4>1. x.lines \in Seq(T)
        BY <2>0 DEF Lines
      <4>2. \A y \in T : y.n \in Nat
        BY ViewersAssumption
      <4> HIDE DEF T
      <4> QED
        BY <4>1, <4>2 DEF Got
    <3>6. Kind(v) \in Workspace =>
             /\ \A a \in DOMAIN results :
                   results[a].gen = g /\ ~results[a].done => Got(x.lines) < results[a].n
             /\ \A n \in (Got(x.lines) + 1)..worker[g].sent :
                   \E a \in DOMAIN results :
                       results[a].gen = g /\ ~results[a].done /\ results[a].n = n
      <4>1. Kind(v) \in Workspace => v \in Range(outputs)
        BY <1>0, <2>2 DEF ViewersOf, Tabs
      <4> QED
        BY <2>0, <3>1, <4>1 DEF Shown, Missing
    <3>7. \A a \in DOMAIN results : a = 1 \/ a \in 2..L
      BY <1>1
    <3>8. CASE ~r.done
      <4>1. Kind(v) \in Workspace /\ r.n <= worker[g].sent
        BY <1>4, <3>1, <3>2, <3>8
      <4>2. Got(x.lines) < r.n
        BY <1>1, <3>1, <3>6, <3>8, <4>1
      <4>3. r.n = Got(x.lines) + 1
        <5> SUFFICES ASSUME Got(x.lines) + 1 < r.n PROVE FALSE
          BY <1>2, <3>5, <4>2
        <5>1. Got(x.lines) + 1 \in (Got(x.lines) + 1)..worker[g].sent
          BY <1>2, <3>4, <3>5, <4>1
        <5>2. PICK a \in DOMAIN results :
                 results[a].gen = g /\ ~results[a].done /\ results[a].n = Got(x.lines) + 1
          BY <3>6, <4>1, <5>1
        <5>3. a \in 2..L
          BY <1>1, <1>2, <3>5, <3>7, <5>2
        <5>4. r.n < Got(x.lines) + 1
          BY <1>5, <3>1, <5>2, <5>3
        <5> QED
          BY <1>2, <3>5, <5>4
      <4>4. Got(x.lines) + 1 \in 1..Output
        <5>1. worker[g].sent <= Output /\ Output \in Nat
          BY <3>4, ViewersAssumption
        <5>2. Got(x.lines) + 1 <= worker[g].sent
          BY <4>1, <4>3
        <5> QED
          BY <3>4, <3>5, <5>1, <5>2
      <4>5. Sequel(x.lines, g)
        BY <2>0 DEF Shown
      <4> DEFINE ls == appendLine(x.lines, [gen |-> g, n |-> Got(x.lines) + 1])
      <4>6. Sequel(ls, g) /\ Got(ls) = r.n
        BY <2>0, <3>1, <4>3, <4>4, <4>5, AppendedSequel
      <4>7. viewers'[v] = [x EXCEPT !.lines = ls]
        BY <1>3, <2>2, <3>1, <3>8, <4>3
      <4> HIDE DEF ls
      <4>8. viewers'[v].lines = ls /\ viewers'[v].done = x.done
        BY <2>0, <4>7 DEF Viewer
      <4>9. Missing(v)'
        <5> SUFFICES /\ \A a \in 1..(L - 1) :
                           results'[a].gen = g /\ ~results'[a].done => r.n < results'[a].n
                     /\ \A n \in (r.n + 1)..worker[g].sent :
                           \E a \in 1..(L - 1) :
                               results'[a].gen = g /\ ~results'[a].done /\ results'[a].n = n
          <6>1. Got(viewers'[v].lines) = r.n /\ viewers'[v].gen = g /\ worker' = worker
            BY <1>a, <2>0, <4>6, <4>8
          <6>2. DOMAIN results' = 1..(L - 1)
            BY <1>1
          <6> QED
            BY <6>1, <6>2 DEF Missing, Got
        <5>1. \A a \in 1..(L - 1) :
                 results'[a].gen = g /\ ~results'[a].done => r.n < results'[a].n
          BY <1>5, <1>6, <2>a, <3>1
        <5>2. ASSUME NEW n \in (r.n + 1)..worker[g].sent
              PROVE  \E a \in 1..(L - 1) :
                        results'[a].gen = g /\ ~results'[a].done /\ results'[a].n = n
          <6>1. n \in (Got(x.lines) + 1)..worker[g].sent /\ n # r.n
            BY <1>2, <3>4, <3>5, <4>3
          <6>2. PICK a \in DOMAIN results :
                   results[a].gen = g /\ ~results[a].done /\ results[a].n = n
            BY <3>6, <4>1, <6>1
          <6>3. a # 1
            BY <1>1, <6>1, <6>2
          <6> QED
            BY <2>b, <6>2, <6>3
        <5> QED
          BY <5>1, <5>2
      <4>10. Complete(v)'
        BY <3>3, <4>8 DEF Complete
      <4> QED
        BY <1>3, <2>0, <3>1, <4>1, <4>6, <4>8, <4>9, <4>10 DEF Shown, Sequel, Got, Workspace
    <3>9. CASE r.done
      <4>1. \A a \in 1..(L - 1) : results'[a].gen # g
        BY <1>5, <1>6, <2>a, <3>1, <3>9
      <4>2. worker[g].at = "gone"
        BY <1>4, <3>1, <3>9
      <4>3. CASE Kind(v) \in Workspace
        <5>1. r.n = 0
          BY <1>4, <3>1, <3>2, <3>9, <4>3
        <5>2. viewers'[v] = [x EXCEPT !.done = TRUE]
          BY <1>3, <2>2, <3>9, <4>3
        <5>3. viewers'[v].done /\ viewers'[v].lines = x.lines
          BY <2>0, <5>2 DEF Viewer
        <5>4. Got(x.lines) = worker[g].sent
          <6> SUFFICES ASSUME Got(x.lines) < worker[g].sent PROVE FALSE
            BY <3>3, <3>4, <3>5
          <6>1. Got(x.lines) + 1 \in (Got(x.lines) + 1)..worker[g].sent
            BY <3>4, <3>5
          <6>2. PICK a \in DOMAIN results : results[a].gen = g /\ ~results[a].done
            BY <3>6, <4>3, <6>1
          <6>3. a \in 2..L
            BY <1>1, <3>7, <3>9, <6>2
          <6> QED
            BY <1>5, <3>1, <3>9, <6>2, <6>3
        <5>5. (Got(x.lines) + 1)..worker[g].sent = {}
          BY <3>4, <3>5, <5>4
        <5>6. Missing(v)'
          BY <1>1, <1>3, <2>0, <4>1, <5>3, <5>5 DEF Missing, Got
        <5>7. Complete(v)'
          BY <1>1, <1>3, <2>0, <4>1, <4>2, <5>3, <5>4 DEF Complete, Got
        <5> QED
          BY <1>3, <2>0, <3>1, <3>3, <4>3, <5>3, <5>6, <5>7 DEF Shown, Sequel, Got, Workspace
      <4>4. CASE Kind(v) \notin Workspace
        <5> DEFINE ls == <<[gen |-> g, n |-> 1]>>
        <5>1. r.n = 1 /\ worker[g].sent = 1
          <6>1. worker[r.gen].owner = v
            BY <3>1, <3>2
          <6>2. Kind(worker[r.gen].owner) \notin Workspace
            BY <4>4, <6>1
          <6> QED
            <7>1. Kind(worker[r.gen].owner) \notin Workspace =>
                     r.done /\ r.n = 1 /\ worker[r.gen].sent = 1
              BY <1>4
            <7> QED
              BY <3>1, <6>2, <7>1
        <5>2. viewers'[v] = [x EXCEPT !.done = TRUE, !.lines = ls]
          <6>1. ls = <<[gen |-> r.gen, n |-> r.n]>>
            BY <3>1, <5>1
          <6>2. Kind(v) \notin Workspace /\ r.n > 0
            BY <4>4, <5>1
          <6> HIDE DEF ls
          <6>3. viewers'[v] = [viewers[v] EXCEPT !.done = TRUE,
                                                !.lines = <<[gen |-> r.gen, n |-> r.n]>>]
            BY <1>3, <2>2, <3>9, <6>2
          <6> QED
            BY <6>1, <6>3
        <5>3. Got(ls) = 1 /\ Sequel(ls, g)
          <6>1. LogLines >= 1 /\ LogLines \in Nat
            BY ViewersAssumption
          <6>2. Len(ls) = 1 /\ DOMAIN ls = {1} /\ ls[1].gen = g /\ ls[1].n = 1 /\ ls # <<>>
            OBVIOUS
          <6> HIDE DEF ls
          <6> QED
            BY <6>1, <6>2 DEF Got, Sequel
        <5> HIDE DEF ls
        <5>4. viewers'[v].done /\ viewers'[v].lines = ls
          BY <2>0, <5>2 DEF Viewer
        <5>5. Missing(v)'
          BY <2>0, <4>4 DEF Missing, Workspace
        <5>6. Complete(v)'
          BY <1>1, <1>3, <2>0, <4>1, <4>2, <5>1, <5>3, <5>4 DEF Complete, Got
        <5> QED
          <6>1. worker'[g].sent = 1 /\ ls # <<>>
            BY <1>a, <5>1, <5>3 DEF Got
          <6>2. /\ Sequel(viewers'[v].lines, viewers'[v].gen)
                /\ Got(viewers'[v].lines) <= worker'[viewers'[v].gen].sent
            BY <2>0, <5>3, <5>4, <6>1
          <6> QED
            BY <2>0, <3>1, <5>4, <5>5, <5>6, <6>2 DEF Shown, Sequel, Got
      <4> QED
        BY <4>3, <4>4
    <3> QED
      BY <1>2, <3>8, <3>9
  <2> QED
    BY <2>1, <2>2
<1> QED
  BY <1>3, <1>8, <1>9, <1>10, <1>11 DEF Show

LEMMA InitShows == Init => Show
BY DEF Init, Show, Owners, Channel, Order, Requests

LEMMA NextShows == IInv /\ Show /\ [Next]_vars => Show'
<1> SUFFICES ASSUME IInv, Show, [Next]_vars PROVE Show'
  OBVIOUS
<1>1. CASE Keys
  BY <1>1, KeysShow
<1>2. CASE Continue
  BY <1>2, StartShows, EndsShow DEF Continue
<1>3. CASE Receive
  BY <1>3, ReceiveShows
<1>4. ASSUME NEW g \in Requests, Work(g) PROVE Show'
  BY <1>4, WorkShows
<1>5. CASE UNCHANGED vars
  <2>1. Quiet
    BY <1>5 DEF vars, Quiet, Range
  <2> QED
    BY <2>1, QuietShows DEF IInv
<1> QED
  BY <1>1, <1>2, <1>3, <1>4, <1>5 DEF Next

-----------------------------------------------------------------------------
\* The types of the viewers, for every bound.
THEOREM TypeCorrect == Spec => []TypeOK
<1>1. IInv => TypeOK
  BY TypedIsTypeOK DEF IInv
<1> QED
  BY <1>1, InitHolds, NextKeeps, PTL DEF Spec

\* A viewer has one request that runs: a reload joins the old one first.
THEOREM OneRequest == Spec => []OneRequestEach
<1>1. IInv => OneRequestEach
  BY DEF IInv, Runs, OneRequestEach
<1> QED
  BY <1>1, InitHolds, NextKeeps, PTL DEF Spec

\* A followed log that runs has a tab, until it is cancelled.
THEOREM NoStrayStreams == Spec => []FollowersHaveTabs
<1>1. IInv => FollowersHaveTabs
  BY DEF IInv, Runs, FollowersHaveTabs
<1> QED
  BY <1>1, InitHolds, NextKeeps, PTL DEF Spec

\* No two tabs are about the same thing, however they are opened and closed.
THEOREM NoTwinTabs == Spec => []TabsDistinct
<1>1. IInv => TabsDistinct
  BY DEF IInv, Tabs
<1> QED
  BY <1>1, InitHolds, NextKeeps, PTL DEF Spec

\* A viewer shows its current request only, the last lines it has received
\* without a gap, and the whole of it when it says Complete, whatever results
\* of an earlier request are still on the channel.
THEOREM NoForeignLines == Spec => []ShowsItsRequest
<1>1. IInv /\ Show => ShowsItsRequest
  <2> SUFFICES ASSUME IInv, Show, NEW v \in DOMAIN viewers
               PROVE  LET x == viewers[v] IN
                      /\ Len(x.lines) <= LogLines
                      /\ \A i \in DOMAIN x.lines :
                            /\ x.lines[i].gen = x.gen
                            /\ i > 1 => x.lines[i].n = x.lines[i - 1].n + 1
                      /\ x.lines # <<>> /\ Len(x.lines) < LogLines => x.lines[1].n = 1
                      /\ x.done /\ x.lines # <<>> => Last(x.lines).n = worker[x.gen].sent
                      /\ x.done /\ x.lines = <<>> => worker[x.gen].sent = 0
    BY DEF ShowsItsRequest
  <2>1. Shown(v)
    BY DEF Show
  <2>2. viewers[v].done => Got(viewers[v].lines) = worker[viewers[v].gen].sent
    BY <2>1 DEF Shown, Complete
  <2> QED
    BY <2>1, <2>2 DEF Shown, Sequel, Got, Last
<1> QED
  BY <1>1, InitHolds, NextKeeps, InitShows, NextShows, PTL DEF Spec

-----------------------------------------------------------------------------
(* What StopsEnd rests on: the worker a stop waits for has been told.  It  *)
(* leaves at its next send, where the context is ready also when the       *)
(* channel is full; that it gets there is fairness, and left to TLC.       *)

Lived == \A v \in DOMAIN viewers : viewers[v].live => viewers[v].gen \in Requests

\* The worker of a viewer that is being stopped is cancelled for as long as it runs.
Told ==
    (main.stop # Nil /\ viewers[main.stop].live /\ Running(Owned(main.stop)))
        => worker[Owned(main.stop)].cancelled

\* A stop is over, or the one worker it waits for runs and is cancelled.
StopIsTold ==
    main.stop # Nil =>
        \/ Joined(main.stop)
        \/ Running(Owned(main.stop)) /\ worker[Owned(main.stop)].cancelled

LEMMA StopTells ==
    ASSUME Typed, Lived, NEW v \in DOMAIN viewers, NEW then \in {"start", "close", "exit"},
           Stop(v, then)
    PROVE  /\ main'.stop = v
           /\ viewers[v].live => worker'[Owned(v)].cancelled
<1>1. main'.stop = v
  BY DEF Stop
<1>2. ASSUME viewers[v].live PROVE worker'[Owned(v)].cancelled
  <2> DEFINE g == Owned(v)
  <2>1. g \in Requests
    BY <1>2 DEF Lived, Owned
  <2>2. worker' = [worker EXCEPT ![g].cancelled = TRUE]
    BY <1>2 DEF Stop
  <2> HIDE DEF g
  <2>3. worker[g] \in Worker /\ worker'[g] = [worker[g] EXCEPT !.cancelled = TRUE]
    BY <2>1, <2>2 DEF Typed
  <2>4. worker'[g].cancelled
    BY <2>3 DEF Worker
  <2> QED
    BY <2>4 DEF g
<1> QED
  BY <1>1, <1>2

\* Where no viewer and no stop changes, a worker stays told.
LEMMA ToldStays ==
    ASSUME Typed, Lived, Told, Fewer, Same, SameRequests, UNCHANGED main
    PROVE  Lived' /\ Told'
<1>1. Lived'
  BY DEF Lived, Same, SameRequests
<1>2. Told'
  <2> SUFFICES ASSUME main.stop # Nil, viewers'[main.stop].live,
                      worker'[viewers'[main.stop].gen].at = "run"
               PROVE  worker'[viewers'[main.stop].gen].cancelled
    BY DEF Told, Running, Owned
  <2>1. main.stop \in DOMAIN viewers
    BY DEF Typed
  <2>2. viewers[main.stop].live /\ viewers'[main.stop].gen = Owned(main.stop)
    BY <2>1 DEF SameRequests, Owned
  <2>3. Owned(main.stop) \in Requests
    BY <2>1, <2>2 DEF Lived, Owned
  <2> QED
    BY <2>2, <2>3 DEF Fewer, Told, Running
<1> QED
  BY <1>1, <1>2

LEMMA NextTold ==
    ASSUME IInv, Lived, Told, [Next]_vars
    PROVE  Lived' /\ Told'
<1>1. Typed
  BY DEF IInv
<1>2. ASSUME UNCHANGED <<viewers, worker, main>> PROVE Lived' /\ Told'
  BY <1>2 DEF Lived, Told, Running, Owned
<1>3. ASSUME NEW v \in DOMAIN viewers, NEW then \in {"start", "close", "exit"},
             Stop(v, then), UNCHANGED viewers
      PROVE  Lived' /\ Told'
  BY <1>1, <1>3, StopTells DEF Lived, Told, Owned
<1>4. ASSUME NEW kind \in Kinds, NEW t \in Targets, NEW p, New(kind, t, p)
      PROVE  Lived' /\ Told'
  <2> DEFINE n == Len(viewers) + 1
  <2>1. /\ main' = [stop |-> n, then |-> "start"]
        /\ viewers' = Append(viewers, Fresh(kind, t, p))
    BY <1>4 DEF New
  <2>2. /\ DOMAIN viewers' = 1..n /\ DOMAIN viewers = 1..Len(viewers) /\ Len(viewers) \in Nat
        /\ \A v \in DOMAIN viewers : viewers'[v] = viewers[v]
        /\ viewers'[n] = Fresh(kind, t, p)
    BY <1>1, <2>1 DEF Typed
  <2>3. ~viewers'[n].live /\ main'.stop = n
    BY <2>1, <2>2 DEF Fresh
  <2>4. Told'
    BY <2>3 DEF Told
  <2>5. \A v \in DOMAIN viewers' : v \in DOMAIN viewers \/ v = n
    BY <2>2
  <2>6. Lived'
    BY <2>2, <2>3, <2>5 DEF Lived, Requests
  <2> QED
    BY <2>4, <2>6
<1>5. CASE Keys
  <2>1. ASSUME NEW kind \in Kinds, NEW t \in Targets, Open(kind, t) PROVE Lived' /\ Told'
    <3>1. New(kind, t, Nil) \/ UNCHANGED <<viewers, worker, main>>
      BY <2>1 DEF Open
    <3> QED
      BY <1>2, <1>4, <3>1
  <2>2. CASE OpenDetail
    <3>1. view \in DOMAIN viewers /\ New("archive-detail", viewers[view].target, view)
      BY <2>2, <1>1, ViewIsViewer DEF OpenDetail
    <3>2. viewers[view].target \in Targets
      <4>1. viewers[view] \in Viewer
        BY <1>1, <3>1 DEF Typed
      <4> QED
        BY <4>1 DEF Viewer
    <3>3. "archive-detail" \in Kinds
      BY DEF Kinds, Workspace
    <3> QED
      BY <1>4, <3>1, <3>2, <3>3
  <2>3. CASE Reload
    <3>1. view \in DOMAIN viewers /\ Stop(view, "start") /\ UNCHANGED viewers
      BY <1>1, <2>3, ViewIsViewer DEF Reload
    <3> QED
      BY <1>3, <3>1
  <2>4. ASSUME NEW v \in DOMAIN viewers, Close(v) PROVE Lived' /\ Told'
    BY <1>3, <2>4 DEF Close
  <2>5. ASSUME NEW x \in DOMAIN viewers \cup {Nil, Help, Flow}, Select(x) PROVE Lived' /\ Told'
    BY <1>2, <2>5 DEF Select
  <2>6. CASE Quit
    <3>1. CASE main' = Gone /\ UNCHANGED viewers
      <4>1. main'.stop = Nil
        BY <3>1 DEF Gone
      <4> QED
        BY <3>1, <4>1 DEF Lived, Told
    <3>2. ASSUME NEW v \in Left, Stop(v, "exit"), UNCHANGED viewers PROVE Lived' /\ Told'
      BY <1>3, <3>2, LeftAreViewers DEF IInv
    <3> QED
      BY <2>6, <3>1, <3>2 DEF Quit
  <2> QED
    BY <1>5, <2>1, <2>2, <2>3, <2>4, <2>5, <2>6 DEF Keys
<1>6. ASSUME NEW v \in DOMAIN viewers, Start(v) PROVE Lived' /\ Told'
  <2> DEFINE g == generation + 1
  <2>1. main' = Loop /\ generation' = g /\ g \in Requests
    <3>1. generation \in Nat /\ generation < MaxRequests /\ MaxRequests \in Nat
      BY <1>1, <1>6, ViewersAssumption DEF Start, Typed
    <3>2. g \in Requests
      BY <3>1 DEF Requests
    <3> QED
      BY <1>6, <3>2 DEF Start, NextGeneration
  <2>2. PICK timed, built : Request(v, g, timed, built)
    BY <1>6, <2>1 DEF Start
  <2> HIDE DEF g
  <2>3. /\ DOMAIN viewers' = DOMAIN viewers
        /\ \A w \in DOMAIN viewers : w # v => viewers'[w] = viewers[w]
        /\ viewers'[v] = [viewers[v] EXCEPT !.gen = g, !.live = TRUE, !.done = ~built,
                                            !.lines = <<>>]
    BY <2>2, <1>1 DEF Request, Typed
  <2>4. viewers'[v].gen = g
    <3>1. viewers[v] \in Viewer
      BY <1>1 DEF Typed
    <3> QED
      BY <2>3, <3>1 DEF Viewer
  <2>5. Lived'
    BY <2>1, <2>3, <2>4 DEF Lived, Requests
  <2>6. Told'
    BY <2>1 DEF Told, Loop
  <2> QED
    BY <2>5, <2>6
<1>7. ASSUME NEW v \in DOMAIN viewers, Closed(v) \/ Stopped(v) PROVE Lived' /\ Told'
  <2>1. viewers' = [viewers EXCEPT ![v].live = FALSE]
    BY <1>7 DEF Closed, Stopped
  <2>2. /\ DOMAIN viewers' = DOMAIN viewers
        /\ \A w \in DOMAIN viewers : w # v => viewers'[w] = viewers[w]
        /\ ~viewers'[v].live
    <3>1. viewers[v] \in Viewer
      BY <1>1 DEF Typed
    <3>2. viewers'[v] = [viewers[v] EXCEPT !.live = FALSE]
      BY <1>1, <2>1 DEF Typed
    <3> QED
      BY <1>1, <2>1, <3>1, <3>2 DEF Typed, Viewer
  <2>3. Lived'
    BY <2>2 DEF Lived
  <2>4. CASE main' = Loop \/ main' = Gone
    <3>1. main'.stop = Nil
      BY <2>4 DEF Loop, Gone
    <3> QED
      BY <2>3, <3>1 DEF Told
  <2>5. ASSUME NEW w \in Left \ {v}, Stop(w, "exit") PROVE Lived' /\ Told'
    <3>1. w \in DOMAIN viewers /\ viewers'[w] = viewers[w]
      BY <2>2, <2>5, LeftAreViewers DEF IInv
    <3>2. main'.stop = w /\ (viewers[w].live => worker'[Owned(w)].cancelled)
      BY <1>1, <2>5, <3>1, StopTells
    <3> QED
      BY <2>3, <3>1, <3>2 DEF Told, Owned
  <2> QED
    BY <1>7, <2>4, <2>5 DEF Closed, Stopped
<1>8. CASE Receive
  BY <1>1, <1>8, ReceiveLeaves, ToldStays
<1>9. ASSUME NEW g \in Requests, Work(g) PROVE Lived' /\ Told'
  <2>1. Fewer /\ UNCHANGED <<viewers, main>>
    BY <1>9, WorkLeaves
  <2>2. Same /\ SameRequests
    BY <2>1 DEF Same, SameRequests
  <2> QED
    BY <1>1, <2>1, <2>2, ToldStays
<1>10. CASE UNCHANGED vars
  BY <1>2, <1>10 DEF vars
<1> QED
  BY <1>5, <1>6, <1>7, <1>8, <1>9, <1>10 DEF Next, Continue

\* The main goroutine, which alone receives the results, waits in v.stop only
\* for a worker whose context is cancelled: a full channel between the two
\* does not hold them both.
THEOREM StopsAreTold == Spec => []StopIsTold
<1>1. Init => Lived /\ Told
  BY DEF Init, Lived, Told, Loop
<1>2. IInv /\ Show /\ Lived /\ Told => StopIsTold
  <2> SUFFICES ASSUME IInv, Show, Lived, Told, main.stop # Nil, ~Joined(main.stop)
               PROVE  Running(Owned(main.stop)) /\ worker[Owned(main.stop)].cancelled
    BY DEF StopIsTold
  <2> DEFINE g == Owned(main.stop)
  <2>1. main.stop \in DOMAIN viewers /\ viewers[main.stop].live /\ worker[g].at # "gone"
    BY DEF IInv, Typed, Joined
  <2>2. g \in Requests /\ g = viewers[main.stop].gen /\ g # Nil
    BY <2>1, ShowTypes DEF Lived, Owned, IInv
  <2>3. worker[g].at # "off" /\ worker[g] \in Worker
    BY <2>1, <2>2, ShowTypes DEF Show, Owners, IInv
  <2>4. Running(g)
    BY <2>1, <2>3 DEF Running, Worker
  <2> QED
    BY <2>1, <2>4 DEF Told
<1>3. IInv /\ Lived /\ Told /\ [Next]_vars => Lived' /\ Told'
  BY NextTold
<1> QED
  BY <1>1, <1>2, <1>3, InitHolds, NextKeeps, InitShows, NextShows, PTL DEF Spec
=============================================================================
