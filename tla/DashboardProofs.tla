--------------------------- MODULE DashboardProofs ----------------------------
(***************************************************************************)
(* Proofs about Dashboard, for any clusters, failing lists, namespaces and *)
(* kinds: the screen is the frame, the panel shows the metrics of the pod  *)
(* it names, and a key acts on what is shown as selected.                  *)
(***************************************************************************)
EXTENDS Dashboard, SequenceTheorems, NaturalsInduction, WellFoundedInduction, TLAPS

AllKinds == Range(Kinds) \cup {"nodes"}
Places   == {All} \cup Range(Namespaces)
TreeRows == [namespace : Places, resource : {""} \cup AllKinds]
Targets  == {r.id : r \in Records} \cup {Nil}

App == [rows : [AllKinds -> Seq(Records)], namespaces : SUBSET Range(Namespaces),
        errors : Failures \cup {{}}, resource : AllKinds, namespace : Places,
        query : {"", "text"}, filter : BOOLEAN, expanded : SUBSET Places,
        treeSelected : Int, tableSelected : Int, treeFocus : BOOLEAN,
        visible : Seq(Records), searching : BOOLEAN, menu : BOOLEAN, view : BOOLEAN,
        shell : BOOLEAN, loading : BOOLEAN, paused : BOOLEAN, switching : BOOLEAN,
        panel : BOOLEAN, wide : BOOLEAN]

\* A branch of the tree is selected; rows of the table there may be none.
Sane(a) == a \in App /\ a.treeSelected \in DOMAIN tree(a)

Snapshot(v) == v.rows \in [AllKinds -> Seq(Records)] /\ v.errors \in Failures

AppTypes ==
    /\ Sane(app)
    /\ results = <<>> \/ (results = <<results[1]>> /\ Snapshot(results[1]))
    /\ dirty \in BOOLEAN /\ resized \in BOOLEAN /\ stands \in BOOLEAN

PodTypes ==
    /\ pod \in [target : Targets, busy : BOOLEAN, metrics : Targets]
    /\ requests \subseteq [pod : Targets, current : BOOLEAN]
    /\ \/ podResults = <<>>
       \/ /\ podResults = <<podResults[1]>>
          /\ podResults[1] \in [metrics : Targets, current : BOOLEAN]

Types == AppTypes /\ PodTypes

\* What is current is about the target.
Answered ==
    /\ pod.metrics \in {Nil, pod.target}
    /\ \A r \in requests : r.current => r.pod = pod.target
    /\ \A i \in DOMAIN podResults :
          podResults[i].current => podResults[i].metrics \in {Nil, pod.target}

Target(a) == IF podPanelWidth(a) > 0 THEN selected(a) ELSE Nil

\* The previous frame is on the terminal, but for what has written over it.
Painted ==
    /\ DOMAIN screen = {"top", "body"} /\ screen = [l \in DOMAIN screen |-> screen[l]]
    /\ \/ previous = <<>>
       \/ /\ previous = <<previous[1]>>
          /\ DOMAIN previous[1] = {"top", "body"}
          /\ previous[1] = [l \in DOMAIN previous[1] |-> previous[1][l]]
          /\ screen.body \in {previous[1].body, Other}
          /\ ~resized => screen.top = previous[1].top
          /\ ~resized /\ ~app.shell => screen.body = previous[1].body
    /\ app.shell => screen.body = Other

\* When nothing is left to be drawn, the screen is the frame and the panel the
\* target.
Whole == ScreenIsFrame /\ (~dirty => pod.target = Target(app))

\* The body of a dashboard that is drawn says what is selected.
Current ==
    screen.body # Other =>
        /\ app.switching => screen.body = <<"switching">>
        /\ screen.body # <<"switching">> =>
              /\ stands /\ Acts(app) => Selection(app) = screen.body[1]
              /\ screen.body[4] # <<>> => screen.body[4][2] \in {Nil, screen.body[4][1]}

IInv == Types /\ Answered /\ Painted /\ Whole /\ Current

-----------------------------------------------------------------------------
(* Sequences.                                                              *)

Less == OpToRel(<, Nat)

LEMMA LeastExists ==
    ASSUME NEW S \in SUBSET Nat, S # {}
    PROVE  \E m \in S : \A i \in S : m <= i
<1>1. PICK m \in S : \A i \in S : <<i, m>> \notin Less
  BY NatLessThanWellFounded, WFMin DEF Less
<1>2. ASSUME NEW i \in S PROVE m <= i
  <2>1. <<i, m>> \in Nat \X Nat /\ <<i, m>>[1] = i /\ <<i, m>>[2] = m
    OBVIOUS
  <2>2. ~(i < m)
    BY <1>1, <2>1 DEF Less, OpToRel
  <2> QED
    BY <2>2
<1> QED
  BY <1>2

\* The first element that passes a test, if one does.
LEMMA FirstOf ==
    ASSUME NEW S \in SUBSET Nat, S # {}
    PROVE  Min(S) \in S
BY LeastExists DEF Min

\* A flattened sequence, and its beginnings.
Begins(f, ss, n) ==
    \A i \in 1..n : f[i] = IF i = 1 THEN ss[i] ELSE f[i - 1] \o ss[i]

LEMMA BeginsExists ==
    ASSUME NEW T, NEW ss \in Seq(Seq(T)), NEW n \in 0..Len(ss)
    PROVE  \E f \in [1..n -> Seq(T)] : Begins(f, ss, n)
<1> DEFINE Has(k) == \E f \in [1..k -> Seq(T)] : Begins(f, ss, k)
           Bad == {k \in 0..Len(ss) : ~Has(k)}
<1>0. Len(ss) \in Nat /\ \A i \in 1..Len(ss) : ss[i] \in Seq(T)
  OBVIOUS
<1> HIDE DEF Has
<1>1. SUFFICES ASSUME Bad # {} PROVE FALSE
  BY DEF Has
<1>2. PICK k \in Bad : \A i \in Bad : k <= i
  <2>1. Bad \in SUBSET Nat
    BY <1>0
  <2> QED
    BY <1>1, <2>1, LeastExists
<1>3. CASE k = 0
  <2>1. [i \in 1..0 |-> <<>>] \in [1..0 -> Seq(T)] /\ 1..0 = {}
    OBVIOUS
  <2>2. Has(0)
    BY <2>1 DEF Begins, Has
  <2> QED
    BY <1>2, <1>3, <2>2
<1>4. CASE k # 0
  <2>1. k - 1 \in 0..Len(ss) /\ k \in 1..Len(ss) /\ k - 1 \notin Bad
    BY <1>0, <1>2, <1>4
  <2>2. PICK f \in [1..(k - 1) -> Seq(T)] : Begins(f, ss, k - 1)
    BY <2>1 DEF Has
  <2> DEFINE g == [i \in 1..k |-> IF i = k THEN IF k = 1 THEN ss[k] ELSE f[k - 1] \o ss[k]
                                  ELSE f[i]]
  <2>3. \A i \in 1..k : i = k \/ (i \in 1..(k - 1) /\ i # k)
    BY <1>0, <2>1
  <2>4. \A i \in 1..k : i # 1 => i - 1 \in 1..(k - 1) /\ i - 1 # k
    BY <1>0, <2>1
  <2>5. g \in [1..k -> Seq(T)]
    <3> SUFFICES ASSUME NEW i \in 1..k PROVE g[i] \in Seq(T)
      OBVIOUS
    <3>1. CASE i = k
      <4>1. ss[k] \in Seq(T) /\ (k # 1 => f[k - 1] \in Seq(T))
        BY <1>0, <2>1, <2>2, <2>4
      <4> QED
        BY <3>1, <4>1
    <3>2. CASE i # k
      BY <2>2, <2>3, <3>2
    <3> QED
      BY <3>1, <3>2
  <2>6. Begins(g, ss, k)
    <3> SUFFICES ASSUME NEW i \in 1..k
                 PROVE  g[i] = IF i = 1 THEN ss[i] ELSE g[i - 1] \o ss[i]
      BY DEF Begins
    <3>1. i # 1 => g[i - 1] = f[i - 1]
      BY <2>3, <2>4
    <3>2. CASE i = k
      BY <3>1, <3>2
    <3>3. CASE i # k
      <4>1. i \in 1..(k - 1) /\ g[i] = f[i]
        BY <2>3, <3>3
      <4>2. f[i] = IF i = 1 THEN ss[i] ELSE f[i - 1] \o ss[i]
        BY <2>2, <4>1 DEF Begins
      <4> QED
        BY <3>1, <4>1, <4>2
    <3> QED
      BY <3>2, <3>3
  <2> HIDE DEF g
  <2>7. Has(k)
    BY <2>5, <2>6 DEF Has
  <2> QED
    BY <1>2, <2>7
<1> QED
  BY <1>3, <1>4

LEMMA FlattenBegins ==
    ASSUME NEW T, NEW ss \in Seq(Seq(T)), Len(ss) # 0
    PROVE  \E f \in [1..Len(ss) -> Seq(T)] :
              Begins(f, ss, Len(ss)) /\ FlattenSeq(ss) = f[Len(ss)]
<1> DEFINE n == Len(ss)
           P(f) == f = [i \in 1..n |-> IF i = 1 THEN ss[i] ELSE f[i - 1] \o ss[i]]
           c == CHOOSE f : P(f)
<1>0. n \in Nat /\ n \in 1..n /\ n \in 0..n
  OBVIOUS
<1>1. FlattenSeq(ss) = c[n]
  BY DEF FlattenSeq
<1>2. PICK f \in [1..n -> Seq(T)] : Begins(f, ss, n)
  BY <1>0, BeginsExists
<1>3. P(f)
  BY <1>2 DEF Begins
<1>4. P(c)
  BY <1>3
<1> HIDE DEF c
<1>5. \A i \in 1..n : c[i] = IF i = 1 THEN ss[i] ELSE c[i - 1] \o ss[i]
  BY <1>4
<1> HIDE DEF P, n
<1>6. c[n] = f[n]
  <2> DEFINE Bad == {i \in 1..n : c[i] # f[i]}
  <2>0. Bad \in SUBSET Nat
    BY <1>0
  <2>1. SUFFICES ASSUME Bad # {} PROVE FALSE
    <3>1. Bad = {} => n \notin Bad
      OBVIOUS
    <3> QED
      BY <1>0, <3>1
  <2>2. PICK i \in Bad : \A j \in Bad : i <= j
    BY <2>0, <2>1, LeastExists
  <2>3. i \in 1..n /\ f[i] = IF i = 1 THEN ss[i] ELSE f[i - 1] \o ss[i]
    BY <1>2 DEF Begins
  <2>4. i # 1 => i - 1 \in 1..n /\ i - 1 \notin Bad
    BY <1>0, <2>2
  <2> QED
    BY <1>5, <2>2, <2>3, <2>4
<1> QED
  BY <1>1, <1>2, <1>6 DEF n

LEMMA FlattenIsSeq ==
    ASSUME NEW T, NEW ss \in Seq(Seq(T))
    PROVE  FlattenSeq(ss) \in Seq(T)
<1>1. CASE Len(ss) = 0
  BY <1>1 DEF FlattenSeq
<1>2. CASE Len(ss) # 0
  <2>1. PICK f \in [1..Len(ss) -> Seq(T)] : FlattenSeq(ss) = f[Len(ss)]
    BY <1>2, FlattenBegins
  <2>2. Len(ss) \in 1..Len(ss)
    BY <1>2
  <2> QED
    BY <2>1, <2>2
<1> QED
  BY <1>1, <1>2

\* A part is exchanged for one that keeps its first element: the element row,
\* which only that part has, and has first, keeps its place.
Exchanges(pa, pb, q, row) ==
    /\ \A m \in 1..Len(pa) : m # q =>
          pa[m] = pb[m] /\ \A j \in DOMAIN pa[m] : pa[m][j] # row
    /\ \A j \in DOMAIN pa[q] : pa[q][j] = row => j = 1 /\ Len(pb[q]) >= 1

LEMMA FlattenKeepsPlace ==
    ASSUME NEW T, NEW pa \in Seq(Seq(T)), NEW pb \in Seq(Seq(T)), Len(pa) = Len(pb),
           NEW row, NEW q \in 1..Len(pa), Exchanges(pa, pb, q, row),
           NEW i \in DOMAIN FlattenSeq(pa), FlattenSeq(pa)[i] = row
    PROVE  i \in DOMAIN FlattenSeq(pb)
<1> USE DEF Exchanges
<1> DEFINE n == Len(pa)
<1>0. /\ n \in Nat /\ n \in 1..n /\ n # 0 /\ Len(pa) = n /\ Len(pb) = n
      /\ \A m \in 1..n : pa[m] \in Seq(T) /\ pb[m] \in Seq(T)
  OBVIOUS
<1> HIDE DEF n
<1>1. PICK f \in [1..n -> Seq(T)] : Begins(f, pa, n) /\ FlattenSeq(pa) = f[n]
  <2>1. \E f \in [1..Len(pa) -> Seq(T)] :
           Begins(f, pa, Len(pa)) /\ FlattenSeq(pa) = f[Len(pa)]
    BY <1>0, FlattenBegins
  <2> QED
    BY <1>0, <2>1
<1>2. PICK g \in [1..n -> Seq(T)] : Begins(g, pb, n) /\ FlattenSeq(pb) = g[n]
  <2>1. \E g \in [1..Len(pb) -> Seq(T)] :
           Begins(g, pb, Len(pb)) /\ FlattenSeq(pb) = g[Len(pb)]
    BY <1>0, FlattenBegins
  <2> QED
    BY <1>0, <2>1
<1>3. \A m \in 1..n : /\ f[m] = IF m = 1 THEN pa[m] ELSE f[m - 1] \o pa[m]
                      /\ g[m] = IF m = 1 THEN pb[m] ELSE g[m - 1] \o pb[m]
                      /\ f[m] \in Seq(T) /\ g[m] \in Seq(T)
                      /\ m # 1 => m - 1 \in 1..n
  <2>1. \A m \in 1..n : m # 1 => m - 1 \in 1..n
    BY <1>0
  <2> QED
    BY <1>1, <1>2, <2>1 DEF Begins
<1>4. ASSUME NEW m \in 1..n, m < q PROVE f[m] = g[m]
  <2> DEFINE Bad == {x \in 1..n : x < q /\ f[x] # g[x]}
  <2>0. Bad \in SUBSET Nat
    BY <1>0
  <2>1. SUFFICES ASSUME Bad # {} PROVE FALSE
    BY <1>4
  <2>2. PICK x \in Bad : \A y \in Bad : x <= y
    BY <2>0, <2>1, LeastExists
  <2>3. x \in 1..n /\ x < q /\ pa[x] = pb[x] /\ f[x] # g[x]
    BY <1>0, <2>2
  <2>4. x # 1 => x - 1 \in 1..n /\ x - 1 < q /\ ~(x <= x - 1)
    BY <1>0, <2>3
  <2>5. x # 1 => f[x - 1] = g[x - 1]
    <3> SUFFICES ASSUME x # 1, f[x - 1] # g[x - 1] PROVE FALSE
      OBVIOUS
    <3>1. x - 1 \in Bad
      BY <2>4
    <3> QED
      BY <2>2, <2>4, <3>1
  <2>6. /\ f[x] = IF x = 1 THEN pa[x] ELSE f[x - 1] \o pa[x]
        /\ g[x] = IF x = 1 THEN pa[x] ELSE g[x - 1] \o pa[x]
    BY <1>3, <2>3
  <2>7. CASE x = 1
    BY <2>3, <2>6, <2>7
  <2>8. CASE x # 1
    BY <2>3, <2>5, <2>6, <2>8
  <2> QED
    BY <2>7, <2>8
<1> DEFINE Keeps(m) == \A j \in DOMAIN f[m] : f[m][j] = row => j \in DOMAIN g[m]
<1>5. ASSUME NEW m \in 1..n, m > 1 => Keeps(m - 1) PROVE Keeps(m)
  <2> SUFFICES ASSUME NEW j \in DOMAIN f[m], f[m][j] = row PROVE j \in DOMAIN g[m]
    OBVIOUS
  <2>0. m \in Nat /\ q \in Nat /\ q \in 1..n /\ f[m] \in Seq(T) /\ g[m] \in Seq(T)
        /\ pa[m] \in Seq(T) /\ pb[m] \in Seq(T)
    BY <1>0, <1>3
  <2>1. CASE m = 1
    <3>1. f[m] = pa[m] /\ g[m] = pb[m]
      BY <1>3, <2>1
    <3>2. CASE m = q
      <4>1. j = 1 /\ Len(pb[m]) >= 1
        BY <3>1, <3>2
      <4> QED
        BY <2>0, <3>1, <4>1
    <3>3. CASE m # q
      BY <1>0, <3>1, <3>3
    <3> QED
      BY <3>2, <3>3
  <2>2. CASE m # 1
    <3> DEFINE u == f[m - 1]
               w == g[m - 1]
    <3>1. /\ m - 1 \in 1..n /\ u \in Seq(T) /\ w \in Seq(T)
          /\ f[m] = u \o pa[m] /\ g[m] = w \o pb[m]
      BY <1>3, <2>2
    <3> HIDE DEF u, w
    <3>a. /\ DOMAIN f[m] = 1..(Len(u) + Len(pa[m])) /\ Len(u) \in Nat /\ Len(pa[m]) \in Nat
          /\ DOMAIN u = 1..Len(u) /\ DOMAIN w = 1..Len(w) /\ DOMAIN pa[m] = 1..Len(pa[m])
      <4> DEFINE s == pa[m]
      <4>1. s \in Seq(T) /\ u \in Seq(T) /\ w \in Seq(T)
        BY <2>0, <3>1
      <4> HIDE DEF s
      <4>2. Len(u \o s) = Len(u) + Len(s) /\ u \o s \in Seq(T)
        BY <4>1
      <4>3. DOMAIN (u \o s) = 1..(Len(u) + Len(s))
        BY <4>2
      <4>4. /\ Len(u) \in Nat /\ Len(s) \in Nat
            /\ DOMAIN u = 1..Len(u) /\ DOMAIN w = 1..Len(w) /\ DOMAIN s = 1..Len(s)
        BY <4>1
      <4> QED
        BY <3>1, <4>3, <4>4 DEF s
    <3>2. j \in 1..Len(u) \/ (j - Len(u) \in 1..Len(pa[m]) /\ j > Len(u))
      <4>1. \A x, y \in Nat : \A z \in 1..(x + y) : z \in 1..x \/ (z - x \in 1..y /\ z > x)
        OBVIOUS
      <4>2. j \in 1..(Len(u) + Len(pa[m])) /\ Len(u) \in Nat /\ Len(pa[m]) \in Nat
        BY <3>a
      <4> QED
        BY <4>1, <4>2
    <3>3. j \in Nat /\ j >= 1 /\ Len(u) \in Nat /\ Len(w) \in Nat /\ Len(pb[m]) \in Nat
          /\ DOMAIN g[m] = 1..(Len(w) + Len(pb[m]))
      <4>1. j \in Nat /\ j >= 1 /\ Len(u) \in Nat
        BY <3>2, <3>a
      <4> DEFINE s == pb[m]
      <4>2. s \in Seq(T) /\ w \in Seq(T) /\ g[m] = w \o s
        BY <2>0, <3>1
      <4> HIDE DEF s
      <4>3. w \o s \in Seq(T) /\ Len(w \o s) = Len(w) + Len(s) /\ Len(w) \in Nat /\ Len(s) \in Nat
        BY <4>2
      <4>4. DOMAIN (w \o s) = 1..(Len(w) + Len(s))
        BY <4>3
      <4> QED
        BY <4>1, <4>2, <4>3, <4>4 DEF s
    <3>4. CASE j \in 1..Len(u)
      <4>1. u[j] = row /\ j \in DOMAIN u
        BY <2>0, <3>1, <3>4
      <4>2. m > 1
        BY <2>0, <2>2
      <4>3. j \in DOMAIN w
        BY <1>5, <4>1, <4>2 DEF u, w
      <4> QED
        BY <3>a, <3>3, <4>3
    <3>5. CASE j - Len(u) \in 1..Len(pa[m]) /\ j > Len(u)
      <4>1. pa[m][j - Len(u)] = row /\ j - Len(u) \in DOMAIN pa[m]
        <5> DEFINE s == pa[m]
        <5>1. s \in Seq(T) /\ u \in Seq(T)
          BY <2>0, <3>1
        <5>2. (u \o s)[j] = row /\ j - Len(u) \in 1..Len(s) /\ j > Len(u) /\ j \in Nat
          BY <3>1, <3>3, <3>5
        <5> HIDE DEF s
        <5>3. s[j - Len(u)] = (u \o s)[j] /\ j - Len(u) \in DOMAIN s
          <6>1. PICK x \in 1..Len(s) : x = j - Len(u)
            BY <5>2
          <6>2. (u \o s)[Len(u) + x] = s[x] /\ x \in DOMAIN s /\ Len(u) \in Nat
            BY <5>1
          <6>3. j = Len(u) + x
            BY <5>2, <6>1, <6>2
          <6> QED
            BY <6>1, <6>2, <6>3
        <5> QED
          BY <5>2, <5>3 DEF s
      <4>2. m = q
        BY <1>0, <4>1
      <4>3. j - Len(u) = 1 /\ Len(pb[m]) >= 1
        BY <4>1, <4>2
      <4>4. u = w
        <5>1. m - 1 < q
          BY <2>0, <4>2
        <5> QED
          BY <1>4, <3>1, <5>1 DEF u, w
      <4> QED
        BY <3>3, <4>3, <4>4
    <3> QED
      BY <3>2, <3>4, <3>5
  <2> QED
    BY <2>1, <2>2
<1> HIDE DEF Keeps
<1>6. Keeps(n)
  <2> DEFINE Bad == {x \in 1..n : ~Keeps(x)}
  <2>0. Bad \in SUBSET Nat
    BY <1>0
  <2>1. SUFFICES ASSUME Bad # {} PROVE FALSE
    BY <1>0
  <2>2. PICK x \in Bad : \A y \in Bad : x <= y
    BY <2>0, <2>1, LeastExists
  <2>3. x > 1 => x - 1 \in 1..n /\ ~(x <= x - 1)
    BY <1>0
  <2> QED
    BY <1>5, <2>2, <2>3
<1> QED
  BY <1>1, <1>2, <1>6 DEF Keeps

LEMMA FunIsSeq ==
    ASSUME NEW T, NEW n \in Nat, NEW f \in [1..n -> T]
    PROVE  f \in Seq(T) /\ Len(f) = n
<1>1. f \in Seq(T)
  OBVIOUS
<1>2. DOMAIN f = 1..n /\ DOMAIN f = 1..Len(f) /\ Len(f) \in Nat
  BY <1>1
<1> QED
  BY <1>1, <1>2

LEMMA SeqOfMore ==
    ASSUME NEW S, NEW T, S \subseteq T, NEW s \in Seq(S)
    PROVE  s \in Seq(T)
<1>1. Len(s) \in Nat /\ s \in [1..Len(s) -> T]
  <2>1. Len(s) \in Nat /\ DOMAIN s = 1..Len(s) /\ s \in [1..Len(s) -> S]
    BY LenProperties
  <2> QED
    BY <2>1
<1> QED
  BY <1>1, FunIsSeq

Joins(T, s, t, c) ==
    /\ c \in Seq(T) /\ Len(c) = Len(s) + Len(t)
    /\ Len(s) \in Nat /\ Len(t) \in Nat /\ DOMAIN c = 1..(Len(s) + Len(t))
    /\ \A i \in 1..Len(s) : c[i] = s[i]
    /\ \A i \in 1..Len(t) : c[Len(s) + i] = t[i]

LEMMA ConcatFacts ==
    ASSUME NEW T, NEW s \in Seq(T), NEW t \in Seq(T)
    PROVE  Joins(T, s, t, s \o t)
<1>1. /\ s \o t \in Seq(T) /\ Len(s \o t) = Len(s) + Len(t)
      /\ Len(s) \in Nat /\ Len(t) \in Nat /\ DOMAIN (s \o t) = 1..(Len(s) + Len(t))
  OBVIOUS
<1>2. \A i \in 1..Len(s) : (s \o t)[i] = s[i]
  OBVIOUS
<1>3. ASSUME NEW i \in 1..Len(t) PROVE (s \o t)[Len(s) + i] = t[i]
  <2>1. Len(s) + i \in 1..(Len(s) + Len(t)) /\ Len(s) + i > Len(s) /\ (Len(s) + i) - Len(s) = i
    BY <1>1
  <2> QED
    BY <2>1
<1> QED
  BY <1>1, <1>2, <1>3 DEF Joins

LEMMA SingleFacts ==
    ASSUME NEW T, NEW x \in T
    PROVE  <<x>> \in Seq(T) /\ Len(<<x>>) = 1 /\ <<x>>[1] = x
OBVIOUS

-----------------------------------------------------------------------------
(* The tree.                                                               *)

KindRows(S) == [namespace : S, resource : {""} \cup Range(Kinds)]

LEMMA ConstantFacts ==
    /\ Namespaces \in Seq(STRING) /\ DOMAIN Namespaces = 1..Len(Namespaces)
    /\ Len(Namespaces) \in Nat
    /\ \A i \in DOMAIN Namespaces : Namespaces[i] \in Range(Namespaces) /\ Namespaces[i] # All
    /\ \A ns \in Range(Namespaces) : \E i \in DOMAIN Namespaces : Namespaces[i] = ns
    /\ DOMAIN Kinds = 1..Len(Kinds) /\ Len(Kinds) \in Nat /\ Len(Kinds) >= 1
    /\ \A i \in DOMAIN Kinds : Kinds[i] \in Range(Kinds) /\ Kinds[i] # ""
<1>1. \E i \in DOMAIN Kinds : Kinds[i] = "pods"
  BY NavigationAssumption DEF Range
<1>2. Kinds \in Seq(STRING) /\ Namespaces \in Seq(STRING)
  BY NavigationAssumption
<1>3. \A i \in DOMAIN Kinds : Kinds[i] \in Range(Kinds)
  BY DEF Range
<1>4. \A i \in DOMAIN Namespaces : Namespaces[i] \in Range(Namespaces)
  BY DEF Range
<1>5. \A ns \in Range(Namespaces) : \E i \in DOMAIN Namespaces : Namespaces[i] = ns
  BY DEF Range
<1>6. /\ DOMAIN Kinds = 1..Len(Kinds) /\ Len(Kinds) \in Nat
      /\ DOMAIN Namespaces = 1..Len(Namespaces) /\ Len(Namespaces) \in Nat
  BY <1>2
<1>7. \A i \in DOMAIN Namespaces : Namespaces[i] # All
  BY <1>4, NavigationAssumption
<1>8. \A i \in DOMAIN Kinds : Kinds[i] # ""
  BY <1>3, NavigationAssumption
<1>9. Len(Kinds) >= 1
  BY <1>1, <1>6
<1> QED
  BY <1>2, <1>3, <1>4, <1>5, <1>6, <1>7, <1>8, <1>9

LEMMA BranchFacts ==
    ASSUME NEW a, NEW ns
    PROVE  /\ Branch(a, ns) \in Seq(KindRows({ns})) /\ Len(Branch(a, ns)) >= 1
           /\ Branch(a, ns)[1] = Row(ns, "")
           /\ \A j \in DOMAIN Branch(a, ns) : Branch(a, ns)[j].resource = "" => j = 1
           /\ ns \in a.expanded => Len(Branch(a, ns)) = 1 + Len(Kinds)
<1> DEFINE T == KindRows({ns})
           s == [i \in DOMAIN Kinds |-> Row(ns, Kinds[i])]
<1>1. Row(ns, "") \in T /\ \A i \in DOMAIN Kinds : Row(ns, Kinds[i]) \in T /\ Row(ns, Kinds[i]).resource # ""
  BY ConstantFacts DEF Row, KindRows
<1>2. s \in Seq(T) /\ Len(s) = Len(Kinds) /\ \A i \in 1..Len(s) : s[i].resource # ""
  <2>1. DOMAIN s = 1..Len(Kinds)
    BY ConstantFacts
  <2>2. \A i \in 1..Len(Kinds) : s[i] \in T /\ s[i].resource # ""
    BY <1>1, ConstantFacts
  <2>3. s = [i \in 1..Len(Kinds) |-> s[i]]
    BY <2>1
  <2> HIDE DEF s, T
  <2>4. s \in Seq(T) /\ Len(s) = Len(Kinds)
    <3>1. s \in [1..Len(Kinds) -> T]
      BY <2>2, <2>3
    <3> QED
      BY <3>1, ConstantFacts, FunIsSeq
  <2> QED
    BY <2>2, <2>4
<1> DEFINE t == IF ns \in a.expanded THEN s ELSE <<>>
<1>3. t \in Seq(T) /\ (\A i \in 1..Len(t) : t[i].resource # "")
      /\ (ns \in a.expanded => Len(t) = Len(Kinds))
  <2> HIDE DEF s, T
  <2>1. <<>> \in Seq(T) /\ Len(<<>>) = 0
    OBVIOUS
  <2>2. CASE ns \in a.expanded
    BY <1>2, <2>2
  <2>3. CASE ns \notin a.expanded
    BY <2>1, <2>3
  <2> QED
    BY <2>2, <2>3
<1>4. Branch(a, ns) = <<Row(ns, "")>> \o t
  BY DEF Branch
<1> HIDE DEF t, T
<1>5. <<Row(ns, "")>> \in Seq(T) /\ Len(<<Row(ns, "")>>) = 1
  BY <1>1, SingleFacts
<1> DEFINE r == Row(ns, "")
           h == <<r>>
           b == h \o t
<1>6. h \in Seq(T) /\ Len(h) = 1 /\ h[1] = r /\ Branch(a, ns) = b
  BY <1>4, <1>5 DEF Row
<1> HIDE DEF h, r
<1>7. Joins(T, h, t, b)
  BY <1>3, <1>6, ConcatFacts
<1> HIDE DEF b
<1>8. /\ b \in Seq(T) /\ Len(b) = 1 + Len(t) /\ Len(t) \in Nat /\ DOMAIN b = 1..(1 + Len(t))
      /\ b[1] = r /\ \A i \in 1..Len(t) : b[1 + i] = t[i]
  BY <1>6, <1>7 DEF Joins
<1>9. ASSUME NEW j \in DOMAIN b, b[j].resource = "" PROVE j = 1
  <2>1. SUFFICES ASSUME j # 1 PROVE FALSE
    OBVIOUS
  <2>2. j - 1 \in 1..Len(t) /\ 1 + (j - 1) = j
    BY <1>8, <2>1
  <2>3. b[j] = t[j - 1]
    BY <1>8, <2>2
  <2> QED
    BY <1>3, <1>9, <2>2, <2>3
<1>10. Len(b) >= 1
  BY <1>8
<1> QED
  BY <1>3, <1>6, <1>8, <1>9, <1>10 DEF T, r, Row

Parts(a) == [i \in DOMAIN Namespaces |->
               IF Namespaces[i] \in a.namespaces THEN Branch(a, Namespaces[i]) ELSE <<>>]

LEMMA PartsFacts ==
    ASSUME NEW a
    PROVE  /\ Parts(a) \in Seq(Seq(KindRows(Range(Namespaces)))) /\ Len(Parts(a)) = Len(Namespaces)
           /\ FlattenSeq(Parts(a)) \in Seq(KindRows(Range(Namespaces)))
<1> DEFINE T == KindRows(Range(Namespaces))
           p == Parts(a)
<1>1. ASSUME NEW i \in 1..Len(Namespaces) PROVE p[i] \in Seq(T)
  <2>1. Branch(a, Namespaces[i]) \in Seq(KindRows({Namespaces[i]}))
    BY BranchFacts
  <2>2. Seq(KindRows({Namespaces[i]})) \subseteq Seq(T)
    <3>1. KindRows({Namespaces[i]}) \subseteq T
      BY ConstantFacts DEF KindRows
    <3> HIDE DEF T
    <3> QED
      BY <3>1, SeqOfMore
  <2>3. <<>> \in Seq(T)
    OBVIOUS
  <2> HIDE DEF T
  <2> QED
    BY <2>1, <2>2, <2>3, ConstantFacts DEF Parts
<1>2. DOMAIN p = 1..Len(Namespaces) /\ p = [i \in 1..Len(Namespaces) |-> p[i]]
  BY ConstantFacts DEF Parts
<1> HIDE DEF p, T
<1>3. p \in Seq(Seq(T)) /\ Len(p) = Len(Namespaces)
  <2>1. p \in [1..Len(Namespaces) -> Seq(T)]
    BY <1>1, <1>2
  <2> QED
    BY <2>1, ConstantFacts, FunIsSeq
<1> QED
  BY <1>3, FlattenIsSeq DEF T, p

LEMMA TreeFacts ==
    ASSUME NEW a
    PROVE  /\ tree(a) = <<Row(All, "nodes")>> \o Branch(a, All) \o FlattenSeq(Parts(a))
           /\ tree(a) \in Seq(TreeRows)
           /\ Len(tree(a)) = 1 + Len(Branch(a, All)) + Len(FlattenSeq(Parts(a)))
           /\ tree(a)[1].resource # ""
           /\ \A i \in 1..Len(Branch(a, All)) : tree(a)[1 + i] = Branch(a, All)[i]
           /\ \A i \in 1..Len(FlattenSeq(Parts(a))) :
                 tree(a)[1 + Len(Branch(a, All)) + i] = FlattenSeq(Parts(a))[i]
<1> DEFINE T == TreeRows
           n == <<Row(All, "nodes")>>
           b == Branch(a, All)
           f == FlattenSeq(Parts(a))
<1>1. n \in Seq(T) /\ Len(n) = 1 /\ n[1].resource # ""
  <2>1. Row(All, "nodes") \in T /\ Row(All, "nodes").resource # ""
    BY DEF Row, TreeRows, Places, AllKinds
  <2> HIDE DEF T
  <2> QED
    BY <2>1, SingleFacts
<1>2. b \in Seq(T)
  <2>1. KindRows({All}) \subseteq T
    BY DEF KindRows, TreeRows, Places, AllKinds
  <2>2. b \in Seq(KindRows({All}))
    BY BranchFacts
  <2> HIDE DEF b, T
  <2> QED
    BY <2>1, <2>2, SeqOfMore
<1>3. f \in Seq(T)
  <2>1. KindRows(Range(Namespaces)) \subseteq T
    BY DEF KindRows, TreeRows, Places, AllKinds
  <2>2. f \in Seq(KindRows(Range(Namespaces)))
    BY PartsFacts
  <2> HIDE DEF f, T
  <2> QED
    BY <2>1, <2>2, SeqOfMore
<1>4. tree(a) = n \o b \o f
  BY DEF tree, Parts
<1> HIDE DEF n, b, f, T
<1> DEFINE nb == n \o b
<1>a. Len(n) = 1
  BY <1>1
<1>5. Joins(T, n, b, nb)
  BY <1>1, <1>2, ConcatFacts
<1> HIDE DEF nb
<1>6. /\ nb \in Seq(T) /\ Len(nb) = 1 + Len(b) /\ Len(b) \in Nat
      /\ nb[1] = n[1] /\ \A i \in 1..Len(b) : nb[1 + i] = b[i]
  BY <1>a, <1>5 DEF Joins
<1> DEFINE t == nb \o f
<1>7. Joins(T, nb, f, t)
  BY <1>3, <1>6, ConcatFacts
<1> HIDE DEF t
<1>8. /\ t \in Seq(T) /\ Len(t) = 1 + Len(b) + Len(f) /\ Len(f) \in Nat
      /\ \A i \in 1..(1 + Len(b)) : t[i] = nb[i]
      /\ \A i \in 1..Len(f) : t[1 + Len(b) + i] = f[i]
  BY <1>6, <1>7 DEF Joins
<1>9. 1 \in 1..(1 + Len(b)) /\ \A i \in 1..Len(b) : 1 + i \in 1..(1 + Len(b))
  BY <1>6
<1>10. t[1].resource # "" /\ \A i \in 1..Len(b) : t[1 + i] = b[i]
  BY <1>1, <1>6, <1>8, <1>9
<1>11. tree(a) = t
  BY <1>4 DEF t, nb
<1> QED
  BY <1>4, <1>8, <1>10, <1>11 DEF n, b, f, T

LEMMA TreeSame ==
    ASSUME NEW a, NEW b, a.namespaces = b.namespaces, a.expanded = b.expanded
    PROVE  tree(a) = tree(b)
<1>1. \A ns : Branch(a, ns) = Branch(b, ns)
  BY DEF Branch
<1>2. Parts(a) = Parts(b)
  BY <1>1 DEF Parts
<1> DEFINE n == <<Row(All, "nodes")>>
<1>3. \A x : tree(x) = n \o Branch(x, All) \o FlattenSeq(Parts(x))
  BY DEF tree, Parts
<1> HIDE DEF n
<1> QED
  BY <1>1, <1>2, <1>3

\* The clamped selections are inside the tree and the table.
LEMMA ClampFacts ==
    ASSUME NEW n \in Int, NEW most \in Nat
    PROVE  /\ Clamp(n, most) \in Int
           /\ most > 0 => Clamp(n, most) \in 1..most
           /\ n \in 1..most => Clamp(n, most) = n
BY DEF Clamp

LEMMA EditKeeps ==
    ASSUME NEW a, Sane(a), NEW b \in App, b.namespaces = a.namespaces,
           b.expanded = a.expanded, b.treeSelected = a.treeSelected
    PROVE  Sane(b)
BY TreeSame DEF Sane

\* Whose rows, branches and selections may differ.
Alike(a, b) ==
    /\ b.shell = a.shell /\ b.switching = a.switching /\ b.menu = a.menu
    /\ b.searching = a.searching /\ b.view = a.view /\ b.treeFocus = a.treeFocus

LEMMA TreeLen ==
    ASSUME NEW a
    PROVE  /\ Len(tree(a)) \in Nat /\ Len(tree(a)) >= 2 /\ DOMAIN tree(a) = 1..Len(tree(a))
           /\ \A i \in DOMAIN tree(a) : tree(a)[i] \in TreeRows
<1> DEFINE t == tree(a)
           b == Branch(a, All)
           f == FlattenSeq(Parts(a))
<1>1. b \in Seq(KindRows({All})) /\ Len(b) >= 1
  BY BranchFacts
<1>2. f \in Seq(KindRows(Range(Namespaces)))
  BY PartsFacts
<1>3. t \in Seq(TreeRows) /\ Len(t) = 1 + Len(b) + Len(f)
  BY TreeFacts
<1> HIDE DEF t, b, f
<1>4. Len(b) \in Nat /\ Len(f) \in Nat /\ Len(t) \in Nat /\ DOMAIN t = 1..Len(t)
  BY <1>1, <1>2, <1>3, LenProperties
<1> QED
  BY <1>1, <1>3, <1>4 DEF t

LEMMA ClampSelectionKeeps ==
    ASSUME NEW a \in App
    PROVE  LET b == clampSelection(a)
           IN  /\ Sane(b) /\ Alike(a, b)
               /\ b.namespaces = a.namespaces /\ b.expanded = a.expanded /\ b.visible = a.visible
               /\ b.treeSelected = Clamp(a.treeSelected, Len(tree(a)))
               /\ b.tableSelected = Clamp(a.tableSelected, Len(a.visible))
<1> DEFINE n == Clamp(a.treeSelected, Len(tree(a)))
           m == Clamp(a.tableSelected, Len(a.visible))
           b == [a EXCEPT !.treeSelected = n, !.tableSelected = m]
<1>1. clampSelection(a) = b
  BY DEF clampSelection
<1>2. a.treeSelected \in Int /\ a.tableSelected \in Int /\ Len(a.visible) \in Nat
  <2>1. a.visible \in Seq(Records) /\ a.treeSelected \in Int /\ a.tableSelected \in Int
    BY DEF App
  <2> QED
    BY <2>1
<1>3. n \in DOMAIN tree(a) /\ n \in Int /\ m \in Int
  <2>1. Len(tree(a)) \in Nat /\ Len(tree(a)) > 0 /\ DOMAIN tree(a) = 1..Len(tree(a))
    BY TreeLen
  <2>2. n \in Int /\ n \in 1..Len(tree(a))
    BY <1>2, <2>1, ClampFacts
  <2>3. m \in Int
    BY <1>2, ClampFacts
  <2> QED
    BY <2>1, <2>2, <2>3
<1> HIDE DEF n, m
<1>4. /\ b \in App /\ Alike(a, b)
      /\ b.namespaces = a.namespaces /\ b.expanded = a.expanded /\ b.visible = a.visible
      /\ b.treeSelected = n /\ b.tableSelected = m
  BY <1>3 DEF App, Alike
<1> HIDE DEF b
<1>5. Sane(b)
  BY <1>3, <1>4, TreeSame DEF Sane
<1> QED
  BY <1>1, <1>4, <1>5 DEF n, m

LEMMA RebuildKeeps ==
    ASSUME NEW a \in App
    PROVE  LET b == rebuild(a)
           IN  /\ Sane(b) /\ Alike(a, b)
               /\ b.namespaces = a.namespaces /\ b.expanded = a.expanded
               /\ b.treeSelected = Clamp(a.treeSelected, Len(tree(a)))
<1> DEFINE Ok(r) == /\ a.resource = "events" /\ a.filter => r.passes
                    /\ a.namespace = All \/ r.namespace = a.namespace \/ a.resource = "nodes"
                    /\ a.query = "" \/ r.matches
           all == a.rows[a.resource]
           parts == [i \in DOMAIN all |-> IF Ok(all[i]) THEN <<all[i]>> ELSE <<>>]
           v == FlattenSeq(parts)
           c == [a EXCEPT !.visible = v]
<1>1. rebuild(a) = clampSelection(c)
  BY DEF rebuild
<1>2. all \in Seq(Records)
  BY DEF App
<1> HIDE DEF Ok, all
<1>3. DOMAIN all = 1..Len(all) /\ Len(all) \in Nat
  BY <1>2
<1>4. \A i \in 1..Len(all) : parts[i] \in Seq(Records)
  <2> SUFFICES ASSUME NEW i \in 1..Len(all) PROVE parts[i] \in Seq(Records)
    OBVIOUS
  <2>1. all[i] \in Records
    BY <1>2, <1>3
  <2>2. <<all[i]>> \in Seq(Records) /\ <<>> \in Seq(Records)
    BY <2>1, SingleFacts
  <2> QED
    BY <1>3, <2>2
<1>5. parts = [i \in 1..Len(all) |-> parts[i]]
  BY <1>3
<1> HIDE DEF parts
<1>6. parts \in Seq(Seq(Records))
  <2>1. parts \in [1..Len(all) -> Seq(Records)]
    BY <1>4, <1>5
  <2> QED
    BY <1>3, <2>1, FunIsSeq
<1>7. v \in Seq(Records)
  BY <1>6, FlattenIsSeq
<1> HIDE DEF v
<1>8. /\ c \in App /\ Alike(a, c) /\ c.namespaces = a.namespaces /\ c.expanded = a.expanded
      /\ c.treeSelected = a.treeSelected
  BY <1>7 DEF App, Alike
<1> HIDE DEF c
<1>9. tree(c) = tree(a)
  BY <1>8, TreeSame
<1> QED
  BY <1>1, <1>8, <1>9, ClampSelectionKeeps DEF Alike

\* Opening or closing the selected branch leaves its own row where it is.
IsBranch(row) == row.resource = ""

Toggled(a, b) ==
    LET row == tree(a)[a.treeSelected] IN
    /\ IsBranch(row)
    /\ b \in App /\ b.namespaces = a.namespaces /\ b.treeSelected = a.treeSelected
    /\ \A ns \in Places : ns # row.namespace => (ns \in b.expanded <=> ns \in a.expanded)

LEMMA ToggleKeeps ==
    ASSUME NEW a, Sane(a), NEW b, Toggled(a, b)
    PROVE  Sane(b)
<1> DEFINE i == a.treeSelected
           row == tree(a)[i]
           ba == Branch(a, All)
           bb == Branch(b, All)
           fa == FlattenSeq(Parts(a))
           fb == FlattenSeq(Parts(b))
           T == KindRows(Range(Namespaces))
<1>0. i \in DOMAIN tree(a) /\ row \in TreeRows /\ IsBranch(row)
  BY TreeLen DEF Sane, Toggled
<1>1. /\ Len(tree(a)) = 1 + Len(ba) + Len(fa) /\ Len(tree(b)) = 1 + Len(bb) + Len(fb)
      /\ DOMAIN tree(a) = 1..Len(tree(a)) /\ DOMAIN tree(b) = 1..Len(tree(b))
  BY TreeFacts, TreeLen
<1>2. /\ Len(ba) \in Nat /\ Len(bb) \in Nat /\ Len(ba) >= 1 /\ Len(bb) >= 1
      /\ DOMAIN ba = 1..Len(ba)
  <2>1. ba \in Seq(KindRows({All})) /\ bb \in Seq(KindRows({All}))
    BY BranchFacts
  <2>2. Len(ba) >= 1 /\ Len(bb) >= 1
    BY BranchFacts
  <2> HIDE DEF ba, bb
  <2> QED
    BY <2>1, <2>2, LenProperties
<1>b. b.namespaces = a.namespaces
  BY DEF Toggled
<1>a. \A j \in DOMAIN ba : IsBranch(ba[j]) => j = 1
  BY BranchFacts DEF IsBranch
<1>3. /\ fa \in Seq(T) /\ fb \in Seq(T) /\ Parts(a) \in Seq(Seq(T)) /\ Parts(b) \in Seq(Seq(T))
      /\ Len(Parts(a)) = Len(Namespaces) /\ Len(Parts(b)) = Len(Namespaces)
  BY PartsFacts
<1>4. /\ ~IsBranch(tree(a)[1])
      /\ \A j \in 1..Len(ba) : tree(a)[1 + j] = ba[j]
      /\ \A j \in 1..Len(fa) : tree(a)[1 + Len(ba) + j] = fa[j]
  BY TreeFacts DEF IsBranch
<1>5. i \in DOMAIN tree(b)
  <2> DEFINE la == Len(ba)
             lf == Len(fa)
             k == i - 1 - la
  <2>1. lf \in Nat /\ Len(fb) \in Nat /\ DOMAIN fa = 1..lf /\ DOMAIN fb = 1..Len(fb)
    <3> HIDE DEF fa, fb, T
    <3> QED
      BY <1>3, LenProperties
  <2> HIDE DEF ba, bb, fa, fb, la, lf, T, i, row
  <2>2. la = Len(ba) /\ lf = Len(fa)
    BY DEF la, lf
  <2>3. i \in 1..(1 + la + lf) /\ DOMAIN tree(b) = 1..(1 + Len(bb) + Len(fb))
    <3>1. i \in DOMAIN tree(a)
      BY <1>0
    <3>2. DOMAIN tree(a) = 1..Len(tree(a)) /\ DOMAIN tree(b) = 1..Len(tree(b))
      BY <1>1
    <3>3. Len(tree(a)) = 1 + la + lf /\ Len(tree(b)) = 1 + Len(bb) + Len(fb)
      BY <1>1, <2>2
    <3> QED
      BY <3>1, <3>2, <3>3
  <2>4. i = 1 \/ i - 1 \in 1..la \/ k \in 1..lf
    BY <1>2, <2>1, <2>2, <2>3
  <2>5. CASE i = 1
    BY <1>0, <1>4, <2>5 DEF i, row
  <2>6. CASE i - 1 \in 1..la
    <3>1. 1 + (i - 1) = i
      BY <2>3
    <3>2. ba[i - 1] = tree(a)[i]
      BY <1>4, <2>2, <2>6, <3>1
    <3>3. i - 1 = 1
      BY <1>0, <1>2, <1>a, <2>2, <2>6, <3>2 DEF row
    <3> QED
      BY <1>2, <2>1, <2>3, <3>3
  <2>7. CASE k \in 1..lf
    <3>1. 1 + la + k = i /\ k \in Nat
      BY <1>2, <2>2, <2>3, <2>7
    <3>2. fa[k] = row /\ k \in DOMAIN fa
      BY <1>4, <2>1, <2>2, <2>7, <3>1 DEF row
    <3>3. row \in T
      BY <1>3, <3>2
    <3> DEFINE ns == row.namespace
    <3>4. ns \in Range(Namespaces) /\ row = Row(ns, "")
      BY <1>0, <3>3 DEF T, KindRows, Row, IsBranch
    <3>5. PICK q \in DOMAIN Namespaces : Namespaces[q] = ns
      BY <3>4, ConstantFacts
    <3>6. ns # All
      BY <3>4, NavigationAssumption
    <3> HIDE DEF ns
    <3>7. \A m \in DOMAIN Namespaces : m # q => Namespaces[m] # ns
      BY <3>5, NavigationAssumption
    <3>8. \A x \in Places : x # ns => Branch(a, x) = Branch(b, x)
      BY <1>0 DEF Branch, ns, row, i, Toggled
    <3>9. Len(bb) = Len(ba)
      BY <3>6, <3>8 DEF ba, bb, Places
    <3>10. \A m \in 1..Len(Parts(a)) : m # q =>
              Parts(a)[m] = Parts(b)[m] /\ \A j \in DOMAIN Parts(a)[m] : Parts(a)[m][j] # row
      <4> TAKE m \in 1..Len(Parts(a))
      <4> HAVE m # q
      <4>1. m \in DOMAIN Namespaces /\ Namespaces[m] # ns /\ Namespaces[m] \in Range(Namespaces)
        BY <1>3, <3>7, ConstantFacts
      <4>2. Branch(a, Namespaces[m]) = Branch(b, Namespaces[m])
        BY <3>8, <4>1 DEF Places
      <4>3. Branch(a, Namespaces[m]) \in Seq(KindRows({Namespaces[m]}))
        BY BranchFacts
      <4>4. \A j \in DOMAIN Branch(a, Namespaces[m]) : Branch(a, Namespaces[m])[j].namespace = Namespaces[m]
        <5> DEFINE br == Branch(a, Namespaces[m])
                   KR == KindRows({Namespaces[m]})
        <5>1. \A y \in KR : y.namespace = Namespaces[m]
          BY DEF KindRows
        <5>2. \A j \in DOMAIN br : br[j] \in KR
          <6> HIDE DEF br, KR
          <6>1. br \in Seq(KR)
            BY <4>3 DEF br, KR
          <6> QED
            BY <6>1, LenProperties
        <5> QED
          BY <5>1, <5>2
      <4>5. \A j \in DOMAIN Branch(a, Namespaces[m]) : Branch(a, Namespaces[m])[j] # row
        BY <4>1, <4>4 DEF ns
      <4> QED
        BY <1>b, <4>1, <4>2, <4>5 DEF Parts
    <3>11. \A j \in DOMAIN Parts(a)[q] : Parts(a)[q][j] = row => j = 1 /\ Len(Parts(b)[q]) >= 1
      <4> TAKE j \in DOMAIN Parts(a)[q]
      <4> HAVE Parts(a)[q][j] = row
      <4>1. CASE ns \in a.namespaces
        <5>1. Parts(a)[q] = Branch(a, ns) /\ Parts(b)[q] = Branch(b, ns)
          BY <1>b, <3>5, <4>1 DEF Parts
        <5>2. j \in DOMAIN Branch(a, ns) /\ IsBranch(Branch(a, ns)[j])
          BY <1>0, <5>1
        <5> QED
          BY <5>1, <5>2, BranchFacts DEF IsBranch
      <4>2. CASE ns \notin a.namespaces
        <5>1. Parts(a)[q] = <<>>
          BY <3>5, <4>2 DEF Parts
        <5>2. DOMAIN <<>> = {}
          OBVIOUS
        <5> QED
          BY <5>1, <5>2
      <4> QED
        BY <4>1, <4>2
    <3>12. q \in 1..Len(Parts(a)) /\ Len(Parts(a)) = Len(Parts(b))
      BY <1>3, ConstantFacts
    <3>13. k \in DOMAIN FlattenSeq(Parts(a)) /\ FlattenSeq(Parts(a))[k] = row
      BY <3>2 DEF fa
    <3>14. k \in DOMAIN fb
      <4> HIDE DEF k
      <4>1. Exchanges(Parts(a), Parts(b), q, row)
        BY <3>10, <3>11, <3>12 DEF Exchanges
      <4>2. k \in DOMAIN FlattenSeq(Parts(b))
        BY <1>3, <3>12, <3>13, <4>1, FlattenKeepsPlace
      <4> QED
        BY <4>2 DEF fb
    <3> QED
      BY <1>2, <2>1, <2>2, <2>3, <3>1, <3>9, <3>14
  <2> QED
    BY <2>4, <2>5, <2>6, <2>7
<1> QED
  BY <1>5 DEF Sane, Toggled

-----------------------------------------------------------------------------
(* Keys.                                                                   *)

\* A key does not close a shell, nor does it leave the tree.
Kept(a, b) == Sane(b) /\ b.shell = a.shell

LEMMA EditKept ==
    ASSUME NEW a, Sane(a), NEW b \in App, b.namespaces = a.namespaces,
           b.expanded = a.expanded, b.treeSelected = a.treeSelected, b.shell = a.shell
    PROVE  Kept(a, b)
BY EditKeeps DEF Kept

LEMMA RebuildKept ==
    ASSUME NEW a, NEW b \in App, b.shell = a.shell
    PROVE  Kept(a, rebuild(b))
BY RebuildKeeps DEF Kept, Alike

LEMMA KeptTwice ==
    ASSUME NEW a, NEW b, NEW c, Kept(a, b), Kept(b, c)
    PROVE  Kept(a, c)
BY DEF Kept

LEMMA FlagsKept ==
    ASSUME NEW a, Sane(a), NEW x \in BOOLEAN, NEW y \in BOOLEAN
    PROVE  /\ Kept(a, [a EXCEPT !.menu = x]) /\ Kept(a, [a EXCEPT !.searching = x])
           /\ Kept(a, [a EXCEPT !.view = x]) /\ Kept(a, [a EXCEPT !.treeFocus = x])
           /\ Kept(a, [a EXCEPT !.panel = x]) /\ Kept(a, [a EXCEPT !.loading = x])
           /\ Kept(a, [a EXCEPT !.menu = x, !.searching = y])
           /\ Kept(a, [a EXCEPT !.view = x, !.searching = y])
           /\ Kept(a, [a EXCEPT !.view = x, !.treeFocus = y])
           /\ Kept(a, [a EXCEPT !.paused = x, !.loading = y])
<1>0. a \in App
  BY DEF Sane
<1>1. Kept(a, [a EXCEPT !.menu = x])
  <2> DEFINE b == [a EXCEPT !.menu = x]
  <2>1. /\ b \in App /\ b.namespaces = a.namespaces /\ b.expanded = a.expanded
        /\ b.treeSelected = a.treeSelected /\ b.shell = a.shell
    BY <1>0 DEF App
  <2> QED
    BY <2>1, EditKept
<1>2. Kept(a, [a EXCEPT !.searching = x])
  <2> DEFINE b == [a EXCEPT !.searching = x]
  <2>1. /\ b \in App /\ b.namespaces = a.namespaces /\ b.expanded = a.expanded
        /\ b.treeSelected = a.treeSelected /\ b.shell = a.shell
    BY <1>0 DEF App
  <2> QED
    BY <2>1, EditKept
<1>3. Kept(a, [a EXCEPT !.view = x])
  <2> DEFINE b == [a EXCEPT !.view = x]
  <2>1. /\ b \in App /\ b.namespaces = a.namespaces /\ b.expanded = a.expanded
        /\ b.treeSelected = a.treeSelected /\ b.shell = a.shell
    BY <1>0 DEF App
  <2> QED
    BY <2>1, EditKept
<1>4. Kept(a, [a EXCEPT !.treeFocus = x])
  <2> DEFINE b == [a EXCEPT !.treeFocus = x]
  <2>1. /\ b \in App /\ b.namespaces = a.namespaces /\ b.expanded = a.expanded
        /\ b.treeSelected = a.treeSelected /\ b.shell = a.shell
    BY <1>0 DEF App
  <2> QED
    BY <2>1, EditKept
<1>5. Kept(a, [a EXCEPT !.panel = x])
  <2> DEFINE b == [a EXCEPT !.panel = x]
  <2>1. /\ b \in App /\ b.namespaces = a.namespaces /\ b.expanded = a.expanded
        /\ b.treeSelected = a.treeSelected /\ b.shell = a.shell
    BY <1>0 DEF App
  <2> QED
    BY <2>1, EditKept
<1>6. Kept(a, [a EXCEPT !.loading = x])
  <2> DEFINE b == [a EXCEPT !.loading = x]
  <2>1. /\ b \in App /\ b.namespaces = a.namespaces /\ b.expanded = a.expanded
        /\ b.treeSelected = a.treeSelected /\ b.shell = a.shell
    BY <1>0 DEF App
  <2> QED
    BY <2>1, EditKept
<1>7. Kept(a, [a EXCEPT !.menu = x, !.searching = y])
  <2> DEFINE b == [a EXCEPT !.menu = x, !.searching = y]
  <2>1. /\ b \in App /\ b.namespaces = a.namespaces /\ b.expanded = a.expanded
        /\ b.treeSelected = a.treeSelected /\ b.shell = a.shell
    BY <1>0 DEF App
  <2> QED
    BY <2>1, EditKept
<1>8. Kept(a, [a EXCEPT !.view = x, !.searching = y])
  <2> DEFINE b == [a EXCEPT !.view = x, !.searching = y]
  <2>1. /\ b \in App /\ b.namespaces = a.namespaces /\ b.expanded = a.expanded
        /\ b.treeSelected = a.treeSelected /\ b.shell = a.shell
    BY <1>0 DEF App
  <2> QED
    BY <2>1, EditKept
<1>9. Kept(a, [a EXCEPT !.view = x, !.treeFocus = y])
  <2> DEFINE b == [a EXCEPT !.view = x, !.treeFocus = y]
  <2>1. /\ b \in App /\ b.namespaces = a.namespaces /\ b.expanded = a.expanded
        /\ b.treeSelected = a.treeSelected /\ b.shell = a.shell
    BY <1>0 DEF App
  <2> QED
    BY <2>1, EditKept
<1>10. Kept(a, [a EXCEPT !.paused = x, !.loading = y])
  <2> DEFINE b == [a EXCEPT !.paused = x, !.loading = y]
  <2>1. /\ b \in App /\ b.namespaces = a.namespaces /\ b.expanded = a.expanded
        /\ b.treeSelected = a.treeSelected /\ b.shell = a.shell
    BY <1>0 DEF App
  <2> QED
    BY <2>1, EditKept
<1> QED
  BY <1>1, <1>2, <1>3, <1>4, <1>5, <1>6, <1>7, <1>8, <1>9, <1>10

LEMMA TopKept ==
    ASSUME NEW a, NEW b \in App, b.shell = a.shell
    PROVE  Kept(a, rebuild(Top(b)))
<1> DEFINE first == 1
           c == [b EXCEPT !.tableSelected = first]
<1>1. first \in Int
  OBVIOUS
<1> HIDE DEF first
<1>2. c \in App /\ c.shell = a.shell
  BY <1>1 DEF App
<1> HIDE DEF c
<1>3. Kept(a, rebuild(c))
  BY <1>2, RebuildKept
<1> QED
  BY <1>3 DEF c, first, Top

LEMMA SearchKept ==
    ASSUME NEW a, Sane(a), NEW q \in {"", "text"}, NEW x \in BOOLEAN
    PROVE  /\ Kept(a, rebuild(Top([a EXCEPT !.query = q])))
           /\ Kept(a, rebuild(Top([a EXCEPT !.filter = x])))
           /\ Kept(a, rebuild(Top([a EXCEPT !.filter = x, !.query = q])))
           /\ Kept(a, rebuild(Top([a EXCEPT !.searching = x, !.query = q])))
           /\ Kept(a, rebuild([a EXCEPT !.namespace = All]))
<1>0. a \in App /\ All \in Places
  BY DEF Sane, Places
<1>1. Kept(a, rebuild(Top([a EXCEPT !.query = q])))
  <2> DEFINE b == [a EXCEPT !.query = q]
  <2>1. b \in App /\ b.shell = a.shell
    BY <1>0 DEF App
  <2> HIDE DEF b
  <2>2. Kept(a, rebuild(Top(b)))
    BY <2>1, TopKept
  <2> QED
    BY <2>2 DEF b
<1>2. Kept(a, rebuild(Top([a EXCEPT !.filter = x])))
  <2> DEFINE b == [a EXCEPT !.filter = x]
  <2>1. b \in App /\ b.shell = a.shell
    BY <1>0 DEF App
  <2> HIDE DEF b
  <2>2. Kept(a, rebuild(Top(b)))
    BY <2>1, TopKept
  <2> QED
    BY <2>2 DEF b
<1>3. Kept(a, rebuild(Top([a EXCEPT !.filter = x, !.query = q])))
  <2> DEFINE b == [a EXCEPT !.filter = x, !.query = q]
  <2>1. b \in App /\ b.shell = a.shell
    BY <1>0 DEF App
  <2> HIDE DEF b
  <2>2. Kept(a, rebuild(Top(b)))
    BY <2>1, TopKept
  <2> QED
    BY <2>2 DEF b
<1>4. Kept(a, rebuild(Top([a EXCEPT !.searching = x, !.query = q])))
  <2> DEFINE b == [a EXCEPT !.searching = x, !.query = q]
  <2>1. b \in App /\ b.shell = a.shell
    BY <1>0 DEF App
  <2> HIDE DEF b
  <2>2. Kept(a, rebuild(Top(b)))
    BY <2>1, TopKept
  <2> QED
    BY <2>2 DEF b
<1>5. Kept(a, rebuild([a EXCEPT !.namespace = All]))
  <2> DEFINE b == [a EXCEPT !.namespace = All]
  <2>1. b \in App /\ b.shell = a.shell
    BY <1>0 DEF App
  <2> QED
    BY <2>1, RebuildKept
<1> QED
  BY <1>1, <1>2, <1>3, <1>4, <1>5

\* The branch or the row a click selects.
LEMMA PlaceKept ==
    ASSUME NEW a, Sane(a), NEW x \in BOOLEAN
    PROVE  /\ \A i \in DOMAIN tree(a) : /\ Kept(a, [a EXCEPT !.treeSelected = i])
                                        /\ Kept(a, [a EXCEPT !.treeSelected = i, !.treeFocus = x])
           /\ \A i \in Int : /\ Kept(a, [a EXCEPT !.tableSelected = i])
                             /\ Kept(a, [a EXCEPT !.tableSelected = i, !.treeFocus = x])
<1>0. a \in App /\ DOMAIN tree(a) \subseteq Int
  <2>1. Len(tree(a)) \in Nat /\ DOMAIN tree(a) = 1..Len(tree(a))
    BY TreeLen
  <2> QED
    BY <2>1 DEF Sane
<1>1. ASSUME NEW i \in DOMAIN tree(a) PROVE Kept(a, [a EXCEPT !.treeSelected = i])
  <2> DEFINE b == [a EXCEPT !.treeSelected = i]
  <2>1. /\ b \in App /\ b.namespaces = a.namespaces /\ b.expanded = a.expanded
        /\ b.treeSelected = i /\ b.shell = a.shell
    BY <1>0 DEF App
  <2> HIDE DEF b
  <2>2. Kept(a, b)
    BY <2>1, TreeSame DEF Kept, Sane
  <2> QED
    BY <2>2 DEF b
<1>2. ASSUME NEW i \in DOMAIN tree(a) PROVE Kept(a, [a EXCEPT !.treeSelected = i, !.treeFocus = x])
  <2> DEFINE b == [a EXCEPT !.treeSelected = i, !.treeFocus = x]
  <2>1. /\ b \in App /\ b.namespaces = a.namespaces /\ b.expanded = a.expanded
        /\ b.treeSelected = i /\ b.shell = a.shell
    BY <1>0 DEF App
  <2> HIDE DEF b
  <2>2. Kept(a, b)
    BY <2>1, TreeSame DEF Kept, Sane
  <2> QED
    BY <2>2 DEF b
<1>3. ASSUME NEW i \in Int PROVE Kept(a, [a EXCEPT !.tableSelected = i])
  <2> DEFINE b == [a EXCEPT !.tableSelected = i]
  <2>1. /\ b \in App /\ b.namespaces = a.namespaces /\ b.expanded = a.expanded
        /\ b.treeSelected = a.treeSelected /\ b.shell = a.shell
    BY <1>0 DEF App
  <2> QED
    BY <2>1, EditKept
<1>4. ASSUME NEW i \in Int PROVE Kept(a, [a EXCEPT !.tableSelected = i, !.treeFocus = x])
  <2> DEFINE b == [a EXCEPT !.tableSelected = i, !.treeFocus = x]
  <2>1. /\ b \in App /\ b.namespaces = a.namespaces /\ b.expanded = a.expanded
        /\ b.treeSelected = a.treeSelected /\ b.shell = a.shell
    BY <1>0 DEF App
  <2> QED
    BY <2>1, EditKept
<1> QED
  BY <1>1, <1>2, <1>3, <1>4

LEMMA MoveKept ==
    ASSUME NEW a, Sane(a), NEW delta \in Int
    PROVE  Kept(a, move(a, delta))
<1>1. /\ Len(tree(a)) \in Nat /\ Len(tree(a)) > 0 /\ DOMAIN tree(a) = 1..Len(tree(a))
      /\ Len(a.visible) \in Nat /\ a.treeSelected + delta \in Int /\ a.tableSelected + delta \in Int
  <2>1. a.visible \in Seq(Records) /\ a.treeSelected \in Int /\ a.tableSelected \in Int
    BY DEF Sane, App
  <2>2. Len(a.visible) \in Nat
    BY <2>1
  <2>3. Len(tree(a)) \in Nat /\ Len(tree(a)) > 0 /\ DOMAIN tree(a) = 1..Len(tree(a))
    BY TreeLen
  <2> QED
    BY <2>1, <2>2, <2>3
<1>2. /\ Clamp(a.treeSelected + delta, Len(tree(a))) \in DOMAIN tree(a)
      /\ Clamp(a.tableSelected + delta, Len(a.visible)) \in Int
  BY <1>1, ClampFacts
<1> QED
  BY <1>2, PlaceKept DEF move

LEMMA ChooseKept ==
    ASSUME NEW a, Sane(a)
    PROVE  Kept(a, chooseTree(a))
<1> DEFINE i == a.treeSelected
           row == tree(a)[i]
<1>1. a \in App /\ i \in DOMAIN tree(a) /\ row \in TreeRows
  BY TreeLen DEF Sane
<1>2. Clamp(i, Len(tree(a))) = i
  <2>1. Len(tree(a)) \in Nat /\ DOMAIN tree(a) = 1..Len(tree(a))
    BY TreeLen
  <2>2. i \in Int /\ i \in 1..Len(tree(a))
    BY <1>1, <2>1
  <2> QED
    BY <2>1, <2>2, ClampFacts
<1>3. row.namespace \in Places /\ (IsBranch(row) \/ row.resource \in AllKinds)
  BY <1>1 DEF TreeRows, IsBranch
<1> HIDE DEF row
<1>4. CASE IsBranch(row)
  <2> DEFINE e == IF row.namespace \in a.expanded THEN a.expanded \ {row.namespace}
                                                  ELSE a.expanded \cup {row.namespace}
             b == [a EXCEPT !.expanded = e]
  <2>1. e \in SUBSET Places /\ \A ns \in Places : ns # row.namespace => (ns \in e <=> ns \in a.expanded)
    <3>1. a.expanded \in SUBSET Places
      BY <1>1 DEF App
    <3> QED
      BY <1>3, <3>1
  <2> HIDE DEF e
  <2>2. /\ b \in App /\ b.namespaces = a.namespaces /\ b.expanded = e
        /\ b.treeSelected = a.treeSelected /\ b.shell = a.shell
    BY <1>1, <2>1 DEF App
  <2>3. chooseTree(a) = b
    BY <1>2, <1>4 DEF chooseTree, IsBranch, row, i, e
  <2> HIDE DEF b
  <2>4. Toggled(a, b)
    BY <1>4, <2>1, <2>2 DEF Toggled, row, i
  <2>5. Sane(b)
    BY <2>4, ToggleKeeps
  <2> QED
    BY <2>2, <2>3, <2>5 DEF Kept
<1>5. CASE ~IsBranch(row)
  <2> DEFINE k == row.resource
             ns == row.namespace
             first == 1
             b == [a EXCEPT !.namespace = ns, !.resource = k,
                            !.tableSelected = first, !.treeFocus = FALSE]
  <2>a. k \in AllKinds /\ ns \in Places /\ first \in Int
    BY <1>3, <1>5
  <2> HIDE DEF k, ns, first
  <2>1. b \in App /\ b.shell = a.shell
    BY <1>1, <2>a DEF App
  <2>2. chooseTree(a) = rebuild(b)
    BY <1>2, <1>5 DEF chooseTree, IsBranch, row, i, k, ns, first
  <2> HIDE DEF b
  <2> QED
    BY <2>1, <2>2, RebuildKept
<1> QED
  BY <1>4, <1>5

LEMMA FilterKept ==
    ASSUME NEW a, Sane(a)
    PROVE  \A b \in filterKeys(a) : Kept(a, b)
<1> DEFINE on == rebuild(Top([a EXCEPT !.filter = TRUE]))
           off == rebuild(Top([a EXCEPT !.filter = FALSE, !.query = ""]))
<1>1. Kept(a, on) /\ Kept(a, off)
  BY SearchKept
<1>2. filterKeys(a) \subseteq {on, off}
  BY DEF filterKeys
<1> HIDE DEF on, off
<1> QED
  BY <1>1, <1>2

LEMMA NotBoolean ==
    ASSUME NEW x \in BOOLEAN
    PROVE  (~x) \in BOOLEAN
<1>1. CASE x = TRUE
  BY <1>1
<1>2. CASE x = FALSE
  BY <1>2
<1> QED
  BY <1>1, <1>2

LEMMA TableKept ==
    ASSUME NEW a, Sane(a), NEW b \in tableKeys(a)
    PROVE  Kept(a, b)
<1> DEFINE up == move(a, -1)
           down == move(a, 1)
           side == [a EXCEPT !.treeFocus = ~@]
           page == [a EXCEPT !.view = TRUE, !.treeFocus = FALSE]
           left == [a EXCEPT !.treeFocus = TRUE]
           search == [a EXCEPT !.searching = TRUE]
           everywhere == rebuild([a EXCEPT !.namespace = All])
           reset == rebuild(Top([a EXCEPT !.query = ""]))
           panel == [a EXCEPT !.panel = ~@]
           over == [a EXCEPT !.view = TRUE]
           clicks == {[a EXCEPT !.tableSelected = i, !.treeFocus = FALSE] : i \in DOMAIN a.visible}
           choices == {chooseTree([a EXCEPT !.treeSelected = i, !.treeFocus = TRUE]) :
                         i \in DOMAIN tree(a)}
<1>1. Kept(a, up) /\ Kept(a, down)
  <2>1. -1 \in Int /\ 1 \in Int
    OBVIOUS
  <2> QED
    BY <2>1, MoveKept
<1>2. /\ Kept(a, side) /\ Kept(a, page) /\ Kept(a, left) /\ Kept(a, search) /\ Kept(a, panel)
  <2>1. a.treeFocus \in BOOLEAN /\ a.panel \in BOOLEAN
    BY DEF Sane, App
  <2>2. Kept(a, [a EXCEPT !.treeFocus = ~a.treeFocus])
    <3>1. (~a.treeFocus) \in BOOLEAN
      BY <2>1, NotBoolean
    <3> QED
      BY <3>1, FlagsKept
  <2>3. Kept(a, [a EXCEPT !.panel = ~a.panel])
    <3>1. (~a.panel) \in BOOLEAN
      BY <2>1, NotBoolean
    <3> QED
      BY <3>1, FlagsKept
  <2>4. Kept(a, page) /\ Kept(a, left) /\ Kept(a, search)
    BY FlagsKept
  <2> QED
    BY <2>2, <2>3, <2>4
<1>3. Kept(a, everywhere) /\ Kept(a, reset)
  BY SearchKept
<1>7. Kept(a, over) /\ Kept(a, pause(a))
  <2>1. a.paused \in BOOLEAN /\ a.loading \in BOOLEAN
    BY DEF Sane, App
  <2>2. (~a.paused) \in BOOLEAN /\ (a.loading \/ a.paused) \in BOOLEAN
    BY <2>1
  <2>3. Kept(a, [a EXCEPT !.paused = ~a.paused, !.loading = a.loading \/ a.paused])
    BY <2>2, FlagsKept
  <2>4. pause(a) = [a EXCEPT !.paused = ~a.paused, !.loading = a.loading \/ a.paused]
    BY DEF pause
  <2>5. Kept(a, over)
    BY FlagsKept
  <2> QED
    BY <2>3, <2>4, <2>5
<1>0. DOMAIN a.visible \subseteq Int
  <2> DEFINE v == a.visible
  <2>1. v \in Seq(Records)
    BY DEF Sane, App
  <2> HIDE DEF v
  <2>2. DOMAIN v = 1..Len(v) /\ Len(v) \in Nat
    BY <2>1
  <2>3. DOMAIN v \subseteq Int
    BY <2>2
  <2> QED
    BY <2>3 DEF v
<1>4. ASSUME NEW c \in clicks PROVE Kept(a, c)
  <2>1. PICK i \in DOMAIN a.visible : c = [a EXCEPT !.tableSelected = i, !.treeFocus = FALSE]
    OBVIOUS
  <2> QED
    BY <1>0, <2>1, PlaceKept
<1>5. ASSUME NEW c \in choices PROVE Kept(a, c)
  <2>1. PICK i \in DOMAIN tree(a) : c = chooseTree([a EXCEPT !.treeSelected = i, !.treeFocus = TRUE])
    OBVIOUS
  <2> DEFINE d == [a EXCEPT !.treeSelected = i, !.treeFocus = TRUE]
  <2>2. Kept(a, d)
    BY PlaceKept
  <2> HIDE DEF d
  <2>3. Kept(d, chooseTree(d))
    BY <2>2, ChooseKept DEF Kept
  <2> QED
    BY <2>1, <2>2, <2>3, KeptTwice DEF d
<1>6. tableKeys(a) \subseteq {up, down, side, page, over, left, search, pause(a), everywhere, reset, panel}
                              \cup clicks \cup choices
  <2> DEFINE first == {up, down, side, page, over, left, search, pause(a), everywhere, reset}
             more == IF a.resource = "pods" THEN {panel} ELSE {}
  <2>1. tableKeys(a) = first \cup more \cup clicks \cup choices
    BY DEF tableKeys
  <2> HIDE DEF up, down, side, page, over, left, search, everywhere, reset, panel, clicks, choices
  <2> QED
    BY <2>1
<1> HIDE DEF up, down, side, page, over, left, search, everywhere, reset, panel, clicks, choices
<1> QED
  BY <1>1, <1>2, <1>3, <1>4, <1>5, <1>6, <1>7

LEMMA SearchKeysKept ==
    ASSUME NEW a, Sane(a), NEW b \in searchKeys(a)
    PROVE  Kept(a, b)
<1> DEFINE ended == [a EXCEPT !.searching = FALSE]
           Texts == {"", "text"}
<1>1. Kept(a, a) /\ Kept(a, ended)
  BY FlagsKept DEF Kept
<1>2. \A t \in [more : BOOLEAN, text : Texts] :
         Kept(a, rebuild(Top([a EXCEPT !.searching = t.more, !.query = t.text])))
  BY SearchKept
<1>3. CASE a.view
  <2>1. searchKeys(a) = {a, ended}
    BY <1>3 DEF searchKeys
  <2> HIDE DEF ended
  <2> QED
    BY <1>1, <2>1
<1>4. CASE ~a.view
  <2>1. searchKeys(a) =
           {rebuild(Top([a EXCEPT !.searching = typed.more, !.query = typed.text])) :
              typed \in [more : BOOLEAN, text : {"", "text"}]}
    BY <1>4, Zenon DEF searchKeys
  <2>2. \E t \in [more : BOOLEAN, text : Texts] :
           b = rebuild(Top([a EXCEPT !.searching = t.more, !.query = t.text]))
    BY <2>1, Zenon
  <2> QED
    BY <1>2, <2>2, Zenon
<1> QED
  BY <1>3, <1>4

LEMMA ItemKept ==
    ASSUME NEW a, Sane(a), NEW b \in Item(a)
    PROVE  Kept(a, b)
<1> DEFINE table == [a EXCEPT !.treeFocus = FALSE]
           search == [a EXCEPT !.searching = TRUE]
           away == [a EXCEPT !.view = FALSE]
           page == [a EXCEPT !.view = TRUE, !.treeFocus = FALSE]
<1>1. Kept(a, table) /\ Kept(a, search) /\ Kept(a, away) /\ Kept(a, page)
  BY FlagsKept
<1>2. Item(a) \subseteq {table, search, away, page} \cup filterKeys(a)
  <2>1. Item(a) = {table, search, away, page} \cup (IF a.view THEN {} ELSE filterKeys(a))
    BY DEF Item
  <2> HIDE DEF table, search, away, page
  <2> QED
    BY <2>1
<1> HIDE DEF table, search, away, page
<1> QED
  BY <1>1, <1>2, FilterKept

LEMMA MenuKept ==
    ASSUME NEW a, Sane(a), NEW b \in handleMenu(a)
    PROVE  Kept(a, b)
<1> DEFINE closed == [a EXCEPT !.menu = FALSE]
<1>1. Kept(a, a) /\ Kept(a, closed)
  BY FlagsKept DEF Kept
<1>2. handleMenu(a) = {a, closed} \cup Item(closed)
  BY DEF handleMenu
<1> HIDE DEF closed
<1>3. ASSUME NEW c \in Item(closed) PROVE Kept(a, c)
  <2>1. Kept(closed, c)
    BY <1>1, ItemKept DEF Kept
  <2> QED
    BY <1>1, <2>1, KeptTwice
<1> QED
  BY <1>1, <1>2, <1>3

LEMMA HandleKept ==
    ASSUME NEW a, Sane(a), NEW b \in handle(a)
    PROVE  Kept(a, b)
<1> DEFINE find == [a EXCEPT !.menu = FALSE, !.searching = TRUE]
           leave == [a EXCEPT !.view = FALSE, !.searching = FALSE]
           opened == [a EXCEPT !.menu = TRUE]
           away == [a EXCEPT !.view = FALSE]
           search == [a EXCEPT !.searching = TRUE]
<1>1. /\ Kept(a, a) /\ Kept(a, find) /\ Kept(a, leave) /\ Kept(a, opened)
      /\ Kept(a, away) /\ Kept(a, search)
  BY FlagsKept DEF Kept
<1>2. viewKeys(a) = {away, search}
  BY DEF viewKeys
<1>3. handle(a) \subseteq {a, find, leave, opened} \cup viewKeys(a) \cup handleMenu(a)
                            \cup searchKeys(a) \cup tableKeys(a) \cup filterKeys(a)
  <2>1. handle(a) =
          IF a.shell \/ a.switching THEN {a}
          ELSE {find} \cup (IF a.view THEN {leave} ELSE {})
                 \cup (IF a.menu THEN handleMenu(a)
                       ELSE IF a.searching THEN searchKeys(a)
                       ELSE {opened} \cup (IF a.view THEN viewKeys(a)
                                           ELSE tableKeys(a) \cup filterKeys(a)))
    BY DEF handle
  <2> HIDE DEF find, leave, opened
  <2> QED
    BY <2>1
<1> HIDE DEF find, leave, opened, away, search
<1> QED
  BY <1>1, <1>2, <1>3, TableKept, SearchKeysKept, MenuKept, FilterKept

-----------------------------------------------------------------------------
(* Snapshots.                                                              *)

LEMMA MergeKeeps ==
    ASSUME NEW a \in App, NEW v, Snapshot(v)
    PROVE  /\ merge(a, v) \in App /\ Alike(a, merge(a, v))
<1> DEFINE rows == [k \in DOMAIN a.rows |-> IF k \in v.errors THEN a.rows[k] ELSE v.rows[k]]
           named == IF "namespaces" \in v.errors THEN a.namespaces ELSE v.namespaces
           used == {r.namespace : r \in UNION {Range(rows[k]) : k \in DOMAIN rows}} \ {All}
           known == (named \cup used) \cap Range(Namespaces)
           errors == v.errors
           b == [a EXCEPT !.rows = rows, !.errors = errors, !.loading = FALSE, !.namespaces = known]
<1>1. merge(a, v) = b
  BY DEF merge
<1>2. rows \in [AllKinds -> Seq(Records)]
  <2>1. a.rows \in [AllKinds -> Seq(Records)] /\ v.rows \in [AllKinds -> Seq(Records)]
    BY DEF App, Snapshot
  <2> QED
    BY <2>1
<1>3. known \in SUBSET Range(Namespaces)
  <2> HIDE DEF named, used
  <2> QED
    OBVIOUS
<1>4. errors \in Failures
  BY DEF Snapshot
<1> HIDE DEF rows, known, errors
<1>5. b \in App
  BY <1>2, <1>3, <1>4 DEF App
<1>6. Alike(a, b)
  BY DEF Alike, App
<1> QED
  BY <1>1, <1>5, <1>6

LEMMA FollowKeeps ==
    ASSUME NEW a \in App, NEW id, NEW row
    PROVE  LET b == Follow(a, id, row) IN
           /\ Sane(b) /\ Alike(a, b) /\ b.visible = a.visible /\ tree(b) = tree(a)
           /\ (\E i \in DOMAIN a.visible : a.visible[i].id = id) =>
                 b.tableSelected \in DOMAIN a.visible /\ a.visible[b.tableSelected].id = id
           /\ (\E j \in DOMAIN tree(a) : tree(a)[j] = row) => tree(a)[b.treeSelected] = row
<1> DEFINE t == tree(a)
           v == a.visible
           I == {i \in 1..Len(v) : v[i].id = id}
           J == {j \in 1..Len(t) : t[j] = row}
           i == IF I # {} THEN Min(I) ELSE 0
           j == IF J # {} THEN Min(J) ELSE 0
           m == IF i > 0 THEN i ELSE a.tableSelected
           n == IF j > 0 THEN j ELSE a.treeSelected
           c == [a EXCEPT !.tableSelected = m, !.treeSelected = n]
           b == clampSelection(c)
<1>1. Follow(a, id, row) = b
  BY DEF Follow, SelectInSeq
<1>2. /\ Len(t) \in Nat /\ DOMAIN t = 1..Len(t) /\ Len(v) \in Nat /\ DOMAIN v = 1..Len(v)
      /\ a.treeSelected \in Int /\ a.tableSelected \in Int
  <2>1. v \in Seq(Records) /\ a.treeSelected \in Int /\ a.tableSelected \in Int
    BY DEF App
  <2>2. Len(t) \in Nat /\ DOMAIN t = 1..Len(t)
    BY TreeLen
  <2> HIDE DEF v
  <2> QED
    BY <2>1, <2>2, LenProperties
<1> HIDE DEF t, v
<1>3. /\ i \in Int /\ j \in Int
      /\ I # {} => i \in I /\ i > 0
      /\ J # {} => j \in J /\ j > 0
  <2>1. I \in SUBSET Nat /\ J \in SUBSET Nat
    BY <1>2
  <2>2. (I # {} => Min(I) \in I) /\ (J # {} => Min(J) \in J)
    BY <2>1, FirstOf
  <2>3. \A k \in I : k > 0 /\ k \in Int
    BY <1>2
  <2>4. \A k \in J : k > 0 /\ k \in Int
    BY <1>2
  <2> HIDE DEF I, J
  <2> QED
    BY <2>2, <2>3, <2>4
<1> HIDE DEF i, j
<1>4. /\ m \in Int /\ n \in Int
      /\ I # {} => m \in I
      /\ J # {} => n \in J
  BY <1>2, <1>3
<1> HIDE DEF m, n
<1>5. /\ c \in App /\ Alike(a, c) /\ c.namespaces = a.namespaces /\ c.expanded = a.expanded
      /\ c.visible = a.visible /\ c.treeSelected = n /\ c.tableSelected = m
  BY <1>4 DEF App, Alike
<1> HIDE DEF c
<1>6. /\ Sane(b) /\ Alike(c, b) /\ b.namespaces = c.namespaces /\ b.expanded = c.expanded
      /\ b.visible = c.visible
      /\ b.treeSelected = Clamp(n, Len(tree(c))) /\ b.tableSelected = Clamp(m, Len(c.visible))
  BY <1>5, ClampSelectionKeeps
<1> HIDE DEF b
<1>7. tree(c) = t /\ tree(b) = t /\ c.visible = v /\ b.visible = v
  <2>1. tree(c) = tree(a) /\ tree(b) = tree(c)
    BY <1>5, <1>6, TreeSame
  <2> QED
    BY <1>5, <1>6, <2>1 DEF t, v
<1>8. Alike(a, b)
  BY <1>5, <1>6 DEF Alike
<1>9. ASSUME NEW k \in DOMAIN v, v[k].id = id
      PROVE  b.tableSelected \in DOMAIN v /\ v[b.tableSelected].id = id
  <2>1. k \in I
    BY <1>2, <1>9
  <2>2. m \in I /\ m \in 1..Len(v) /\ v[m].id = id
    BY <1>4, <2>1
  <2>3. Clamp(m, Len(v)) = m
    BY <1>2, <1>4, <2>2, ClampFacts
  <2> QED
    BY <1>2, <1>6, <1>7, <2>2, <2>3
<1>10. ASSUME NEW k \in DOMAIN t, t[k] = row
       PROVE  t[b.treeSelected] = row
  <2>1. k \in J
    BY <1>2, <1>10
  <2>2. n \in J /\ n \in 1..Len(t) /\ t[n] = row
    BY <1>4, <2>1
  <2>3. Clamp(n, Len(t)) = n
    BY <1>2, <1>4, <2>2, ClampFacts
  <2> QED
    BY <1>6, <1>7, <2>2, <2>3
<1> QED
  BY <1>1, <1>6, <1>7, <1>8, <1>9, <1>10 DEF t, v

LEMMA RowIs ==
    ASSUME NEW S, NEW T, NEW x \in [namespace : S, resource : T]
    PROVE  x = [namespace |-> x.namespace, resource |-> x.resource]
OBVIOUS

LEMMA SnapshotKeeps ==
    ASSUME NEW a, Sane(a), NEW v, Snapshot(v)
    PROVE  LET b == applySnapshot(a, v) IN
           /\ Sane(b) /\ Alike(a, b)
           /\ ~a.view /\ Selection(a) \in Listed(b) => Selection(b) = Selection(a)
<1> DEFINE row == tree(a)[a.treeSelected]
           id == selected(a)
           m == merge(a, v)
           c == rebuild(m)
           b == Follow(c, id, row)
<1>1. applySnapshot(a, v) = b /\ a \in App /\ row \in TreeRows
  <2>1. a.treeSelected \in DOMAIN tree(a) /\ a \in App
    BY DEF Sane
  <2> QED
    BY <2>1, TreeLen DEF applySnapshot
<1> HIDE DEF row, id
<1>2. m \in App /\ Alike(a, m)
  BY <1>1, MergeKeeps
<1> HIDE DEF m
<1>3. Sane(c) /\ Alike(m, c) /\ c \in App
  BY <1>2, RebuildKeeps DEF Sane
<1> HIDE DEF c
<1>4. /\ Sane(b) /\ Alike(c, b) /\ b.visible = c.visible /\ tree(b) = tree(c)
      /\ (\E i \in DOMAIN c.visible : c.visible[i].id = id) =>
            b.tableSelected \in DOMAIN c.visible /\ c.visible[b.tableSelected].id = id
      /\ (\E j \in DOMAIN tree(c) : tree(c)[j] = row) => tree(c)[b.treeSelected] = row
  BY <1>3, FollowKeeps
<1> HIDE DEF b
<1>5. Alike(a, b)
  BY <1>2, <1>3, <1>4 DEF Alike
<1>6. ASSUME ~a.view, Selection(a) \in Listed(b) PROVE Selection(b) = Selection(a)
  <2>0. b.view = a.view /\ b.treeFocus = a.treeFocus
    BY <1>5 DEF Alike
  <2>1. \/ \E r \in Range(tree(b)) : Selection(a) = <<r.namespace, r.resource>>
        \/ \E r \in Range(b.visible) : Selection(a) = <<r.id>>
    BY <1>6 DEF Listed
  <2>2. CASE a.treeFocus
    <3>1. Selection(a) = <<row.namespace, row.resource>>
      BY <1>6, <2>2 DEF Selection, row
    <3>2. PICK r \in Range(tree(b)) : <<row.namespace, row.resource>> = <<r.namespace, r.resource>>
      BY <2>1, <3>1
    <3>3. PICK j \in DOMAIN tree(b) : tree(b)[j] = r
      BY <3>2 DEF Range
    <3>4. r \in TreeRows
      BY <3>3, TreeLen
    <3>5. r = row
      <4>1. r.namespace = row.namespace /\ r.resource = row.resource
        BY <3>2
      <4>2. \A x \in TreeRows : x = Row(x.namespace, x.resource)
        BY RowIs DEF TreeRows, Row
      <4>3. r = Row(r.namespace, r.resource) /\ row = Row(row.namespace, row.resource)
        BY <1>1, <3>4, <4>2
      <4> QED
        BY <4>1, <4>3
    <3>6. tree(b)[b.treeSelected] = row
      BY <1>4, <3>3, <3>5
    <3>7. Selection(b) = <<row.namespace, row.resource>>
      BY <1>6, <2>0, <2>2, <3>6 DEF Selection
    <3> QED
      BY <3>1, <3>7
  <2>3. CASE ~a.treeFocus
    <3>1. Selection(a) = <<id>>
      BY <1>6, <2>3 DEF Selection, id
    <3>2. PICK r \in Range(b.visible) : <<id>> = <<r.id>>
      BY <2>1, <3>1
    <3>3. PICK i \in DOMAIN b.visible : b.visible[i] = r
      BY <3>2 DEF Range
    <3>4. b.tableSelected \in DOMAIN b.visible /\ b.visible[b.tableSelected].id = id
      BY <1>4, <3>2, <3>3
    <3>5. Selection(b) = <<id>>
      BY <1>6, <2>0, <2>3, <3>4 DEF Selection, selected
    <3> QED
      BY <3>1, <3>5
  <2> QED
    BY <2>2, <2>3
<1> QED
  BY <1>1, <1>4, <1>5, <1>6

-----------------------------------------------------------------------------
(* Drawing, and the metrics of the selected pod.                           *)

Lines == {"top", "body"}
IsFrame(f) == DOMAIN f = Lines /\ f = [l \in Lines |-> f[l]]

LEMMA FrameIs ==
    ASSUME NEW a, NEW p
    PROVE  IsFrame(frame(a, p))
BY DEF frame, IsFrame, Lines

LEMMA FramesEqual ==
    ASSUME NEW f, NEW g, IsFrame(f), IsFrame(g), f.top = g.top, f.body = g.body
    PROVE  f = g
BY DEF IsFrame, Lines

LEMMA CoveredIs ==
    ASSUME NEW f, IsFrame(f)
    PROVE  IsFrame(Covered(f)) /\ Covered(f).top = f.top /\ Covered(f).body = Other
BY DEF IsFrame, Lines, Covered

LEMMA DrawFrameIs ==
    ASSUME NEW f, IsFrame(f), NEW before
    PROVE  /\ IsFrame(drawFrame(f, before))
           /\ before = <<>> => drawFrame(f, before) = f
           /\ before # <<>> =>
                 /\ drawFrame(f, before).top = IF before[1].top = f.top THEN screen.top ELSE f.top
                 /\ drawFrame(f, before).body =
                       IF before[1].body = f.body THEN screen.body ELSE f.body
<1> DEFINE d == drawFrame(f, before)
<1>1. d = [l \in Lines |-> IF before # <<>> /\ before[1][l] = f[l] THEN screen[l] ELSE f[l]]
  BY DEF IsFrame, drawFrame
<1>2. IsFrame(d)
  BY <1>1 DEF IsFrame
<1>3. CASE before = <<>>
  <2>1. d = [l \in Lines |-> f[l]]
    BY <1>1, <1>3
  <2> QED
    BY <1>2, <1>3, <2>1 DEF IsFrame
<1>4. CASE before # <<>>
  <2>1. d = [l \in Lines |-> IF before[1][l] = f[l] THEN screen[l] ELSE f[l]]
    BY <1>1, <1>4
  <2>2. /\ d.top = IF before[1].top = f.top THEN screen.top ELSE f.top
        /\ d.body = IF before[1].body = f.body THEN screen.body ELSE f.body
    BY <2>1 DEF Lines
  <2> QED
    BY <1>2, <1>4, <2>2
<1> QED
  BY <1>3, <1>4

\* What is drawn is the frame, over whatever was on the terminal; a dashboard
\* under a shell stays covered.
Drawing(a, p, before) ==
    /\ draw(a, p, before)
    /\ app' = a /\ resized' = resized
    /\ before = <<>> \/ (before = previous /\ (app.shell => a.shell))

LEMMA DrawKeeps ==
    ASSUME Painted, NEW a, a.shell \in BOOLEAN, NEW p, NEW before, Drawing(a, p, before)
    PROVE  /\ Painted'
           /\ ~a.shell => screen'.body \in {frame(a, p).body, Other}
           /\ ~a.shell /\ MenuShown(a) => screen'.body = Other
           /\ a.shell => screen'.body = Other
           /\ ~resized /\ ~a.shell =>
                 screen' = IF MenuShown(a) THEN Covered(frame(a, p)) ELSE frame(a, p)
<1> DEFINE f == frame(a, p)
           d == drawFrame(f, before)
<1>1. IsFrame(f) /\ IsFrame(screen)
  BY FrameIs DEF Painted, IsFrame, Lines
<1>2. /\ draw(a, p, before) /\ app' = a /\ resized' = resized
      /\ before = <<>> \/ (before = previous /\ (app.shell => a.shell))
  BY DEF Drawing
<1>3. IsFrame(d)
  BY <1>1, DrawFrameIs
<1>4. before # <<>> =>
         /\ previous # <<>> /\ before = previous /\ (app.shell => a.shell)
         /\ previous = <<previous[1]>> /\ IsFrame(previous[1])
         /\ screen.body \in {previous[1].body, Other}
         /\ ~resized => screen.top = previous[1].top
         /\ ~resized /\ ~app.shell => screen.body = previous[1].body
         /\ app.shell => screen.body = Other
  BY <1>2 DEF Painted, IsFrame, Lines
<1>5. /\ d.body \in {f.body, Other}
      /\ ~resized => d.top = f.top
      /\ ~resized /\ (before = <<>> \/ ~app.shell) => d.body = f.body
  <2>1. CASE before = <<>>
    <3>1. d = f
      BY <1>1, <2>1, DrawFrameIs
    <3> QED
      BY <2>1, <3>1
  <2>2. CASE before # <<>>
    <3>1. /\ d.top = IF before[1].top = f.top THEN screen.top ELSE f.top
          /\ d.body = IF before[1].body = f.body THEN screen.body ELSE f.body
      BY <1>1, <2>2, DrawFrameIs
    <3> HIDE DEF d, f
    <3> QED
      BY <1>4, <2>2, <3>1
  <2> QED
    BY <2>1, <2>2
<1> HIDE DEF f
<1>6. CASE a.shell
  <2>1. /\ screen' = Covered(IF before = <<>> THEN d ELSE screen)
        /\ previous' = IF before = <<>> THEN <<f>> ELSE before
    BY <1>2, <1>6 DEF draw, f
  <2> HIDE DEF d
  <2>2. IsFrame(screen') /\ screen'.body = Other
        /\ screen'.top = IF before = <<>> THEN d.top ELSE screen.top
    <3>1. CASE before = <<>>
      BY <1>3, <2>1, <3>1, CoveredIs
    <3>2. CASE before # <<>>
      BY <1>1, <2>1, <3>2, CoveredIs
    <3> QED
      BY <3>1, <3>2
  <2>3. /\ previous' = <<previous'[1]>> /\ IsFrame(previous'[1])
        /\ ~resized => screen'.top = previous'[1].top
    <3>1. CASE before = <<>>
      BY <1>1, <1>5, <2>1, <2>2, <3>1
    <3>2. CASE before # <<>>
      BY <1>4, <2>1, <2>2, <3>2
    <3> QED
      BY <3>1, <3>2
  <2>4. app'.shell /\ resized' = resized
    BY <1>2, <1>6
  <2> QED
    BY <1>6, <2>2, <2>3, <2>4 DEF Painted, IsFrame, Lines
<1>7. CASE ~a.shell
  <2>1. /\ screen' = IF MenuShown(a) THEN Covered(d) ELSE d
        /\ previous' = IF MenuShown(a) THEN <<>> ELSE <<f>>
    BY <1>2, <1>7 DEF draw, AfterMenu, f
  <2>2. before = <<>> \/ ~app.shell
    BY <1>2, <1>7
  <2> HIDE DEF d
  <2>3. ~app'.shell /\ resized' = resized
    BY <1>2, <1>7
  <2>4. CASE MenuShown(a)
    <3>1. IsFrame(screen') /\ screen'.body = Other /\ screen'.top = d.top /\ previous' = <<>>
      BY <1>3, <2>1, <2>4, CoveredIs
    <3>2. IsFrame(Covered(f)) /\ Covered(f).top = f.top /\ Covered(f).body = Other
      BY <1>1, CoveredIs
    <3>3. ~resized => screen' = Covered(f)
      BY <1>5, <3>1, <3>2, FramesEqual
    <3> QED
      BY <1>7, <2>3, <2>4, <3>1, <3>3 DEF Painted, IsFrame, Lines, f
  <2>5. CASE ~MenuShown(a)
    <3>1. screen' = d /\ previous' = <<f>>
      BY <2>1, <2>5
    <3>2. ~resized => screen' = f
      BY <1>1, <1>3, <1>5, <2>2, <3>1, FramesEqual
    <3>3. previous' = <<previous'[1]>> /\ previous'[1] = f /\ IsFrame(previous'[1])
      BY <1>1, <3>1
    <3>4. /\ IsFrame(screen') /\ screen'.body \in {previous'[1].body, Other}
          /\ ~resized => screen'.top = previous'[1].top /\ screen'.body = previous'[1].body
      BY <1>3, <1>5, <3>1, <3>2, <3>3
    <3>5. Painted'
      BY <2>3, <3>3, <3>4 DEF Painted, IsFrame, Lines
    <3> QED
      BY <1>5, <1>7, <2>5, <3>1, <3>2, <3>5 DEF f
  <2> QED
    BY <2>4, <2>5
<1> QED
  BY <1>6, <1>7

LEMMA TargetIs ==
    ASSUME NEW a \in App
    PROVE  selected(a) \in Targets /\ Target(a) \in Targets
<1>1. a.visible \in Seq(Records)
  BY DEF App
<1>2. \A i \in DOMAIN a.visible : a.visible[i] \in Records
  <2> DEFINE v == a.visible
  <2>1. v \in Seq(Records)
    BY <1>1
  <2> HIDE DEF v
  <2>2. \A i \in DOMAIN v : v[i] \in Records
    BY <2>1
  <2> QED
    BY <2>2 DEF v
<1> QED
  BY <1>2 DEF Target, Targets, selected

LEMMA UpdateKeeps ==
    ASSUME PodTypes, Answered, NEW a \in App, updatePodMetrics(a)
    PROVE  PodTypes' /\ Answered' /\ pod'.target = Target(a)
<1> DEFINE target == Target(a)
           moved == target # pod.target
           now == IF moved THEN Retarget(target) ELSE pod
           older == IF moved THEN {Outdated(r) : r \in requests} ELSE requests
           asked == [pod |-> target, current |-> TRUE]
<1>1. target \in Targets /\ Nil \in Targets
  BY TargetIs DEF Targets
<1>2. /\ podResults' = IF moved THEN [i \in DOMAIN podResults |-> Outdated(podResults[i])]
                                 ELSE podResults
      /\ \/ pod' = [now EXCEPT !.busy = TRUE] /\ requests' = older \cup {asked}
         \/ pod' = now /\ requests' = older
  BY DEF updatePodMetrics, Target
<1> HIDE DEF target
<1>3. now \in [target : Targets, busy : BOOLEAN, metrics : Targets]
      /\ now.target = target /\ now.metrics \in {Nil, target}
  <2>1. CASE moved
    <3> DEFINE fresh == [target |-> target, busy |-> FALSE, metrics |-> Nil]
    <3>1. now = fresh
      BY <2>1 DEF Retarget
    <3>2. fresh \in [target : Targets, busy : BOOLEAN, metrics : Targets]
      BY <1>1
    <3>3. fresh.target = target /\ fresh.metrics \in {Nil, target}
      OBVIOUS
    <3> HIDE DEF fresh, now
    <3> QED
      BY <3>1, <3>2, <3>3
  <2>2. CASE ~moved
    BY <2>2 DEF PodTypes, Answered
  <2> QED
    BY <2>1, <2>2
<1>4. /\ older \subseteq [pod : Targets, current : BOOLEAN]
      /\ \A r \in older : r.current => r.pod = target
  <2>1. CASE moved
    <3>1. \A r \in requests : /\ Outdated(r) \in [pod : Targets, current : BOOLEAN]
                              /\ ~Outdated(r).current
      BY DEF PodTypes, Outdated
    <3> QED
      BY <2>1, <3>1
  <2>2. CASE ~moved
    BY <2>2 DEF PodTypes, Answered
  <2> QED
    BY <2>1, <2>2
<1>5. /\ podResults' = <<>> \/ (podResults' = <<podResults'[1]>>
           /\ podResults'[1] \in [metrics : Targets, current : BOOLEAN])
      /\ \A i \in DOMAIN podResults' : podResults'[i].current => podResults'[i].metrics \in {Nil, target}
  <2>1. CASE moved
    <3> DEFINE s == podResults
               t == [i \in DOMAIN s |-> Outdated(s[i])]
    <3>1. podResults' = t
      BY <1>2, <2>1
    <3>2. s = <<>> \/ (s = <<s[1]>> /\ s[1] \in [metrics : Targets, current : BOOLEAN])
      BY DEF PodTypes
    <3> HIDE DEF s
    <3>3. CASE s = <<>>
      <4>1. t = <<>>
        BY <3>3
      <4> QED
        BY <3>1, <4>1
    <3>4. CASE s = <<s[1]>> /\ s[1] \in [metrics : Targets, current : BOOLEAN]
      <4> DEFINE x == s[1]
      <4>1. Outdated(x) \in [metrics : Targets, current : BOOLEAN] /\ ~Outdated(x).current
        BY <3>4 DEF Outdated
      <4>2. t = <<Outdated(x)>>
        <5>1. DOMAIN s = {1}
          BY <3>4
        <5>2. t = [i \in {1} |-> Outdated(x)]
          BY <5>1
        <5> HIDE DEF x
        <5>3. [i \in {1} |-> Outdated(x)] = <<Outdated(x)>>
          OBVIOUS
        <5> QED
          BY <5>2, <5>3
      <4> HIDE DEF x, t
      <4>3. DOMAIN t = {1} /\ t[1] = Outdated(x)
        BY <4>2
      <4> QED
        BY <3>1, <4>1, <4>2, <4>3
    <3> QED
      BY <3>2, <3>3, <3>4
  <2>2. CASE ~moved
    BY <1>2, <2>2 DEF PodTypes, Answered
  <2> QED
    BY <2>1, <2>2
<1> HIDE DEF now, older
<1>6. asked \in [pod : Targets, current : BOOLEAN] /\ asked.pod = target
  BY <1>1
<1> HIDE DEF asked
<1>7. /\ pod' \in [target : Targets, busy : BOOLEAN, metrics : Targets]
      /\ pod'.target = target /\ pod'.metrics \in {Nil, target}
  <2>1. CASE pod' = [now EXCEPT !.busy = TRUE]
    BY <1>3, <2>1
  <2>2. CASE pod' = now
    BY <1>3, <2>2
  <2> QED
    BY <1>2, <2>1, <2>2
<1>8. /\ requests' \subseteq [pod : Targets, current : BOOLEAN]
      /\ \A r \in requests' : r.current => r.pod = target
  BY <1>2, <1>4, <1>6
<1>9. PodTypes'
  BY <1>5, <1>7, <1>8 DEF PodTypes
<1>10. Answered'
  BY <1>5, <1>7, <1>8 DEF Answered
<1> QED
  BY <1>7, <1>9, <1>10 DEF target

-----------------------------------------------------------------------------
(* Steps.                                                                  *)

LEMMA BodyIs ==
    ASSUME NEW a, NEW p
    PROVE  /\ a.switching => frame(a, p).body = <<"switching">>
           /\ ~a.switching =>
                 /\ frame(a, p).body # <<"switching">>
                 /\ frame(a, p).body[1] = Selection(a)
                 /\ frame(a, p).body[4] =
                       IF podPanelWidth(a) > 0 THEN <<selected(a), p.metrics>> ELSE <<>>
<1> DEFINE x == IF a.view THEN <<>> ELSE a.visible
           panel == IF podPanelWidth(a) > 0 THEN <<selected(a), p.metrics>> ELSE <<>>
           body == <<Selection(a), x, a.searching, panel>>
<1>1. frame(a, p).body = IF a.switching THEN <<"switching">> ELSE body
  BY DEF frame
<1>2. body[1] = Selection(a) /\ body[4] = panel /\ body # <<"switching">>
  <2> HIDE DEF x, panel
  <2>1. body[1] = Selection(a) /\ body[4] = panel
    OBVIOUS
  <2>2. DOMAIN body = 1..4 /\ DOMAIN <<"switching">> = 1..1
    OBVIOUS
  <2>3. 4 \in 1..4 /\ 4 \notin 1..1
    OBVIOUS
  <2> QED
    BY <2>1, <2>2, <2>3
<1> QED
  BY <1>1, <1>2

\* A dashboard that has just been drawn.
LEMMA DrawnKeeps ==
    ASSUME IInv, NEW a, Sane(a), NEW before, updatePodMetrics(a), Drawing(a, pod', before),
           ~dirty', stands', dirty' \in BOOLEAN, stands' \in BOOLEAN, results' = results
    PROVE  IInv'
<1>1. a \in App /\ a.shell \in BOOLEAN
  BY DEF Sane, App
<1>2. app' = a /\ resized' = resized
  BY DEF Drawing
<1>3. PodTypes' /\ Answered' /\ pod'.target = Target(a)
  BY <1>1, UpdateKeeps DEF IInv, Types
<1>4. AppTypes'
  <2>1. /\ resized \in BOOLEAN
        /\ results = <<>> \/ (results = <<results[1]>> /\ Snapshot(results[1]))
    BY DEF IInv, Types, AppTypes
  <2>2. results' = <<>> \/ (results' = <<results'[1]>> /\ Snapshot(results'[1]))
    BY <2>1
  <2>3. Sane(app')
    BY <1>2
  <2> QED
    BY <1>2, <2>1, <2>2, <2>3 DEF AppTypes
<1> DEFINE f == frame(a, pod')
<1>5. /\ Painted'
      /\ ~a.shell => screen'.body \in {f.body, Other}
      /\ ~a.shell /\ MenuShown(a) => screen'.body = Other
      /\ a.shell => screen'.body = Other
      /\ ~resized /\ ~a.shell => screen' = IF MenuShown(a) THEN Covered(f) ELSE f
  BY <1>1, DrawKeeps DEF IInv
<1>6. Whole'
  BY <1>2, <1>3, <1>5 DEF Whole, ScreenIsFrame
<1>7. Current'
  <2> SUFFICES ASSUME screen'.body # Other
               PROVE  /\ a.switching => screen'.body = <<"switching">>
                      /\ screen'.body # <<"switching">> =>
                            /\ Acts(a) => Selection(a) = screen'.body[1]
                            /\ screen'.body[4] # <<>> =>
                                  screen'.body[4][2] \in {Nil, screen'.body[4][1]}
    BY <1>2 DEF Current
  <2>1. screen'.body = f.body
    BY <1>5
  <2>2. pod'.metrics \in {Nil, Target(a)}
    BY <1>3 DEF Answered
  <2>3. podPanelWidth(a) > 0 => Target(a) = selected(a)
    BY DEF Target
  <2>4. CASE a.switching
    <3>1. f.body = <<"switching">>
      BY <2>4, BodyIs
    <3> QED
      BY <2>1, <3>1
  <2>5. CASE ~a.switching
    <3>1. f.body[1] = Selection(a)
          /\ f.body[4] = IF podPanelWidth(a) > 0 THEN <<selected(a), pod'.metrics>> ELSE <<>>
      BY <2>5, BodyIs
    <3>2. f.body[4] # <<>> => f.body[4][2] \in {Nil, f.body[4][1]}
      <4> DEFINE width == podPanelWidth(a) > 0
                 chosen == selected(a)
                 metrics == pod'.metrics
                 b == f.body[4]
      <4>1. b = IF width THEN <<chosen, metrics>> ELSE <<>>
        BY <3>1
      <4>2. width => metrics \in {Nil, chosen}
        BY <2>2, <2>3
      <4> HIDE DEF width, chosen, metrics, b
      <4>3. b # <<>> => b[2] \in {Nil, b[1]}
        BY <4>1, <4>2
      <4> QED
        BY <4>3 DEF b
    <3> QED
      BY <2>1, <2>5, <3>1, <3>2
  <2> QED
    BY <2>4, <2>5
<1> QED
  BY <1>3, <1>4, <1>5, <1>6, <1>7 DEF IInv, Types

LEMMA PressedKeeps ==
    ASSUME IInv, NEW a, Sane(a), NEW before, Pressed(a, before),
           before = <<>> \/ (before = previous /\ (app.shell => a.shell))
    PROVE  IInv'
<1>1. /\ updatePodMetrics(a) /\ draw(a, pod', before) /\ app' = a
      /\ dirty' = FALSE /\ stands' = TRUE /\ results' = results /\ resized' = resized
  BY DEF Pressed
<1>2. Drawing(a, pod', before)
  BY <1>1 DEF Drawing
<1> QED
  BY <1>1, <1>2, DrawnKeeps

\* Nothing that is shown as selected, or acted on, changes.
SameSelection(a, b) ==
    /\ b.view = a.view /\ b.treeFocus = a.treeFocus /\ b.shell = a.shell
    /\ b.switching = a.switching /\ b.menu = a.menu /\ b.searching = a.searching
    /\ b.treeSelected = a.treeSelected /\ b.tableSelected = a.tableSelected
    /\ b.visible = a.visible /\ tree(b) = tree(a)

LEMMA SelectionSame ==
    ASSUME NEW a, NEW b, SameSelection(a, b)
    PROVE  Acts(a) = Acts(b) /\ Selection(a) = Selection(b)
BY DEF SameSelection, Acts, Selection, selected

LEMMA InitHolds ==
    ASSUME Init
    PROVE  IInv
<1>1. PICK s \in BOOLEAN :
         LET a == [newApp EXCEPT !.switching = s]
             p == [target |-> Nil, busy |-> FALSE, metrics |-> Nil]
         IN app = refresh(a) /\ pod = p /\ screen = frame(a, p) /\ previous = <<frame(a, p)>>
  BY DEF Init
<1> DEFINE a == [newApp EXCEPT !.switching = s]
           p == [target |-> Nil, busy |-> FALSE, metrics |-> Nil]
           f == frame(a, p)
<1>2. /\ app = refresh(a) /\ pod = p /\ screen = f /\ previous = <<f>>
      /\ results = <<>> /\ requests = {} /\ podResults = <<>>
      /\ dirty = TRUE /\ resized = FALSE /\ stands = TRUE
  BY <1>1 DEF Init
<1>3. newApp \in App /\ newApp.expanded = {All} /\ newApp.treeSelected = 3 /\ ~newApp.shell
      /\ ~newApp.panel
  <2> DEFINE rows == [k \in AllKinds |-> <<>>]
             third == 3
             first == 1
             every == {All}
             none == {}
             kind == "pods"
             table == <<>>
  <2>1. rows \in [AllKinds -> Seq(Records)] /\ table \in Seq(Records)
    OBVIOUS
  <2>2. third \in Int /\ first \in Int /\ every \in SUBSET Places /\ All \in Places
        /\ none \in SUBSET Range(Namespaces) /\ none \in Failures \cup {{}}
    BY DEF Places
  <2>3. kind \in AllKinds
    BY NavigationAssumption DEF AllKinds
  <2>4. newApp =
          [rows |-> rows, namespaces |-> none, errors |-> none, resource |-> kind,
           namespace |-> All, query |-> "", filter |-> FALSE, expanded |-> every,
           treeSelected |-> third, tableSelected |-> first, treeFocus |-> TRUE,
           visible |-> table, searching |-> FALSE, menu |-> FALSE, view |-> FALSE,
           shell |-> FALSE, loading |-> FALSE, paused |-> FALSE, switching |-> FALSE,
           panel |-> FALSE, wide |-> TRUE]
    BY DEF newApp, AllKinds
  <2> HIDE DEF rows, third, first, every, none, kind, table
  <2>5. newApp \in App /\ newApp.expanded = every /\ newApp.treeSelected = third
        /\ ~newApp.shell /\ ~newApp.panel
    BY <2>1, <2>2, <2>3, <2>4 DEF App
  <2> QED
    BY <2>5 DEF every, third
<1>4. /\ a \in App /\ a.expanded = {All} /\ a.treeSelected = 3 /\ ~a.shell /\ ~a.panel
      /\ a.switching = s
  <2>1. /\ a \in App /\ a.expanded = newApp.expanded /\ a.treeSelected = newApp.treeSelected
        /\ a.shell = newApp.shell /\ a.panel = newApp.panel /\ a.switching = s
    BY <1>3 DEF App
  <2> QED
    BY <1>3, <2>1
<1>5. Sane(a)
  <2> DEFINE b == Branch(a, All)
             t == tree(a)
             fs == FlattenSeq(Parts(a))
  <2>1. Len(b) = 1 + Len(Kinds)
    BY <1>4, BranchFacts
  <2>2. Len(Kinds) \in Nat /\ Len(Kinds) >= 1
    BY ConstantFacts
  <2>3. Len(t) = 1 + Len(b) + Len(fs) /\ DOMAIN t = 1..Len(t)
    BY TreeFacts, TreeLen
  <2>4. Len(fs) \in Nat
    <3>1. fs \in Seq(KindRows(Range(Namespaces)))
      BY PartsFacts
    <3> HIDE DEF fs
    <3> QED
      BY <3>1
  <2> HIDE DEF b, t, fs
  <2>5. 3 \in DOMAIN t
    BY <2>1, <2>2, <2>3, <2>4
  <2> QED
    BY <1>4, <2>5 DEF Sane, t
<1> HIDE DEF a
<1>6. Kept(a, refresh(a))
  BY <1>5, FlagsKept DEF refresh
<1>7. /\ app \in App /\ Sane(app) /\ ~app.shell /\ app.switching = a.switching
      /\ SameSelection(a, app)
  <2>1. a \in App
    BY <1>4
  <2>2. app = [a EXCEPT !.loading = TRUE]
    BY <1>2 DEF refresh
  <2>3. app.namespaces = a.namespaces /\ app.expanded = a.expanded
    BY <2>1, <2>2 DEF App
  <2>4. tree(app) = tree(a)
    BY <2>3, TreeSame
  <2>5. SameSelection(a, app)
    BY <2>1, <2>2, <2>4 DEF App, SameSelection
  <2>6. Sane(app) /\ app.shell = a.shell
    BY <1>2, <1>6 DEF Kept
  <2> QED
    BY <1>4, <2>5, <2>6 DEF Sane, SameSelection
<1>8. AppTypes
  BY <1>2, <1>7 DEF AppTypes
<1>9. PodTypes /\ Answered
  <2>1. Nil \in Targets
    BY DEF Targets
  <2>2. p \in [target : Targets, busy : BOOLEAN, metrics : Targets]
    BY <2>1
  <2>3. p.metrics = Nil
    OBVIOUS
  <2>4. DOMAIN podResults = {}
    BY <1>2
  <2> HIDE DEF p
  <2> QED
    BY <1>2, <2>2, <2>3, <2>4 DEF PodTypes, Answered
<1> HIDE DEF p
<1>10. Painted
  <2>1. IsFrame(f)
    BY FrameIs
  <2> HIDE DEF f
  <2> QED
    BY <1>2, <1>7, <2>1 DEF Painted, IsFrame, Lines
<1>11. Whole
  BY <1>2 DEF Whole, ScreenIsFrame
<1>12. Current
  <2>1. podPanelWidth(a) = 0
    BY <1>4 DEF podPanelWidth
  <2>2. CASE a.switching
    <3>1. f.body = <<"switching">>
      BY <2>2, BodyIs
    <3> QED
      BY <1>2, <3>1 DEF Current
  <2>3. CASE ~a.switching
    <3>1. f.body[1] = Selection(a) /\ f.body[4] = <<>>
      <4>1. f.body[1] = Selection(a)
            /\ f.body[4] = IF podPanelWidth(a) > 0 THEN <<selected(a), p.metrics>> ELSE <<>>
        BY <2>3, BodyIs
      <4>2. ~(podPanelWidth(a) > 0)
        BY <2>1
      <4> HIDE DEF f
      <4> QED
        BY <4>1, <4>2
    <3>2. Selection(app) = Selection(a) /\ ~app.switching
      BY <1>7, <2>3, SelectionSame
    <3> QED
      BY <1>2, <3>1, <3>2 DEF Current
  <2> QED
    BY <2>2, <2>3
<1> QED
  BY <1>8, <1>9, <1>10, <1>11, <1>12 DEF IInv, Types

\* Steps that leave the app and the screen alone.
LEMMA AnswersKeep ==
    ASSUME IInv, ClusterAnswers \/ ShowMetrics \/ \E r \in requests : PodAnswers(r)
    PROVE  IInv'
<1>0. AppTypes /\ PodTypes /\ Answered /\ Painted /\ Whole /\ Current
  BY DEF IInv, Types
<1>1. app' = app /\ screen' = screen /\ previous' = previous /\ resized' = resized
      /\ stands' = stands
  BY DEF ClusterAnswers, ShowMetrics, PodAnswers
<1>2. Painted' /\ Current'
  BY <1>0, <1>1 DEF Painted, Current, Acts, Selection, selected
<1>3. CASE ClusterAnswers
  <2>1. PICK cluster \in Clusters, failing \in Failures :
           results' = <<loadCluster(cluster, failing)>>
    BY <1>3 DEF ClusterAnswers
  <2> DEFINE v == loadCluster(cluster, failing)
  <2>2. Snapshot(v)
    <3>1. cluster.rows \in [AllKinds -> Seq(Records)]
      BY DashboardAssumption DEF AllKinds
    <3> DEFINE rows == [k \in DOMAIN cluster.rows |->
                          IF k \in failing THEN <<>> ELSE cluster.rows[k]]
    <3>2. rows \in [AllKinds -> Seq(Records)]
      BY <3>1
    <3>3. v.rows = rows /\ v.errors = failing
      BY DEF loadCluster
    <3> HIDE DEF rows, v
    <3> QED
      BY <3>2, <3>3 DEF Snapshot
  <2> HIDE DEF v
  <2>3. results' = <<results'[1]>> /\ Snapshot(results'[1])
    BY <2>1, <2>2 DEF v
  <2>4. pod' = pod /\ requests' = requests /\ podResults' = podResults /\ dirty' = dirty
    BY <1>3 DEF ClusterAnswers
  <2>5. AppTypes'
    BY <1>0, <1>1, <2>3, <2>4 DEF AppTypes
  <2>6. PodTypes' /\ Answered' /\ Whole'
    BY <1>0, <1>1, <2>4 DEF PodTypes, Answered, Whole, ScreenIsFrame
  <2> QED
    BY <1>2, <2>5, <2>6 DEF IInv, Types
<1>4. CASE ShowMetrics
  <2> DEFINE r == podResults[1]
  <2>1. podResults = <<r>> /\ r \in [metrics : Targets, current : BOOLEAN]
        /\ (r.current => r.metrics \in {Nil, pod.target})
    <3>1. podResults = <<r>> /\ r \in [metrics : Targets, current : BOOLEAN]
      BY <1>0, <1>4 DEF PodTypes, ShowMetrics
    <3> HIDE DEF r
    <3>2. 1 \in DOMAIN podResults
      BY <3>1
    <3> QED
      BY <1>0, <3>1, <3>2 DEF Answered, r
  <2>2. /\ podResults' = <<>> /\ results' = results /\ requests' = requests
        /\ r.current => pod' = [pod EXCEPT !.busy = FALSE, !.metrics = r.metrics] /\ dirty' = TRUE
        /\ ~r.current => pod' = pod /\ dirty' = dirty
    <3>1. Head(podResults) = r
      OBVIOUS
    <3>2. podResults' = <<>> /\ results' = results /\ requests' = requests
          /\ IF Head(podResults).current
             THEN pod' = [pod EXCEPT !.busy = FALSE, !.metrics = Head(podResults).metrics]
                  /\ dirty' = TRUE
             ELSE pod' = pod /\ dirty' = dirty
      BY <1>4 DEF ShowMetrics
    <3> HIDE DEF r
    <3> QED
      BY <3>1, <3>2
  <2> HIDE DEF r
  <2>3. CASE r.current
    <3>1. pod' \in [target : Targets, busy : BOOLEAN, metrics : Targets]
          /\ pod'.target = pod.target /\ pod'.metrics = r.metrics
      BY <1>0, <2>1, <2>2, <2>3 DEF PodTypes
    <3>2. DOMAIN podResults' = {}
      BY <2>2
    <3>3. PodTypes' /\ Answered'
      BY <1>0, <2>1, <2>2, <2>3, <3>1, <3>2 DEF PodTypes, Answered
    <3>4. AppTypes' /\ Whole'
      BY <1>0, <1>1, <2>2, <2>3 DEF AppTypes, Whole, ScreenIsFrame
    <3> QED
      BY <1>2, <3>3, <3>4 DEF IInv, Types
  <2>4. CASE ~r.current
    <3>2. DOMAIN podResults' = {}
      BY <2>2
    <3>3. PodTypes' /\ Answered'
      BY <1>0, <2>2, <2>4, <3>2 DEF PodTypes, Answered
    <3>4. AppTypes' /\ Whole'
      BY <1>0, <1>1, <2>2, <2>4 DEF AppTypes, Whole, ScreenIsFrame
    <3> QED
      BY <1>2, <3>3, <3>4 DEF IInv, Types
  <2> QED
    BY <2>3, <2>4
<1>5. ASSUME NEW r \in requests, PodAnswers(r) PROVE IInv'
  <2>1. PICK found \in {r.pod, Nil} : podResults' = <<[metrics |-> found, current |-> r.current]>>
    BY <1>5 DEF PodAnswers
  <2> DEFINE x == [metrics |-> found, current |-> r.current]
  <2>2. requests' = requests \ {r} /\ results' = results /\ pod' = pod /\ dirty' = dirty
    BY <1>5 DEF PodAnswers
  <2>3. /\ r \in [pod : Targets, current : BOOLEAN] /\ Nil \in Targets
        /\ r.current => r.pod = pod.target
    BY <1>0 DEF PodTypes, Answered, Targets
  <2>4. x \in [metrics : Targets, current : BOOLEAN]
        /\ (x.current => x.metrics \in {Nil, pod.target})
    BY <2>3
  <2>5. podResults' = <<x>>
    BY <2>1
  <2> HIDE DEF x
  <2>6. podResults' = <<podResults'[1]>> /\ podResults'[1] = x /\ DOMAIN podResults' = {1}
    BY <2>5
  <2>7. PodTypes' /\ Answered'
    BY <1>0, <2>2, <2>4, <2>6 DEF PodTypes, Answered
  <2>8. AppTypes' /\ Whole'
    BY <1>0, <1>1, <2>2 DEF AppTypes, Whole, ScreenIsFrame
  <2> QED
    BY <1>2, <2>7, <2>8 DEF IInv, Types
<1> QED
  BY <1>3, <1>4, <1>5

LEMMA RefreshKeeps ==
    ASSUME NEW a, Sane(a)
    PROVE  Kept(a, refresh(a)) /\ SameSelection(a, refresh(a))
<1> DEFINE b == [a EXCEPT !.loading = TRUE]
<1>1. Kept(a, refresh(a))
  BY FlagsKept DEF refresh
<1>2. a \in App /\ refresh(a) = b
  BY DEF Sane, refresh
<1>3. tree(b) = tree(a)
  <2>1. b.namespaces = a.namespaces /\ b.expanded = a.expanded
    BY <1>2 DEF App
  <2> QED
    BY <2>1, TreeSame
<1>4. SameSelection(a, b)
  BY <1>2, <1>3 DEF App, SameSelection
<1> QED
  BY <1>1, <1>2, <1>4

\* What is to be drawn later: the app changes, but nothing that is selected.
LEMMA LaterKeeps ==
    ASSUME IInv, Sane(app'), SameSelection(app, app'), dirty', dirty' \in BOOLEAN,
           results' = results, pod' = pod, requests' = requests, podResults' = podResults,
           screen' = screen, stands' = stands, resized' \in BOOLEAN,
           (previous' = previous /\ resized' = resized) \/ previous' = <<>>
    PROVE  IInv'
<1>0. AppTypes /\ PodTypes /\ Answered /\ Painted /\ Whole /\ Current
  BY DEF IInv, Types
<1>1. AppTypes'
  BY <1>0 DEF AppTypes
<1>2. PodTypes' /\ Answered'
  BY <1>0 DEF PodTypes, Answered
<1>3. Whole'
  BY DEF Whole, ScreenIsFrame
<1>4. app'.shell = app.shell /\ app'.switching = app.switching
  BY DEF SameSelection
<1>5. Painted'
  <2>1. CASE previous' = previous /\ resized' = resized
    BY <1>0, <1>4, <2>1 DEF Painted
  <2>2. CASE previous' = <<>>
    BY <1>0, <1>4, <2>2 DEF Painted
  <2> QED
    BY <2>1, <2>2
<1>6. Acts(app) = Acts(app') /\ Selection(app) = Selection(app')
  BY SelectionSame
<1>7. Current'
  BY <1>0, <1>4, <1>6 DEF Current
<1> QED
  BY <1>1, <1>2, <1>3, <1>5, <1>7 DEF IInv, Types

LEMMA TickKeeps ==
    ASSUME IInv, Tick
    PROVE  IInv'
<1>1. Sane(app)
  BY DEF IInv, Types, AppTypes
<1>2. Kept(app, refresh(app)) /\ SameSelection(app, refresh(app))
  BY <1>1, RefreshKeeps
<1>3. /\ app' = refresh(app) /\ dirty' = TRUE /\ resized' = resized /\ previous' = previous
      /\ results' = results /\ pod' = pod /\ requests' = requests /\ podResults' = podResults
      /\ screen' = screen /\ stands' = stands
  BY DEF Tick
<1>4. resized' \in BOOLEAN
  BY <1>3 DEF IInv, Types, AppTypes
<1>5. Sane(app') /\ SameSelection(app, app')
  BY <1>2, <1>3 DEF Kept
<1> QED
  BY <1>3, <1>4, <1>5, LaterKeeps

LEMMA ResizedKeeps ==
    ASSUME IInv, Resized
    PROVE  IInv'
<1>1. Sane(app) /\ app \in App
  BY DEF IInv, Types, AppTypes, Sane
<1>2. PICK w \in BOOLEAN : app' = [app EXCEPT !.wide = w]
  BY DEF Resized
<1> DEFINE b == [app EXCEPT !.wide = w]
<1>3. /\ b \in App /\ b.namespaces = app.namespaces /\ b.expanded = app.expanded
      /\ b.treeSelected = app.treeSelected
  BY <1>1 DEF App
<1>4. tree(b) = tree(app)
  BY <1>3, TreeSame
<1>5. SameSelection(app, b)
  BY <1>1, <1>4 DEF App, SameSelection
<1>6. Sane(b)
  BY <1>1, <1>3, EditKeeps
<1>7. /\ dirty' = TRUE /\ resized' = FALSE /\ previous' = <<>>
      /\ results' = results /\ pod' = pod /\ requests' = requests /\ podResults' = podResults
      /\ screen' = screen /\ stands' = stands
  BY DEF Resized
<1> HIDE DEF b
<1>8. app' = b
  BY <1>2 DEF b
<1>9. Sane(app') /\ SameSelection(app, app')
  BY <1>5, <1>6, <1>8
<1> QED
  BY <1>7, <1>9, LaterKeeps

LEMMA ResizeKeeps ==
    ASSUME IInv, Resize
    PROVE  IInv'
<1>0. AppTypes /\ PodTypes /\ Answered /\ Painted /\ Whole /\ Current
  BY DEF IInv, Types
<1> DEFINE blank == [top |-> Other, body |-> Other]
<1>1. /\ screen' = blank /\ resized' = TRUE /\ app' = app /\ results' = results
      /\ pod' = pod /\ requests' = requests /\ podResults' = podResults
      /\ previous' = previous /\ dirty' = dirty /\ stands' = stands
  BY DEF Resize
<1>2. IsFrame(blank) /\ blank.body = Other
  BY DEF IsFrame, Lines
<1> HIDE DEF blank
<1>3. AppTypes'
  BY <1>0, <1>1 DEF AppTypes
<1>4. PodTypes' /\ Answered'
  BY <1>0, <1>1 DEF PodTypes, Answered
<1>5. Whole' /\ Current'
  BY <1>0, <1>1, <1>2 DEF Whole, ScreenIsFrame, Current
<1>6. Painted'
  BY <1>0, <1>1, <1>2 DEF Painted, IsFrame, Lines
<1> QED
  BY <1>3, <1>4, <1>5, <1>6 DEF IInv, Types

LEMMA CloseShellKeeps ==
    ASSUME IInv, CloseShell
    PROVE  IInv'
<1>0. AppTypes /\ PodTypes /\ Answered /\ Painted /\ Whole /\ Current
  BY DEF IInv, Types
<1> DEFINE b == [app EXCEPT !.shell = FALSE]
<1>1. Sane(app) /\ app \in App /\ app.shell
  BY <1>0 DEF AppTypes, Sane, CloseShell
<1>2. /\ b \in App /\ b.namespaces = app.namespaces /\ b.expanded = app.expanded
      /\ b.treeSelected = app.treeSelected /\ ~b.shell
  BY <1>1 DEF App
<1> HIDE DEF b
<1>3. Sane(b)
  BY <1>1, <1>2, EditKeeps
<1>4. CASE Pressed(b, <<>>)
  BY <1>3, <1>4, PressedKeeps
<1>5. CASE /\ app' = b /\ previous' = <<>> /\ dirty' = TRUE
           /\ UNCHANGED <<results, pod, requests, podResults, screen, resized, stands>>
  <2>1. screen.body = Other
    BY <1>0, <1>1 DEF Painted
  <2>2. AppTypes'
    BY <1>0, <1>3, <1>5 DEF AppTypes
  <2>3. PodTypes' /\ Answered'
    BY <1>0, <1>5 DEF PodTypes, Answered
  <2>4. Whole' /\ Current'
    BY <1>5, <2>1 DEF Whole, ScreenIsFrame, Current
  <2>5. Painted'
    BY <1>0, <1>2, <1>5 DEF Painted
  <2> QED
    BY <2>2, <2>3, <2>4, <2>5 DEF IInv, Types
<1> QED
  BY <1>4, <1>5 DEF CloseShell, b

LEMMA KeysKeep ==
    ASSUME IInv, Key \/ Act \/ RunChild
    PROVE  IInv'
<1>0. Sane(app) /\ app \in App
  BY DEF IInv, Types, AppTypes, Sane
<1>1. Kept(app, refresh(app)) /\ Kept(app, app)
  BY <1>0, RefreshKeeps DEF Kept
<1>2. CASE Key
  <2>1. PICK a \in handle(app) \cup {refresh(app)} : Pressed(a, previous)
    BY <1>2 DEF Key
  <2>2. Kept(app, a)
    BY <1>0, <1>1, HandleKept
  <2> QED
    BY <2>1, <2>2, PressedKeeps DEF Kept
<1>3. CASE Act
  <2> DEFINE page == [app EXCEPT !.view = TRUE]
             b == [app EXCEPT !.shell = TRUE]
  <2>1. Kept(app, chooseTree(app)) /\ Kept(app, page)
    BY <1>0, ChooseKept, FlagsKept
  <2>2. ~app.shell
    BY <1>3 DEF Act, Acts
  <2>3. /\ b \in App /\ b.namespaces = app.namespaces /\ b.expanded = app.expanded
        /\ b.treeSelected = app.treeSelected
    BY <1>0 DEF App
  <2>4. Pressed(chooseTree(app), previous) \/ Pressed(page, previous) \/ Pressed(b, previous)
    BY <1>3 DEF Act
  <2> HIDE DEF page, b
  <2>5. Sane(b)
    BY <1>0, <2>3, EditKeeps
  <2> QED
    BY <2>1, <2>2, <2>4, <2>5, PressedKeeps DEF Kept
<1>4. CASE RunChild
  <2>1. Pressed(app, <<>>) \/ Pressed(refresh(app), <<>>)
    BY <1>4 DEF RunChild
  <2> QED
    BY <1>0, <1>1, <2>1, PressedKeeps DEF Kept
<1> QED
  BY <1>2, <1>3, <1>4

LEMMA PaintKeeps ==
    ASSUME IInv, Paint
    PROVE  IInv'
<1>0. AppTypes /\ PodTypes /\ Answered /\ Painted /\ Whole /\ Current
  BY DEF IInv, Types
<1>1. Sane(app) /\ app \in App
  BY <1>0 DEF AppTypes, Sane
<1>2. /\ updatePodMetrics(app) /\ dirty' = FALSE /\ app' = app /\ results' = results
      /\ resized' = resized
  BY DEF Paint
<1>3. CASE dirty
  <2>1. draw(app, pod', previous) /\ stands' = TRUE
    BY <1>3 DEF Paint
  <2>2. Drawing(app, pod', previous)
    BY <1>2, <2>1 DEF Drawing
  <2> QED
    BY <1>1, <1>2, <2>1, <2>2, DrawnKeeps
<1>4. CASE ~dirty
  <2>1. screen' = screen /\ previous' = previous /\ stands' = stands
    BY <1>4 DEF Paint
  <2>2. PodTypes' /\ Answered'
    BY <1>0, <1>1, <1>2, UpdateKeeps
  <2>3. AppTypes'
    BY <1>0, <1>2, <2>1 DEF AppTypes
  <2>4. Painted'
    BY <1>0, <1>2, <2>1 DEF Painted
  <2>5. Current'
    BY <1>0, <1>2, <2>1 DEF Current, Acts, Selection, selected
  <2>6. pod'.metrics = pod.metrics
    <3>1. pod.target = Target(app)
      BY <1>0, <1>4 DEF Whole
    <3>2. pod' = [pod EXCEPT !.busy = TRUE] \/ pod' = pod
      BY <1>2, <3>1 DEF updatePodMetrics, Target
    <3> QED
      BY <1>0, <3>2 DEF PodTypes
  <2>7. frame(app, pod') = frame(app, pod)
    BY <2>6 DEF frame
  <2>8. pod'.target = Target(app)
    BY <1>0, <1>1, <1>2, UpdateKeeps
  <2>9. Whole'
    BY <1>0, <1>2, <1>4, <2>1, <2>7, <2>8 DEF Whole, ScreenIsFrame
  <2> QED
    BY <2>2, <2>3, <2>4, <2>5, <2>9 DEF IInv, Types
<1>5. dirty \in BOOLEAN
  BY <1>0 DEF AppTypes
<1> QED
  BY <1>3, <1>4, <1>5

LEMMA ApplyKeeps ==
    ASSUME IInv, ApplySnapshot
    PROVE  IInv'
<1>0. AppTypes /\ PodTypes /\ Answered /\ Painted /\ Whole /\ Current
  BY DEF IInv, Types
<1> DEFINE v == results[1]
           a == applySnapshot(app, v)
           b == [a EXCEPT !.switching = FALSE]
<1>1. Sane(app) /\ Snapshot(v) /\ Head(results) = v
  <2>1. results = <<v>> /\ Snapshot(v)
    BY <1>0 DEF AppTypes, ApplySnapshot
  <2> HIDE DEF v
  <2> QED
    BY <1>0, <2>1 DEF AppTypes
<1>2. /\ app' = b /\ results' = <<>> /\ dirty' = TRUE
      /\ stands' = (stands /\ Selection(app) \in Listed(b))
      /\ pod' = pod /\ requests' = requests /\ podResults' = podResults
      /\ screen' = screen /\ previous' = previous /\ resized' = resized
  BY <1>1 DEF ApplySnapshot
<1> HIDE DEF v
<1>3. /\ Sane(a) /\ Alike(app, a)
      /\ ~app.view /\ Selection(app) \in Listed(a) => Selection(a) = Selection(app)
  BY <1>1, SnapshotKeeps
<1> HIDE DEF a
<1>4. /\ b \in App /\ b.namespaces = a.namespaces /\ b.expanded = a.expanded
      /\ b.treeSelected = a.treeSelected /\ ~b.switching /\ b.shell = a.shell
      /\ b.menu = a.menu /\ b.searching = a.searching /\ b.view = a.view
      /\ b.treeFocus = a.treeFocus /\ b.tableSelected = a.tableSelected /\ b.visible = a.visible
  BY <1>3 DEF Sane, App
<1> HIDE DEF b
<1>5. Sane(b) /\ tree(b) = tree(a)
  BY <1>3, <1>4, EditKeeps, TreeSame
<1>6. Listed(b) = Listed(a) /\ Selection(b) = Selection(a)
  BY <1>4, <1>5 DEF Listed, Selection, selected
<1>7. AppTypes'
  <2>1. stands' \in BOOLEAN
    BY <1>0, <1>2 DEF AppTypes
  <2> QED
    BY <1>0, <1>2, <1>5, <2>1 DEF AppTypes
<1>8. PodTypes' /\ Answered'
  BY <1>0, <1>2 DEF PodTypes, Answered
<1>9. Whole'
  BY <1>2 DEF Whole, ScreenIsFrame
<1>10. b.shell = app.shell
  BY <1>3, <1>4 DEF Alike
<1>11. Painted'
  BY <1>0, <1>2, <1>10 DEF Painted
<1>12. Current'
  <2> SUFFICES ASSUME screen.body # Other, screen.body # <<"switching">>
               PROVE  /\ stands' /\ Acts(b) => Selection(b) = screen.body[1]
                      /\ screen.body[4] # <<>> => screen.body[4][2] \in {Nil, screen.body[4][1]}
    BY <1>2, <1>4 DEF Current
  <2>1. ~app.switching
    BY <1>0 DEF Current
  <2>2. Acts(b) => Acts(app) /\ ~app.view
    BY <1>3, <1>4, <2>1 DEF Acts, Alike
  <2>3. stands' => stands /\ Selection(app) \in Listed(a)
    BY <1>2, <1>6
  <2> QED
    BY <1>0, <1>3, <1>6, <2>2, <2>3 DEF Current
<1> QED
  BY <1>7, <1>8, <1>9, <1>11, <1>12 DEF IInv, Types

LEMMA StutterKeeps ==
    ASSUME IInv, UNCHANGED vars
    PROVE  IInv'
<1>1. /\ app' = app /\ results' = results /\ pod' = pod /\ requests' = requests
      /\ podResults' = podResults /\ screen' = screen /\ previous' = previous
      /\ dirty' = dirty /\ resized' = resized /\ stands' = stands
  BY DEF vars
<1>2. AppTypes' /\ PodTypes' /\ Answered'
  BY <1>1 DEF IInv, Types, AppTypes, PodTypes, Answered
<1>3. Painted' /\ Whole'
  BY <1>1 DEF IInv, Painted, Whole, ScreenIsFrame
<1>4. Current'
  BY <1>1 DEF IInv, Current
<1> QED
  BY <1>2, <1>3, <1>4 DEF IInv, Types

LEMMA NextKeeps ==
    ASSUME IInv, [Next]_vars
    PROVE  IInv'
BY AnswersKeep, ApplyKeeps, TickKeeps, KeysKeep, CloseShellKeeps, PaintKeeps, ResizeKeeps,
   ResizedKeeps, StutterKeeps DEF Next

THEOREM Invariant == Spec => []IInv
<1>1. Init => IInv
  BY InitHolds
<1>2. IInv /\ [Next]_vars => IInv'
  BY NextKeeps
<1> QED
  BY <1>1, <1>2, PTL DEF Spec

(* The dashboard is a dashboard: its rows are those of clusters, and a     *)
(* branch of the tree is selected whatever snapshots add and remove.       *)
THEOREM TypeCorrect == Spec => []Types
<1>1. IInv => Types
  BY DEF IInv
<1> QED
  BY <1>1, Invariant, PTL

(* At every moment a key acts on the row, or the branch of the tree, that  *)
(* the screen shows as selected, while it exists: the snapshots that       *)
(* applySnapshot has merged since it was drawn only move it.               *)
THEOREM KeysActOnShown == Spec => []ActsOnShown
<1>1. IInv => ActsOnShown
  BY DEF IInv, Current, ActsOnShown, Drawn
<1> QED
  BY <1>1, Invariant, PTL

(* The panel never shows the metrics of another pod than the one it names, *)
(* in whatever order runSession gets the answers for several pods.         *)
THEOREM PanelIsHonest == Spec => []MetricsOfSelected
<1>1. IInv => MetricsOfSelected
  BY DEF IInv, Current, MetricsOfSelected, Drawn
<1> QED
  BY <1>1, Invariant, PTL

(* When nothing is left to be drawn the screen is the frame, although draw *)
(* writes only the lines that differ from the previous one.                *)
THEOREM ScreenIsWhole == Spec => []ScreenIsFrame
<1>1. IInv => ScreenIsFrame
  BY DEF IInv, Whole
<1> QED
  BY <1>1, Invariant, PTL
=============================================================================
