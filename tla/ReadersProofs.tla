---------------------------- MODULE ReadersProofs ----------------------------
(***************************************************************************)
(* The four parts that turn what arrives into what is shown, each for any  *)
(* values of its constants and each by an invariant of its own.            *)
(*                                                                         *)
(* Node statistics, NodeInv: every sample a program holds is related to    *)
(* what nobody can see: since a sample was taken its counter has grown by  *)
(* no more than the interface has carried, because a reboot can only set   *)
(* it back.                                                                *)
(* Archive queries, PagerInv: every page the reader has opened is a run of *)
(* the matching records, each page begins where the one before it ended,   *)
(* and the export is a prefix of the newest run.                           *)
(* Keyboard, InputInv: what has been sent is what decoding all that was    *)
(* read in one piece since the last pause gives, behind the keys up to it. *)
(* Rows, StatusInv: a row is what its object gives; the proof is that of a *)
(* function.                                                               *)
(***************************************************************************)
EXTENDS Input, NodeStats, Pager, Status, SequenceTheorems, FiniteSetTheorems,
        NaturalsInduction, WellFoundedInduction, TLAPS

-----------------------------------------------------------------------------
(* Node statistics.                                                        *)

\* What can have been carried at time n, before and since the start.
Most(n) == (n + 1) * MaxStep

\* What was carried is within the width, and past times do not change.
Carried ==
    \A i \in Interfaces :
        /\ counter[i] <= truth[i][now]
        /\ truth[i][now] <= Most(now)

Bounded(s) ==
    /\ s.at <= now
    /\ s.bytes # None =>
          /\ s.name \in Interfaces
          /\ counter[s.name] - s.bytes <= truth[s.name][now] - truth[s.name][s.at]

\* The kubelet serves its newest sample.
Recent == sample # Zero => /\ sample.at = now
                           /\ sample.bytes # None => sample.bytes = counter[sample.name]

Known ==
    /\ stats.rate.to <= now /\ stats.rate.from <= now
    /\ stats.rate.bytes # None => stats.name \in Interfaces

NodeInv ==
    NodeTypeOK /\ Carried /\ Bounded(sample) /\ Bounded(previous) /\ Recent /\ Known
    /\ NeverOverstates

-----------------------------------------------------------------------------
(* Arithmetic: what can have been carried fits the width.                  *)

LEMMA Sizes == MaxTime \in Nat /\ MaxStep \in Nat /\ Width \in Nat
BY NodeStatsAssumption

LEMMA MostType == \A n \in Nat : Most(n) \in Nat
BY NodeStatsAssumption DEF Most

LEMMA MostStarts == Most(0) = MaxStep
BY NodeStatsAssumption DEF Most

LEMMA MostGrows == ASSUME NEW n \in Nat PROVE Most(n + 1) = Most(n) + MaxStep
BY NodeStatsAssumption DEF Most

LEMMA MostFits == ASSUME NEW n \in Nat, n <= MaxTime PROVE Most(n) < Width
<1>1. (n + 1) * MaxStep <= (MaxTime + 1) * MaxStep
  BY NodeStatsAssumption
<1> QED
  BY <1>1, NodeStatsAssumption DEF Most

\* What a sample holds, and what the difference of two counters is.
LEMMA SampleTypes ==
    ASSUME NEW s \in Summary
    PROVE  /\ s.at \in Nat /\ s.at \in Times /\ s.name \in Interfaces \cup {""}
           /\ s.bytes # None => s.bytes \in Nat /\ s.bytes \in Amount
<1>1. s.at \in Times /\ s.name \in Interfaces \cup {""} /\ s.bytes \in Amount \cup {None}
  BY DEF Summary
<1>2. Times \subseteq Nat /\ Amount \subseteq Nat
  BY Sizes DEF Times, Amount
<1> QED
  BY <1>1, <1>2

LEMMA RateTypes ==
    ASSUME NEW r \in Rate
    PROVE  /\ r.from \in Nat /\ r.to \in Nat
           /\ r.bytes # None => r.bytes \in Nat
<1>1. r.from \in Times /\ r.to \in Times /\ r.bytes \in Amount \cup {None}
  BY DEF Rate
<1>2. Times \subseteq Nat /\ Amount \subseteq Nat
  BY Sizes DEF Times, Amount
<1> QED
  BY <1>1, <1>2

LEMMA Difference ==
    ASSUME NEW a, NEW b, a \in Amount, b \in Amount, ~(a < b)
    PROVE  a - b \in Nat /\ a - b < Width /\ a - b \in Amount
BY Sizes DEF Amount

LEMMA SmallMod == ASSUME NEW x \in Nat, x < Width PROVE x % Width = x
BY Sizes

-----------------------------------------------------------------------------
LEMMA NodeInitInv == NodeInit => NodeInv
<1> SUFFICES ASSUME NodeInit PROVE NodeInv
  OBVIOUS
<1> USE Sizes
<1>1. MaxStep < Width
  BY MostStarts, MostFits
<1>2. 0 \in Times /\ 0..MaxStep \subseteq Amount
  BY <1>1 DEF Times, Amount
<1>3. counter \in [Interfaces -> Amount] /\ truth \in [Interfaces -> [Times -> Amount]]
  BY <1>2 DEF NodeInit
<1>4. Zero \in Summary /\ NoRate \in Rate
  BY <1>2 DEF Zero, NoRate, Summary, Rate
<1>5. NodeTypeOK
  BY <1>2, <1>3, <1>4 DEF NodeInit, NodeTypeOK
<1>6. Carried
  <2>1. ASSUME NEW i \in Interfaces
        PROVE  /\ truth[i][now] = counter[i] /\ counter[i] \in Nat
               /\ counter[i] <= MaxStep /\ now = 0
    <3>1. counter[i] \in 0..MaxStep /\ now = 0
      BY DEF NodeInit
    <3>2. truth = [k \in Interfaces |-> [t \in Times |-> counter[k]]]
      BY DEF NodeInit
    <3>3. truth[i][0] = counter[i]
      BY <1>2, <3>2
    <3> QED
      BY <3>1, <3>3
  <2>2. ASSUME NEW i \in Interfaces
        PROVE  counter[i] <= truth[i][now] /\ truth[i][now] <= Most(now)
    BY <2>1, MostStarts
  <2> QED
    BY <2>2 DEF Carried
<1>7. Bounded(sample) /\ Bounded(previous)
  <2>1. /\ sample.at = 0 /\ sample.bytes = None /\ now = 0
        /\ previous.at = 0 /\ previous.bytes = None
    BY DEF NodeInit, Zero
  <2> QED
    BY <2>1 DEF Bounded
<1>8. Recent /\ Known /\ NeverOverstates
  <2>1. /\ stats.rate.to = 0 /\ stats.rate.from = 0 /\ stats.rate.bytes = None
        /\ now = 0 /\ sample = Zero
    BY DEF NodeInit, NoRate
  <2>2. Recent /\ NeverOverstates
    BY <2>1 DEF Recent, NeverOverstates, Faster
  <2>3. Known
    BY <2>1 DEF Known
  <2> QED
    BY <2>2, <2>3
<1> QED
  BY <1>5, <1>6, <1>7, <1>8 DEF NodeInv

LEMMA CollectInv ==
    ASSUME NodeInv, NEW d \in [Interfaces -> 0..MaxStep], NEW reboot \in BOOLEAN,
           NEW missing \in BOOLEAN, NEW j \in Interfaces, Collect(d, reboot, j, missing)
    PROVE  NodeInv'
<1> USE Sizes
<1>1. /\ now \in Nat /\ now + 1 \in Times /\ now' = now + 1 /\ 0..now \subseteq Times
      /\ \A i \in Interfaces : d[i] \in Nat /\ d[i] <= MaxStep
  <2>1. now \in 0..MaxTime /\ now < MaxTime /\ now' = now + 1
    BY DEF Collect, NodeInv, NodeTypeOK, Times
  <2>2. now \in Nat /\ now + 1 \in Times /\ 0..now \subseteq Times
    BY <2>1 DEF Times
  <2>3. \A i \in Interfaces : d[i] \in 0..MaxStep
    OBVIOUS
  <2> QED
    BY <2>1, <2>2, <2>3
<1>2. /\ counter \in [Interfaces -> Nat]
      /\ \A i \in Interfaces : \A t \in 0..now : truth[i][t] \in Nat
  <2>1. Amount \subseteq Nat
    BY DEF Amount
  <2>2. counter \in [Interfaces -> Amount] /\ truth \in [Interfaces -> [Times -> Amount]]
    BY DEF NodeInv, NodeTypeOK
  <2>3. counter \in [Interfaces -> Nat]
    BY <2>1, <2>2
  <2>4. \A i \in Interfaces : \A t \in Times : truth[i][t] \in Amount
    BY <2>2
  <2> QED
    BY <1>1, <2>1, <2>3, <2>4
<1>3. \A i \in Interfaces :
        /\ counter'[i] \in Nat /\ counter'[i] <= counter[i] + d[i]
        /\ truth'[i][now'] = truth[i][now] + d[i]
        /\ \A t \in 0..now : truth'[i][t] = truth[i][t]
  <2> TAKE i \in Interfaces
  <2>1. counter'[i] = (IF reboot THEN 0 ELSE counter[i]) + d[i]
    BY DEF Collect
  <2>2. counter'[i] \in Nat /\ counter'[i] <= counter[i] + d[i]
    BY <1>1, <1>2, <2>1
  <2>3. truth' = [k \in Interfaces |->
                    [t \in Times |-> IF t > now THEN truth[k][now] + d[k] ELSE truth[k][t]]]
    BY DEF Collect
  <2>4. \A t \in Times : truth'[i][t] = IF t > now THEN truth[i][now] + d[i] ELSE truth[i][t]
    BY <2>3
  <2>5. now' \in Times /\ now' > now /\ \A t \in 0..now : t \in Times /\ ~(t > now)
    BY <1>1
  <2> QED
    BY <2>2, <2>4, <2>5
<1>4. Carried'
  <2> SUFFICES ASSUME NEW i \in Interfaces
               PROVE  counter'[i] <= truth'[i][now'] /\ truth'[i][now'] <= Most(now')
    BY DEF Carried, Most
  <2>1. Most(now') = Most(now) + MaxStep /\ Most(now) \in Nat
    BY <1>1, MostGrows, MostType
  <2>2. truth[i][now] \in Nat /\ counter[i] \in Nat
    BY <1>1, <1>2
  <2>3. counter[i] <= truth[i][now] /\ truth[i][now] <= Most(now)
    BY DEF NodeInv, Carried
  <2> QED
    BY <1>1, <1>3, <2>1, <2>2, <2>3
<1>5. \A i \in Interfaces : counter'[i] \in Amount /\ truth[i][now] + d[i] \in Amount
  <2> TAKE i \in Interfaces
  <2>1. Most(now') < Width /\ Most(now') \in Nat
    BY <1>1, MostFits, MostType DEF Times
  <2>2. counter'[i] <= truth'[i][now'] /\ truth'[i][now'] <= Most(now')
    BY <1>4 DEF Carried, Most
  <2>3. truth'[i][now'] \in Nat /\ counter'[i] \in Nat
    BY <1>1, <1>2, <1>3
  <2> QED
    BY <1>3, <2>1, <2>2, <2>3 DEF Amount
<1>6. NodeTypeOK'
  <2>1. counter' \in [Interfaces -> Amount]
    BY <1>5 DEF Collect
  <2>2. truth' \in [Interfaces -> [Times -> Amount]]
    BY <1>5 DEF Collect, NodeInv, NodeTypeOK
  <2>3. sample' \in Summary
    BY <1>1, <2>1 DEF Collect, Summary
  <2> QED
    BY <1>1, <2>1, <2>2, <2>3 DEF Collect, NodeInv, NodeTypeOK
<1>7. /\ sample'.at = now' /\ sample'.name = j
      /\ sample'.bytes # None => sample'.bytes = counter'[j]
  BY <1>1 DEF Collect
<1>11. Recent'
  BY <1>7 DEF Recent
<1>8. Bounded(sample)'
  <2>1. truth'[j][now'] \in Nat /\ counter'[j] \in Nat /\ now' \in Nat
    BY <1>1, <1>2, <1>3
  <2>2. /\ counter'[j] - counter'[j] <= truth'[j][now'] - truth'[j][now']
        /\ now' <= now'
    BY <2>1
  <2> QED
    BY <1>7, <2>2 DEF Bounded
<1>9. Bounded(previous)'
  <2>1. previous.at \in 0..now /\ (previous.bytes # None => previous.bytes \in Nat)
    <3>1. previous \in Summary /\ previous.at <= now
      BY DEF NodeInv, NodeTypeOK, Bounded
    <3>2. previous.at \in Nat /\ (previous.bytes # None => previous.bytes \in Nat)
      BY <3>1, SampleTypes
    <3> QED
      BY <1>1, <3>1, <3>2
  <2>2. previous' = previous /\ previous.at <= now'
    <3>1. previous' = previous
      BY DEF Collect
    <3> QED
      BY <1>1, <2>1, <3>1
  <2>3. ASSUME previous.bytes # None
        PROVE  /\ previous.name \in Interfaces
               /\ counter'[previous.name] - previous.bytes
                    <= truth'[previous.name][now'] - truth'[previous.name][previous.at]
    <3> DEFINE i == previous.name
    <3>1. /\ i \in Interfaces
          /\ counter[i] - previous.bytes <= truth[i][now] - truth[i][previous.at]
      BY <2>3 DEF NodeInv, Bounded
    <3>2. /\ truth'[i][now'] = truth[i][now] + d[i]
          /\ truth'[i][previous.at] = truth[i][previous.at]
          /\ counter'[i] <= counter[i] + d[i]
      BY <1>3, <2>1, <3>1
    <3>3. /\ {truth[i][now], truth[i][previous.at], counter[i], counter'[i], d[i]} \subseteq Nat
          /\ previous.bytes \in Nat
      BY <1>1, <1>2, <1>3, <2>1, <2>3, <3>1
    <3> HIDE DEF i
    <3>4. counter'[i] - previous.bytes <= truth'[i][now'] - truth'[i][previous.at]
      BY <3>1, <3>2, <3>3
    <3> QED
      BY <3>1, <3>4 DEF i
  <2> QED
    BY <2>2, <2>3 DEF Bounded
<1>10. Known' /\ NeverOverstates'
  <2>1. stats' = stats /\ peak' = peak
    BY DEF Collect
  <2>2. /\ stats.rate.from \in 0..now /\ stats.rate.to \in 0..now
        /\ stats.rate.bytes # None => stats.name \in Interfaces
    <3>1. stats.rate \in Rate /\ Known
      BY DEF NodeInv, NodeTypeOK
    <3>2. stats.rate.from \in Nat /\ stats.rate.to \in Nat
      BY <3>1, RateTypes
    <3>3. /\ stats.rate.to <= now /\ stats.rate.from <= now
          /\ stats.rate.bytes # None => stats.name \in Interfaces
      BY <3>1 DEF Known
    <3> QED
      BY <1>1, <3>2, <3>3
  <2>3. Known'
    BY <1>1, <2>1, <2>2 DEF Known
  <2>4. stats.rate.bytes # None =>
          /\ truth'[stats.name][stats.rate.to] = truth[stats.name][stats.rate.to]
          /\ truth'[stats.name][stats.rate.from] = truth[stats.name][stats.rate.from]
    BY <1>3, <2>2
  <2> QED
    BY <2>1, <2>3, <2>4 DEF NodeInv, NeverOverstates, Faster
<1> QED
  BY <1>4, <1>6, <1>8, <1>9, <1>10, <1>11 DEF NodeInv

-----------------------------------------------------------------------------
\* What a round computes from the two samples.
Honest(n) ==
    /\ n \in [name : Interfaces \cup {""}, rate : Rate]
    /\ n.rate.to <= now /\ n.rate.from <= now
    /\ n.rate.bytes # None =>
          /\ n.name \in Interfaces
          /\ n.rate.bytes <= truth[n.name][n.rate.to] - truth[n.name][n.rate.from]

LEMMA NowStarts == ASSUME NodeInv PROVE 0 \in Times /\ 0 <= now
<1>1. now \in Times
  BY DEF NodeInv, NodeTypeOK
<1> QED
  BY <1>1, Sizes DEF Times

LEMMA HonestNoRate ==
    ASSUME NodeInv, NEW n, n.name \in Interfaces \cup {""}, n.rate = NoRate,
           n = [name |-> n.name, rate |-> n.rate]
    PROVE  Honest(n)
<1>1. 0 \in Times /\ 0 <= now
  BY NowStarts
<1>2. NoRate \in Rate
  BY <1>1 DEF NoRate, Rate
<1>3. n.rate.to = 0 /\ n.rate.from = 0 /\ n.rate.bytes = None
  <2>1. NoRate.to = 0 /\ NoRate.from = 0 /\ NoRate.bytes = None
    BY DEF NoRate
  <2> QED
    BY <2>1
<1>4. n.rate \in Rate
  BY <1>2
<1>5. n \in [name : Interfaces \cup {""}, rate : Rate]
  BY <1>4
<1> QED
  BY <1>1, <1>3, <1>5 DEF Honest

LEMMA FreshRate ==
    ASSUME NodeInv, sample # Zero, NEW n, n = makeNodeStats(sample, previous)
    PROVE  Honest(n)
<1>1. /\ n.name = sample.name
      /\ n = [name |-> n.name, rate |-> n.rate]
      /\ n.rate = IF sample.name = previous.name THEN counterRate(sample, previous)
                                                 ELSE NoRate
  BY DEF makeNodeStats
<1>2. sample \in Summary /\ previous \in Summary
  BY DEF NodeInv, NodeTypeOK
<1>3. sample.name \in Interfaces \cup {""}
  BY <1>2, SampleTypes
<1>4. CASE n.rate = NoRate
  BY <1>1, <1>3, <1>4, HonestNoRate
<1>5. CASE n.rate # NoRate
  <2>1. /\ sample.name = previous.name
        /\ sample.bytes # None /\ previous.bytes # None
        /\ ~(sample.bytes < previous.bytes)
        /\ n.rate = [bytes |-> (sample.bytes - previous.bytes) % Width,
                     from |-> previous.at, to |-> sample.at]
    BY <1>1, <1>5 DEF counterRate
  <2>2. /\ sample.bytes \in Amount /\ previous.bytes \in Amount
        /\ sample.at \in Times /\ previous.at \in Times
        /\ sample.at \in Nat
    BY <1>2, <2>1, SampleTypes
  <2>3. PICK grown \in Amount :
          /\ grown = sample.bytes - previous.bytes /\ grown \in Nat
          /\ (sample.bytes - previous.bytes) % Width = grown
    <3>1. /\ sample.bytes - previous.bytes \in Nat
          /\ sample.bytes - previous.bytes < Width
          /\ sample.bytes - previous.bytes \in Amount
      BY <2>1, <2>2, Difference
    <3>2. (sample.bytes - previous.bytes) % Width = sample.bytes - previous.bytes
      BY <3>1, SmallMod
    <3> QED
      BY <3>1, <3>2
  <2>4. Recent /\ Bounded(previous)
    BY DEF NodeInv
  <2>5. /\ previous.name \in Interfaces /\ previous.at <= now
        /\ counter[previous.name] - previous.bytes
             <= truth[previous.name][now] - truth[previous.name][previous.at]
    BY <2>1, <2>4 DEF Bounded
  <2>6. sample.at = now /\ sample.bytes = counter[sample.name]
    BY <2>1, <2>4 DEF Recent
  <2>7. n.rate = [bytes |-> grown, from |-> previous.at, to |-> sample.at]
    BY <2>1, <2>3
  <2>8. n.rate.bytes = grown /\ n.rate.from = previous.at /\ n.rate.to = now
    BY <2>6, <2>7
  <2>9. n.rate \in Rate
    BY <2>2, <2>7 DEF Rate
  <2>10. n \in [name : Interfaces \cup {""}, rate : Rate]
    BY <1>1, <1>3, <2>9
  <2>11. n.name \in Interfaces /\ n.name = previous.name
    BY <1>1, <2>1, <2>5
  <2>12. grown <= truth[n.name][now] - truth[n.name][previous.at]
    BY <2>1, <2>3, <2>5, <2>6, <2>11
  <2>13. now <= now
    BY <2>2, <2>6
  <2>14. n.rate.to <= now /\ n.rate.from <= now
    BY <2>5, <2>8, <2>13
  <2>15. n.rate.bytes <= truth[n.name][n.rate.to] - truth[n.name][n.rate.from]
    BY <2>8, <2>12
  <2> QED
    BY <2>10, <2>11, <2>14, <2>15 DEF Honest
<1> QED
  BY <1>4, <1>5

LEMMA PollInv == ASSUME NodeInv, pollNodeStats PROVE NodeInv'
<1> DEFINE n == makeNodeStats(sample, previous)
<1>1. UNCHANGED <<now, iface, counter, truth, sample>> /\ sample # Zero
  BY DEF pollNodeStats
<1>2. Honest(n)
  BY <1>1, FreshRate
<1>3. peak' = n.rate \/ (peak' = peak /\ ~Faster(n.rate, peak))
  BY DEF pollNodeStats, Peak
<1>4. previous' \in {sample, previous}
  BY DEF pollNodeStats, Baseline
<1>5. \/ stats' = n
      \/ stats' = stats /\ sample.at = previous.at
  BY DEF pollNodeStats, Shown
<1>6. ASSUME sample.at = previous.at PROVE n.rate = NoRate
  <2>1. sample.at \in Nat /\ previous.at \in Nat
    BY SampleTypes DEF NodeInv, NodeTypeOK
  <2>2. ~Fresh(sample, previous)
    BY <1>6, <2>1 DEF Fresh
  <2> QED
    BY <2>2 DEF makeNodeStats, counterRate
<1> HIDE DEF n
<1>7. ~Faster(n.rate, n.rate)
  <2>1. n.rate \in Rate
    BY <1>2 DEF Honest
  <2>2. ASSUME n.rate.bytes # None
        PROVE  ~(n.rate.bytes * (n.rate.to - n.rate.from)
                   > n.rate.bytes * (n.rate.to - n.rate.from))
    <3>1. n.rate.bytes \in Nat /\ n.rate.to \in Nat /\ n.rate.from \in Nat
      BY <2>1, <2>2, RateTypes
    <3>2. \A x \in Int : ~(x > x)
      OBVIOUS
    <3>3. n.rate.bytes * (n.rate.to - n.rate.from) \in Int
      BY <3>1
    <3> QED
      BY <3>2, <3>3
  <2> QED
    BY <2>2 DEF Faster
<1>8. n \in [name : Interfaces \cup {""}, rate : Rate] /\ n.rate \in Rate
  BY <1>2 DEF Honest
<1>9. NodeTypeOK'
  BY <1>1, <1>3, <1>4, <1>5, <1>8 DEF NodeInv, NodeTypeOK
<1>12. Carried' /\ Bounded(sample)' /\ Bounded(previous)' /\ Recent'
  BY <1>1, <1>4 DEF NodeInv, Carried, Bounded, Recent, Most
<1>13. CASE stats' = n
  <2>1. ~Faster(stats'.rate, peak')
    BY <1>3, <1>7, <1>13
  <2>2. Known' /\ NeverOverstates'
    BY <1>1, <1>2, <1>13, <2>1 DEF Honest, Known, NeverOverstates, Faster
  <2> QED
    BY <1>9, <1>12, <2>2 DEF NodeInv
<1>14. CASE stats' = stats /\ sample.at = previous.at
  <2>1. peak' = peak
    BY <1>6, <1>14 DEF pollNodeStats, Peak, Faster, NoRate, n
  <2>2. Known' /\ NeverOverstates'
    BY <1>1, <1>14, <2>1 DEF NodeInv, Known, NeverOverstates, Faster
  <2> QED
    BY <1>9, <1>12, <2>2 DEF NodeInv
<1> QED
  BY <1>5, <1>13, <1>14

LEMMA NodeInductive == NodeSpec => []NodeInv
<1>1. NodeInit => NodeInv
  BY NodeInitInv
<1>2. NodeInv /\ [NodeNext]_nodeVars => NodeInv'
  <2> SUFFICES ASSUME NodeInv, [NodeNext]_nodeVars PROVE NodeInv'
    OBVIOUS
  <2>1. ASSUME NEW d \in [Interfaces -> 0..MaxStep], NEW reboot \in BOOLEAN,
               NEW missing \in BOOLEAN, NEW i \in Interfaces,
               Collect(d, reboot, i, missing)
        PROVE  NodeInv'
    BY <2>1, CollectInv
  <2>2. CASE pollNodeStats
    BY <2>2, PollInv
  <2>3. CASE UNCHANGED nodeVars
    BY <2>3 DEF nodeVars, NodeInv, NodeTypeOK, Carried, Bounded, Recent, Known,
       NeverOverstates, Faster, Most
  <2> QED
    BY <2>1, <2>2, <2>3 DEF NodeNext
<1> QED
  BY <1>1, <1>2, PTL DEF NodeSpec

\* No gauge shows more traffic than the interface it names carried between the
\* two samples, whatever the node, its interfaces and the kubelet do.
THEOREM GaugeIsHonest == NodeSpec => []NeverOverstates
<1>1. NodeInv => NeverOverstates
  BY DEF NodeInv
<1> QED
  BY <1>1, NodeInductive, PTL

\* The counters, samples and rates keep their types: nothing overflows.
THEOREM NodeTypeCorrect == NodeSpec => []NodeTypeOK
<1>1. NodeInv => NodeTypeOK
  BY DEF NodeInv
<1> QED
  BY <1>1, NodeInductive, PTL

-----------------------------------------------------------------------------
(* Induction, on the least counterexample.                                 *)

Less == OpToRel(<, Nat)

LEMMA LeastExists ==
    ASSUME NEW S \in SUBSET Nat, S # {}
    PROVE  \E m \in S : \A i \in S : m <= i
<1>1. PICK m \in S : \A i \in S : <<i, m>> \notin Less
  BY NatLessThanWellFounded, WFMin DEF Less
<1>2. ASSUME NEW i \in S PROVE m <= i
  <2>1. <<i, m>> \in Nat \X Nat /\ <<i, m>>[1] = i /\ <<i, m>>[2] = m
    OBVIOUS
  <2>2. ~(i < m)
    BY <1>1, <2>1 DEF Less, OpToRel
  <2> QED
    BY <2>2
<1> QED
  BY <1>2

\* Concatenation, element by element.
Joins(T, s, t, c) ==
    /\ c \in Seq(T) /\ Len(c) = Len(s) + Len(t)
    /\ Len(s) \in Nat /\ Len(t) \in Nat /\ DOMAIN c = 1..(Len(s) + Len(t))
    /\ DOMAIN s = 1..Len(s) /\ DOMAIN t = 1..Len(t)
    /\ \A i \in 1..Len(s) : c[i] = s[i]
    /\ \A i \in 1..Len(t) : c[Len(s) + i] = t[i]

LEMMA ConcatFacts ==
    ASSUME NEW T, NEW s \in Seq(T), NEW t \in Seq(T)
    PROVE  Joins(T, s, t, s \o t)
<1>1. /\ s \o t \in Seq(T) /\ Len(s \o t) = Len(s) + Len(t)
      /\ Len(s) \in Nat /\ Len(t) \in Nat /\ DOMAIN (s \o t) = 1..(Len(s) + Len(t))
      /\ DOMAIN s = 1..Len(s) /\ DOMAIN t = 1..Len(t)
  OBVIOUS
<1>2. \A i \in 1..Len(s) : (s \o t)[i] = s[i]
  OBVIOUS
<1>3. ASSUME NEW i \in 1..Len(t) PROVE (s \o t)[Len(s) + i] = t[i]
  <2>1. Len(s) + i \in 1..(Len(s) + Len(t)) /\ Len(s) + i > Len(s) /\ (Len(s) + i) - Len(s) = i
    BY <1>1
  <2> QED
    BY <2>1
<1> QED
  BY <1>1, <1>2, <1>3 DEF Joins

-----------------------------------------------------------------------------
(* A page, as a function of a store.                                       *)

One(n, ids) == IF n \in ids THEN <<n>> ELSE <<>>

DownOf(most, ids) ==
    LET down[n \in 0..most] ==
          IF n = 0 THEN <<>> ELSE (IF n \in ids THEN <<n>> ELSE <<>>) \o down[n - 1]
    IN down[most]

IsDown(d, most, ids) ==
    \A n \in 0..most : d[n] = IF n = 0 THEN <<>> ELSE One(n, ids) \o d[n - 1]

LEMMA DownExists ==
    ASSUME NEW most \in Nat, NEW ids
    PROVE  \E d \in [0..most -> Seq(Nat)] : IsDown(d, most, ids)
<1> DEFINE Has(k) == \E d \in [0..k -> Seq(Nat)] : IsDown(d, k, ids)
           Bad == {k \in 0..most : ~Has(k)}
<1> HIDE DEF Has
<1>1. SUFFICES ASSUME Bad # {} PROVE FALSE
  <2>1. most \in 0..most /\ (Has(most) => \E d \in [0..most -> Seq(Nat)] : IsDown(d, most, ids))
    BY DEF Has
  <2> QED
    BY <2>1
<1>2. PICK k \in Bad : \A i \in Bad : k <= i
  <2>1. Bad \in SUBSET Nat
    OBVIOUS
  <2> QED
    BY <1>1, <2>1, LeastExists
<1>3. CASE k = 0
  <2> DEFINE g == [n \in 0..0 |-> <<>>]
  <2>1. g \in [0..0 -> Seq(Nat)]
    OBVIOUS
  <2>2. IsDown(g, 0, ids)
    <3>1. \A n \in 0..0 : n = 0 /\ g[n] = <<>>
      OBVIOUS
    <3> HIDE DEF g
    <3> QED
      BY <3>1 DEF IsDown
  <2> HIDE DEF g
  <2>3. Has(0)
    BY <2>1, <2>2 DEF Has
  <2> QED
    BY <1>2, <1>3, <2>3
<1>4. CASE k # 0
  <2>1. k - 1 \in 0..most /\ k - 1 \notin Bad /\ k \in Nat
    BY <1>2, <1>4
  <2>2. PICK f \in [0..(k - 1) -> Seq(Nat)] : IsDown(f, k - 1, ids)
    BY <2>1 DEF Has
  <2> DEFINE x == One(k, ids) \o f[k - 1]
             g == [n \in 0..k |-> IF n = k THEN x ELSE f[n]]
  <2>3. \A n \in 0..k : n # k => n \in 0..(k - 1)
    BY <2>1
  <2>4. \A n \in 0..k : n # 0 => n - 1 \in 0..(k - 1) /\ n - 1 # k /\ n - 1 \in 0..k
    BY <2>1
  <2>5. x \in Seq(Nat) /\ k \in 0..k /\ k # 0
    <3>1. One(k, ids) \in Seq(Nat)
      BY <2>1 DEF One
    <3>2. f[k - 1] \in Seq(Nat)
      BY <2>1, <2>2
    <3> QED
      BY <1>4, <2>1, <3>1, <3>2
  <2> HIDE DEF x
  <2>6. g \in [0..k -> Seq(Nat)]
    BY <2>2, <2>3, <2>5
  <2>7. IsDown(g, k, ids)
    <3> SUFFICES ASSUME NEW n \in 0..k
                 PROVE  g[n] = IF n = 0 THEN <<>> ELSE One(n, ids) \o g[n - 1]
      BY DEF IsDown
    <3>1. n # 0 => g[n - 1] = f[n - 1]
      BY <2>4
    <3>2. CASE n = k
      BY <2>5, <3>1, <3>2 DEF x
    <3>3. CASE n # k
      <4>1. g[n] = f[n] /\ n \in 0..(k - 1)
        BY <2>3, <3>3
      <4>2. f[n] = IF n = 0 THEN <<>> ELSE One(n, ids) \o f[n - 1]
        BY <2>2, <4>1 DEF IsDown
      <4> QED
        BY <3>1, <4>1, <4>2
    <3> QED
      BY <3>2, <3>3
  <2> HIDE DEF g
  <2>8. Has(k)
    BY <2>6, <2>7 DEF Has
  <2> QED
    BY <1>2, <2>8
<1> QED
  BY <1>3, <1>4

\* Two such functions agree where both are defined.
Downs(d, n, e, m, ids) ==
    n \in Nat /\ m \in Nat /\ n <= m /\ IsDown(d, n, ids) /\ IsDown(e, m, ids)

LEMMA DownAgree ==
    ASSUME NEW n, NEW m, NEW ids, NEW d, NEW e, Downs(d, n, e, m, ids)
    PROVE  d[n] = e[n]
<1>0. n \in Nat /\ m \in Nat /\ n <= m /\ IsDown(d, n, ids) /\ IsDown(e, m, ids) /\ n \in 0..n
  BY DEF Downs
<1> DEFINE Bad == {i \in 0..n : d[i] # e[i]}
<1>1. SUFFICES ASSUME Bad # {} PROVE FALSE
  BY <1>0
<1>2. PICK i \in Bad : \A j \in Bad : i <= j
  <2>1. Bad \in SUBSET Nat
    BY <1>0
  <2> QED
    BY <1>1, <2>1, LeastExists
<1>3. i \in 0..n /\ i \in 0..m /\ d[i] # e[i]
  BY <1>0, <1>2
<1>4. /\ d[i] = IF i = 0 THEN <<>> ELSE One(i, ids) \o d[i - 1]
      /\ e[i] = IF i = 0 THEN <<>> ELSE One(i, ids) \o e[i - 1]
  BY <1>0, <1>3 DEF IsDown
<1>5. i # 0 => d[i - 1] = e[i - 1]
  <2> SUFFICES ASSUME i # 0, d[i - 1] # e[i - 1] PROVE FALSE
    OBVIOUS
  <2>1. i - 1 \in Bad /\ ~(i <= i - 1)
    BY <1>0, <1>3
  <2> QED
    BY <1>2, <2>1
<1> QED
  BY <1>3, <1>4, <1>5

LEMMA DownOfIs ==
    ASSUME NEW most \in Nat, NEW ids
    PROVE  \E d \in [0..most -> Seq(Nat)] : IsDown(d, most, ids) /\ DownOf(most, ids) = d[most]
<1> DEFINE P(f) == f = [n \in 0..most |->
                          IF n = 0 THEN <<>> ELSE (IF n \in ids THEN <<n>> ELSE <<>>) \o f[n - 1]]
           c == CHOOSE f : P(f)
<1>1. DownOf(most, ids) = c[most]
  BY DEF DownOf
<1>2. PICK d \in [0..most -> Seq(Nat)] : IsDown(d, most, ids)
  BY DownExists
<1>3. P(d)
  BY <1>2 DEF IsDown, One
<1>4. P(c)
  BY <1>3
<1> HIDE DEF c
<1>5. IsDown(c, most, ids)
  <2>1. \A n \in 0..most : c[n] =
           IF n = 0 THEN <<>> ELSE (IF n \in ids THEN <<n>> ELSE <<>>) \o c[n - 1]
    BY <1>4
  <2> QED
    BY <2>1 DEF IsDown, One
<1> HIDE DEF P
<1>6. most \in 0..most /\ most <= most
  OBVIOUS
<1>7. c[most] = d[most]
  <2>1. Downs(c, most, d, most, ids)
    BY <1>2, <1>5, <1>6 DEF Downs
  <2> QED
    BY <2>1, DownAgree
<1> QED
  BY <1>1, <1>2, <1>7

\* The members of ids up to n, from the highest down.
Sorted(s, ids, n) ==
    /\ s \in Seq(Nat)
    /\ \A i \in DOMAIN s : s[i] \in ids /\ s[i] \in 1..n
    /\ \A id \in 1..n : id \in ids => \E i \in DOMAIN s : s[i] = id
    /\ \A i, j \in DOMAIN s : i < j => s[i] > s[j]

LEMMA SortedStep ==
    ASSUME NEW n \in Nat, n # 0, NEW ids, NEW t, Sorted(t, ids, n - 1)
    PROVE  Sorted(One(n, ids) \o t, ids, n)
<1>1. /\ t \in Seq(Nat) /\ \A i \in DOMAIN t : t[i] \in ids /\ t[i] \in 1..(n - 1)
      /\ \A id \in 1..(n - 1) : id \in ids => \E i \in DOMAIN t : t[i] = id
      /\ \A i, j \in DOMAIN t : i < j => t[i] > t[j]
  BY DEF Sorted
<1>2. CASE n \in ids
  <2> DEFINE h == <<n>>
             c == h \o t
  <2>1. h \in Seq(Nat) /\ Len(h) = 1 /\ h[1] = n
    OBVIOUS
  <2>2. One(n, ids) \o t = c
    BY <1>2 DEF One
  <2> HIDE DEF h
  <2>3. Joins(Nat, h, t, c)
    BY <1>1, <2>1, ConcatFacts
  <2> HIDE DEF c
  <2>4. /\ c \in Seq(Nat) /\ Len(t) \in Nat /\ DOMAIN c = 1..(1 + Len(t)) /\ DOMAIN t = 1..Len(t)
        /\ c[1] = n /\ \A i \in 1..Len(t) : c[1 + i] = t[i]
    BY <2>1, <2>3 DEF Joins
  <2>5. \A i \in DOMAIN c : i = 1 \/ (i - 1 \in DOMAIN t /\ c[i] = t[i - 1])
    <3> TAKE i \in DOMAIN c
    <3>1. i # 1 => i - 1 \in 1..Len(t) /\ 1 + (i - 1) = i
      BY <2>4
    <3> QED
      BY <2>4, <3>1
  <2>6. \A i \in DOMAIN c : c[i] \in ids /\ c[i] \in 1..n
    BY <1>1, <1>2, <2>4, <2>5
  <2>7. \A id \in 1..n : id \in ids => \E i \in DOMAIN c : c[i] = id
    <3> SUFFICES ASSUME NEW id \in 1..n, id \in ids PROVE \E i \in DOMAIN c : c[i] = id
      OBVIOUS
    <3>1. CASE id = n
      BY <2>4, <3>1
    <3>2. CASE id # n
      <4>1. id \in 1..(n - 1)
        BY <3>2
      <4>2. PICK i \in DOMAIN t : t[i] = id
        BY <1>1, <4>1
      <4>3. 1 + i \in DOMAIN c /\ c[1 + i] = id
        BY <2>4, <4>2
      <4> QED
        BY <4>3
    <3> QED
      BY <3>1, <3>2
  <2>8. \A i, j \in DOMAIN c : i < j => c[i] > c[j]
    <3> SUFFICES ASSUME NEW i \in DOMAIN c, NEW j \in DOMAIN c, i < j PROVE c[i] > c[j]
      OBVIOUS
    <3>1. j # 1 /\ j - 1 \in DOMAIN t /\ c[j] = t[j - 1]
      BY <2>4, <2>5
    <3>2. CASE i = 1
      BY <1>1, <2>4, <3>1, <3>2
    <3>3. CASE i # 1
      <4>1. i - 1 \in DOMAIN t /\ c[i] = t[i - 1] /\ i - 1 < j - 1
        BY <2>4, <2>5, <3>3
      <4> QED
        BY <1>1, <3>1, <4>1
    <3> QED
      BY <3>2, <3>3
  <2> QED
    BY <2>2, <2>4, <2>6, <2>7, <2>8 DEF Sorted
<1>3. CASE n \notin ids
  <2>1. One(n, ids) \o t = t
    BY <1>1, <1>3 DEF One
  <2>2. \A id \in 1..n : id \in ids => id \in 1..(n - 1)
    BY <1>3
  <2>3. \A i \in DOMAIN t : t[i] \in 1..n
    BY <1>1
  <2> QED
    BY <1>1, <2>1, <2>2, <2>3 DEF Sorted
<1> QED
  BY <1>2, <1>3

LEMMA DownSorted ==
    ASSUME NEW most \in Nat, NEW ids, NEW d, IsDown(d, most, ids), NEW k \in 0..most
    PROVE  Sorted(d[k], ids, k)
<1> DEFINE Bad == {i \in 0..most : ~Sorted(d[i], ids, i)}
<1>1. SUFFICES ASSUME Bad # {} PROVE FALSE
  OBVIOUS
<1>2. PICK i \in Bad : \A j \in Bad : i <= j
  <2>1. Bad \in SUBSET Nat
    OBVIOUS
  <2> QED
    BY <1>1, <2>1, LeastExists
<1>3. d[i] = IF i = 0 THEN <<>> ELSE One(i, ids) \o d[i - 1]
  BY <1>2 DEF IsDown
<1>4. CASE i = 0
  <2>1. Sorted(<<>>, ids, 0)
    BY DEF Sorted
  <2> QED
    BY <1>2, <1>3, <1>4, <2>1
<1>5. CASE i # 0
  <2>1. i - 1 \in 0..most /\ i - 1 \notin Bad /\ i \in Nat
    BY <1>2, <1>5
  <2>2. Sorted(d[i - 1], ids, i - 1)
    BY <2>1
  <2>3. Sorted(One(i, ids) \o d[i - 1], ids, i)
    BY <1>5, <2>1, <2>2, SortedStep
  <2> QED
    BY <1>2, <1>3, <1>5, <2>3
<1> QED
  BY <1>4, <1>5

-----------------------------------------------------------------------------
(* A page of a store.                                                      *)

Match(st, kind, before) == {id \in DOMAIN st : kind \in {All, st[id]} /\ Below(id, before)}

Page(st, kind, before) ==
    LET all == DownOf(Len(st), Match(st, kind, before)) IN
    SubSeq(all, 1, IF Len(all) < PageSize THEN Len(all) ELSE PageSize)

LEMMA PageIs ==
    ASSUME NEW kind, NEW before
    PROVE  archiveSQL(kind, before) = Page(store, kind, before)
BY DEF archiveSQL, Page, Descending, DownOf, Match, Matching, Ids

\* From the highest down, members of S; and everything of S from its last row on.
Descends(rows) == \A i, j \in DOMAIN rows : i < j => rows[i] > rows[j]

PageOf(rows, S) ==
    /\ rows \in Seq(Nat) /\ Len(rows) \in 0..PageSize /\ DOMAIN rows = 1..Len(rows)
    /\ \A i \in DOMAIN rows : rows[i] \in S
    /\ Descends(rows)
    /\ \A id \in S : Len(rows) < PageSize \/ (rows # <<>> /\ rows[Len(rows)] <= id)
                        => \E i \in DOMAIN rows : rows[i] = id

LEMMA CutFacts ==
    ASSUME NEW T, NEW s \in Seq(T), NEW c \in 0..Len(s)
    PROVE  LET t == SubSeq(s, 1, c) IN
           /\ t \in Seq(T) /\ Len(t) = c /\ DOMAIN t = 1..c
           /\ \A i \in 1..c : t[i] = s[i]
<1>1. \A i \in 1..c : s[i] \in T /\ i \in 1..Len(s)
  OBVIOUS
<1> QED
  BY <1>1

LEMMA PageFacts ==
    ASSUME NEW st \in Seq(RecordKinds), NEW kind, NEW before
    PROVE  PageOf(Page(st, kind, before), Match(st, kind, before))
<1> DEFINE S == Match(st, kind, before)
           all == DownOf(Len(st), S)
           c == IF Len(all) < PageSize THEN Len(all) ELSE PageSize
           t == SubSeq(all, 1, c)
<1>1. Len(st) \in Nat /\ DOMAIN st = 1..Len(st) /\ Len(st) \in 0..Len(st)
  OBVIOUS
<1>2. Sorted(all, S, Len(st))
  BY <1>1, DownOfIs, DownSorted
<1>3. Page(st, kind, before) = t
  BY DEF Page
<1>4. \A id \in S : id \in 1..Len(st)
  BY <1>1 DEF Match
<1> HIDE DEF S, all
<1>5. /\ all \in Seq(Nat) /\ \A i \in DOMAIN all : all[i] \in S /\ all[i] \in 1..Len(st)
      /\ \A id \in S : \E i \in DOMAIN all : all[i] = id
      /\ \A i, j \in DOMAIN all : i < j => all[i] > all[j]
  BY <1>2, <1>4 DEF Sorted
<1> DEFINE m == Len(all)
<1>a. m \in Nat /\ DOMAIN all = 1..m /\ PageSize \in Nat /\ PageSize > 0
  BY <1>5, PagerAssumption
<1>b. c = IF m < PageSize THEN m ELSE PageSize
  OBVIOUS
<1> HIDE DEF c, m
<1>6. c \in Nat /\ c <= m /\ c \in 0..m /\ c <= PageSize /\ (c < PageSize => c = m)
      /\ m \in Nat /\ DOMAIN all = 1..m /\ PageSize \in Nat /\ PageSize > 0
  BY <1>a, <1>b
<1>7. t \in Seq(Nat) /\ Len(t) = c /\ DOMAIN t = 1..c /\ \A i \in 1..c : t[i] = all[i]
  BY <1>5, <1>6, CutFacts DEF m
<1> HIDE DEF t
<1>8. \A i \in 1..c : i \in DOMAIN all
  BY <1>6
<1>9. \A i \in DOMAIN t : t[i] \in S
  BY <1>5, <1>7, <1>8
<1>10. Descends(t)
  BY <1>5, <1>7, <1>8 DEF Descends
<1>11. ASSUME NEW id \in S, Len(t) < PageSize \/ (t # <<>> /\ t[Len(t)] <= id)
       PROVE  \E i \in DOMAIN t : t[i] = id
  <2>1. PICK k \in DOMAIN all : all[k] = id
    BY <1>5
  <2>2. CASE k <= c
    <3>1. k \in 1..c
      BY <1>6, <2>1, <2>2
    <3> QED
      BY <1>7, <2>1, <3>1
  <2>3. CASE k > c
    <3>1. c = PageSize /\ c \in 1..c /\ c \in DOMAIN all
      BY <1>6, <2>1, <2>3, PagerAssumption
    <3>2. all[c] <= id /\ all[c] > all[k] /\ all[c] \in Nat /\ all[k] \in Nat
      BY <1>5, <1>7, <1>11, <2>1, <2>3, <3>1
    <3> QED
      BY <2>1, <3>2
  <2> QED
    BY <1>6, <2>1, <2>2, <2>3
<1>12. t \in Seq(Nat) /\ Len(t) \in 0..PageSize /\ DOMAIN t = 1..Len(t)
  BY <1>6, <1>7
<1> QED
  BY <1>3, <1>9, <1>10, <1>11, <1>12 DEF PageOf, S

\* A record that is added after the bound does not change the page below it.
LEMMA DownIs ==
    ASSUME NEW most \in Nat, NEW ids
    PROVE  \E d : IsDown(d, most, ids) /\ DownOf(most, ids) = d[most]
                  /\ \A k \in 0..most : d[k] \in Seq(Nat)
<1>1. PICK d \in [0..most -> Seq(Nat)] : IsDown(d, most, ids) /\ DownOf(most, ids) = d[most]
  BY DownOfIs
<1>2. \A k \in 0..most : d[k] \in Seq(Nat)
  OBVIOUS
<1> QED
  BY <1>1, <1>2

LEMMA DownLonger ==
    ASSUME NEW n \in Nat, NEW m \in Nat, NEW ids, m = n + 1, m \notin ids
    PROVE  DownOf(m, ids) = DownOf(n, ids)
<1>1. n <= m /\ n \in 0..n /\ n \in 0..m /\ m \in 0..m /\ m # 0 /\ m - 1 = n
  OBVIOUS
<1>2. PICK d : IsDown(d, n, ids) /\ DownOf(n, ids) = d[n]
  BY DownIs
<1>3. PICK e : IsDown(e, m, ids) /\ DownOf(m, ids) = e[m] /\ \A k \in 0..m : e[k] \in Seq(Nat)
  BY DownIs
<1>4. d[n] = e[n]
  <2>1. Downs(d, n, e, m, ids)
    BY <1>1, <1>2, <1>3 DEF Downs
  <2> QED
    BY <2>1, DownAgree
<1>5. e[m] = One(m, ids) \o e[m - 1]
  BY <1>1, <1>3 DEF IsDown
<1>6. One(m, ids) = <<>> /\ e[n] \in Seq(Nat)
  BY <1>1, <1>3 DEF One
<1>7. e[m] = <<>> \o e[n]
  BY <1>1, <1>5, <1>6
<1> HIDE DEF One
<1>8. \A x \in Seq(Nat) : <<>> \o x = x
  OBVIOUS
<1> QED
  BY <1>2, <1>3, <1>4, <1>6, <1>7, <1>8

LEMMA Grown ==
    ASSUME NEW st \in Seq(RecordKinds), NEW k \in RecordKinds
    PROVE  /\ Append(st, k) \in Seq(RecordKinds) /\ Len(Append(st, k)) = Len(st) + 1
           /\ Len(st) \in Nat /\ DOMAIN st = 1..Len(st)
           /\ DOMAIN Append(st, k) = 1..(Len(st) + 1)
           /\ \A id \in 1..Len(st) : Append(st, k)[id] = st[id]
OBVIOUS

LEMMA MatchGrows ==
    ASSUME NEW st \in Seq(RecordKinds), NEW k \in RecordKinds, NEW kind, NEW before
    PROVE  /\ Match(st, kind, before) \subseteq Match(Append(st, k), kind, before)
           /\ \A id \in Match(Append(st, k), kind, before) :
                 id \in Match(st, kind, before) \/ id = Len(st) + 1
           /\ \A id \in Match(st, kind, before) : id \in 1..Len(st)
<1> DEFINE w == Append(st, k)
<1>1. /\ DOMAIN st = 1..Len(st) /\ DOMAIN w = 1..(Len(st) + 1) /\ Len(st) \in Nat
      /\ \A id \in 1..Len(st) : w[id] = st[id]
  BY Grown
<1> HIDE DEF w
<1>2. \A id \in DOMAIN w : id \in DOMAIN st \/ id = Len(st) + 1
  BY <1>1
<1>3. \A id \in DOMAIN st : id \in DOMAIN w /\ w[id] = st[id]
  BY <1>1
<1>4. Match(st, kind, before) \subseteq Match(w, kind, before)
  BY <1>3 DEF Match
<1>5. \A id \in Match(w, kind, before) : id \in Match(st, kind, before) \/ id = Len(st) + 1
  BY <1>2, <1>3 DEF Match
<1>6. \A id \in Match(st, kind, before) : id \in 1..Len(st)
  BY <1>1 DEF Match
<1> QED
  BY <1>4, <1>5, <1>6 DEF w

LEMMA PageStable ==
    ASSUME NEW st \in Seq(RecordKinds), NEW k \in RecordKinds, NEW kind, NEW before \in DOMAIN st
    PROVE  Page(Append(st, k), kind, before) = Page(st, kind, before)
<1> DEFINE w == Append(st, k)
<1>1. /\ DOMAIN st = 1..Len(st) /\ Len(st) \in Nat /\ Len(w) = Len(st) + 1
      /\ before \in 1..Len(st)
  BY Grown
<1>2. Len(st) + 1 \notin Match(w, kind, before)
  <2>1. ~Below(Len(st) + 1, before)
    BY <1>1 DEF Below
  <2> QED
    BY <2>1 DEF Match
<1>3. Match(w, kind, before) = Match(st, kind, before)
  <2>1. /\ Match(st, kind, before) \subseteq Match(w, kind, before)
        /\ \A id \in Match(w, kind, before) : id \in Match(st, kind, before) \/ id = Len(st) + 1
    BY MatchGrows
  <2> QED
    BY <1>2, <2>1
<1>4. Len(st) + 1 \notin Match(st, kind, before)
  BY <1>2, <1>3
<1> HIDE DEF w
<1>5. DownOf(Len(w), Match(w, kind, before)) = DownOf(Len(st), Match(st, kind, before))
  <2>1. Len(w) \in Nat /\ Len(w) \notin Match(st, kind, before)
    BY <1>1, <1>4
  <2> QED
    BY <1>1, <1>3, <2>1, DownLonger
<1>6. Page(w, kind, before) = Page(st, kind, before)
  BY <1>5 DEF Page
<1> QED
  BY <1>6 DEF w

-----------------------------------------------------------------------------
(* Rows read so far: from the highest down, without a gap.                 *)

Run(rows, S) ==
    /\ rows \in Seq(Nat) /\ DOMAIN rows = 1..Len(rows) /\ Len(rows) \in Nat
    /\ \A i \in DOMAIN rows : rows[i] \in S
    /\ Descends(rows)
    /\ \A id \in S : rows # <<>> /\ rows[Len(rows)] <= id /\ id <= rows[1]
                        => \E i \in DOMAIN rows : rows[i] = id

LEMMA RunOfPage ==
    ASSUME NEW rows, NEW S, PageOf(rows, S)
    PROVE  Run(rows, S)
BY PagerAssumption DEF PageOf, Run

LEMMA RunOfNone ==
    ASSUME NEW S
    PROVE  Run(<<>>, S)
BY DEF Run, Descends

LEMMA NotEmpty ==
    ASSUME NEW rows \in Seq(Nat), rows # <<>>
    PROVE  Len(rows) \in Nat /\ Len(rows) >= 1 /\ DOMAIN rows = 1..Len(rows)
           /\ 1 \in DOMAIN rows /\ Len(rows) \in DOMAIN rows
           /\ rows[Len(rows)] \in Nat /\ rows[1] \in Nat
OBVIOUS

LEMMA RunGrows ==
    ASSUME NEW rows, NEW S, NEW T, NEW new \in Nat, Run(rows, S), S \subseteq T,
           \A id \in S : id \in Nat /\ id < new, \A id \in T : id \in S \/ id = new
    PROVE  Run(rows, T)
<1>1. /\ rows \in Seq(Nat) /\ DOMAIN rows = 1..Len(rows) /\ Len(rows) \in Nat
      /\ \A i \in DOMAIN rows : rows[i] \in S
      /\ Descends(rows)
      /\ \A id \in S : rows # <<>> /\ rows[Len(rows)] <= id /\ id <= rows[1]
                          => \E i \in DOMAIN rows : rows[i] = id
  BY DEF Run
<1>2. ASSUME NEW id \in T, rows # <<>>, rows[Len(rows)] <= id, id <= rows[1]
      PROVE  \E i \in DOMAIN rows : rows[i] = id
  <2>1. 1 \in DOMAIN rows /\ rows[1] \in Nat
    BY <1>1, <1>2, NotEmpty
  <2>2. rows[1] < new
    BY <1>1, <2>1
  <2>3. id # new
    BY <1>2, <2>1, <2>2
  <2> QED
    BY <1>1, <1>2, <2>3
<1>3. \A i \in DOMAIN rows : rows[i] \in T
  BY <1>1
<1> QED
  BY <1>1, <1>2, <1>3 DEF Run

\* What lies below the last row, or everything before the first request.
Rest(rows, S) == {id \in S : rows # <<>> => id < rows[Len(rows)]}

\* A page appended to the rows it continues.
LEMMA RunJoins ==
    ASSUME NEW a, NEW b, NEW S \in SUBSET Nat, Run(a, S), PageOf(b, Rest(a, S))
    PROVE  Run(a \o b, S)
<1> DEFINE c == a \o b
           n == Len(a)
           m == Len(b)
<1>1. /\ a \in Seq(Nat) /\ DOMAIN a = 1..n /\ n \in Nat
      /\ \A i \in DOMAIN a : a[i] \in S
      /\ \A i, j \in DOMAIN a : i < j => a[i] > a[j]
      /\ \A id \in S : a # <<>> /\ a[n] <= id /\ id <= a[1]
                          => \E i \in DOMAIN a : a[i] = id
  BY DEF Run, Descends
<1>2. /\ b \in Seq(Nat) /\ DOMAIN b = 1..m /\ m \in Nat
      /\ \A i \in DOMAIN b : b[i] \in Rest(a, S)
      /\ \A i, j \in DOMAIN b : i < j => b[i] > b[j]
      /\ \A id \in Rest(a, S) : b # <<>> /\ b[m] <= id => \E i \in DOMAIN b : b[i] = id
  BY PagerAssumption DEF PageOf, Descends
<1>3. /\ c \in Seq(Nat) /\ Len(c) = n + m /\ DOMAIN c = 1..(n + m)
      /\ \A i \in 1..n : c[i] = a[i]
      /\ \A i \in 1..m : c[n + i] = b[i]
  BY <1>1, <1>2, ConcatFacts DEF Joins
<1>4. a = <<>> => n = 0
  OBVIOUS
<1>4a. a # <<>> => n \in 1..n /\ 1 \in 1..n
  <2> HIDE DEF c, n, m
  <2> SUFFICES ASSUME a # <<>> PROVE n \in 1..n /\ 1 \in 1..n
    OBVIOUS
  <2> QED
    BY <1>1, NotEmpty DEF n
<1>4b. b # <<>> => m \in 1..m
  <2> SUFFICES ASSUME b # <<>> PROVE m \in 1..m
    OBVIOUS
  <2> QED
    BY <1>2, NotEmpty
<1> HIDE DEF c, n, m
<1>5. \A i \in DOMAIN c : (i \in 1..n /\ c[i] = a[i]) \/ (i - n \in 1..m /\ i > n /\ c[i] = b[i - n])
  <2> TAKE i \in DOMAIN c
  <2>1. i > n => i - n \in 1..m /\ n + (i - n) = i
    BY <1>1, <1>2, <1>3
  <2>2. ~(i > n) => i \in 1..n
    BY <1>1, <1>2, <1>3
  <2> QED
    BY <1>3, <2>1, <2>2
<1>6. \A i \in 1..m : b[i] \in S /\ b[i] \in Nat /\ (a # <<>> => b[i] < a[n])
  BY <1>2 DEF Rest, n
<1>7. \A i \in 1..n : a[i] \in Nat /\ a[n] \in Nat /\ a[i] >= a[n] /\ n \in 1..n /\ a # <<>>
  <2> TAKE i \in 1..n
  <2>1. n \in 1..n
    BY <1>1
  <2>2. i < n => a[i] > a[n]
    BY <1>1, <2>1
  <2>3. a[i] \in Nat /\ a[n] \in Nat
    BY <1>1, <2>1
  <2>4. a # <<>>
    BY <1>1, <1>4
  <2>5. i = n \/ i < n
    BY <1>1
  <2> QED
    BY <2>1, <2>2, <2>3, <2>4, <2>5
<1>8. \A i \in DOMAIN c : c[i] \in S
  BY <1>1, <1>5, <1>6
<1>9. ASSUME NEW i \in DOMAIN c, NEW j \in DOMAIN c, i < j PROVE c[i] > c[j]
  <2>1. CASE j \in 1..n /\ c[j] = a[j]
    <3>1. i \in 1..n /\ i \in Nat /\ j \in Nat
      BY <1>1, <1>2, <1>3, <1>9, <2>1
    <3>2. c[i] = a[i]
      BY <1>3, <3>1
    <3> QED
      BY <1>1, <1>9, <2>1, <3>1, <3>2
  <2>2. CASE j - n \in 1..m /\ j > n /\ c[j] = b[j - n]
    <3>1. CASE i \in 1..n /\ c[i] = a[i]
      <4>1. b[j - n] < a[n] /\ b[j - n] \in Nat /\ a[i] >= a[n] /\ a[i] \in Nat /\ a[n] \in Nat
        BY <1>6, <1>7, <2>2, <3>1
      <4> QED
        BY <2>2, <3>1, <4>1
    <3>2. CASE i - n \in 1..m /\ i > n /\ c[i] = b[i - n]
      <4>1. i - n < j - n
        BY <1>1, <1>2, <1>3, <1>9
      <4> QED
        BY <1>2, <2>2, <3>2, <4>1
    <3> QED
      BY <1>5, <3>1, <3>2
  <2> QED
    BY <1>5, <2>1, <2>2
<1>10. ASSUME NEW id \in S, c # <<>>, c[n + m] <= id, id <= c[1]
       PROVE  \E i \in DOMAIN c : c[i] = id
  <2>0. id \in Nat
    OBVIOUS
  <2>1. CASE \E i \in DOMAIN a : a[i] = id
    <3>1. PICK i \in DOMAIN a : a[i] = id
      BY <2>1
    <3>2. i \in DOMAIN c /\ c[i] = id
      BY <1>1, <1>2, <1>3, <3>1
    <3> QED
      BY <3>2
  <2>2. CASE \E i \in DOMAIN b : b[i] = id
    <3>1. PICK i \in DOMAIN b : b[i] = id
      BY <2>2
    <3>2. n + i \in DOMAIN c /\ c[n + i] = id
      BY <1>1, <1>2, <1>3, <3>1
    <3> QED
      BY <3>2
  <2>3. CASE a # <<>>
    <3>1. c[1] = a[1] /\ n \in 1..n /\ a[n] \in Nat
      BY <1>1, <1>3, <1>4a, <2>3
    <3>2. CASE a[n] <= id
      BY <1>1, <1>10, <2>1, <2>3, <3>1, <3>2
    <3>3. CASE ~(a[n] <= id)
      <4>1. id \in Rest(a, S)
        BY <2>0, <3>1, <3>3 DEF Rest, n
      <4>2. CASE b = <<>>
        <5>1. m = 0
          BY <4>2 DEF m
        <5>2. c[n + m] = a[n]
          BY <1>1, <1>3, <3>1, <5>1
        <5> QED
          BY <1>10, <3>3, <5>2
      <4>3. CASE b # <<>>
        <5>1. c[n + m] = b[m]
          BY <1>3, <1>4b, <4>3
        <5> QED
          BY <1>2, <1>10, <2>2, <4>1, <4>3, <5>1
      <4> QED
        BY <4>2, <4>3
    <3> QED
      BY <3>2, <3>3
  <2>4. CASE a = <<>>
    <3>1. id \in Rest(a, S)
      BY <2>4 DEF Rest
    <3>2. b # <<>>
      <4> SUFFICES ASSUME b = <<>> PROVE FALSE
        OBVIOUS
      <4>1. m = 0 /\ n = 0
        BY <1>4, <2>4 DEF m
      <4>2. Len(c) = 0
        BY <1>3, <4>1
      <4> QED
        BY <1>3, <1>10, <4>2
    <3>3. c[n + m] = b[m]
      BY <1>3, <1>4b, <3>2
    <3> QED
      BY <1>2, <1>10, <2>2, <3>1, <3>2, <3>3
  <2> QED
    BY <2>3, <2>4
<1>11. Len(c) \in Nat /\ DOMAIN c = 1..Len(c)
  BY <1>1, <1>2, <1>3
<1> QED
  BY <1>3, <1>8, <1>9, <1>10, <1>11 DEF Run, Descends, c

-----------------------------------------------------------------------------
(* What the view shows, or is about to show, of a store.                   *)

Given(rows, st, kind, before) ==
    /\ Run(rows, Match(st, kind, before))
    /\ before # 0 /\ rows # <<>> => rows = Page(st, kind, before)

LEMMA GivenNone ==
    ASSUME NEW st, NEW kind, NEW before
    PROVE  Given(<<>>, st, kind, before)
BY RunOfNone DEF Given

LEMMA GivenPage ==
    ASSUME NEW st \in Seq(RecordKinds), NEW kind, NEW before
    PROVE  Given(Page(st, kind, before), st, kind, before)
BY PageFacts, RunOfPage DEF Given

LEMMA RunOfMatchGrows ==
    ASSUME NEW st \in Seq(RecordKinds), NEW k \in RecordKinds, NEW kind, NEW before,
           NEW rows, Run(rows, Match(st, kind, before))
    PROVE  Run(rows, Match(Append(st, k), kind, before))
<1> DEFINE S == Match(st, kind, before)
           T == Match(Append(st, k), kind, before)
           new == Len(st) + 1
<1>1. new \in Nat /\ Len(st) \in Nat
  OBVIOUS
<1>2. S \subseteq T /\ (\A id \in T : id \in S \/ id = new) /\ \A id \in S : id \in 1..Len(st)
  BY MatchGrows
<1>3. \A id \in S : id \in Nat /\ id < new
  BY <1>1, <1>2
<1>4. Run(rows, S)
  OBVIOUS
<1> HIDE DEF S, T, new
<1>5. Run(rows, T)
  BY <1>1, <1>2, <1>3, <1>4, RunGrows
<1> QED
  BY <1>5 DEF T

LEMMA GivenGrows ==
    ASSUME NEW st \in Seq(RecordKinds), NEW k \in RecordKinds, NEW kind, NEW before,
           before = 0 \/ before \in DOMAIN st,
           NEW rows, Given(rows, st, kind, before)
    PROVE  Given(rows, Append(st, k), kind, before)
<1>1. Run(rows, Match(Append(st, k), kind, before))
  BY RunOfMatchGrows DEF Given
<1>2. before # 0 /\ rows # <<>> => rows = Page(Append(st, k), kind, before)
  BY PageStable DEF Given
<1> QED
  BY <1>1, <1>2 DEF Given

-----------------------------------------------------------------------------
(* The bounds of the pages on the way: the first is no bound, each of the  *)
(* others is a record, the last one of the page before it.                 *)

Path(tr, st, kind) ==
    /\ tr \in Seq(Nat) /\ Len(tr) \in Nat /\ Len(tr) >= 1 /\ DOMAIN tr = 1..Len(tr)
    /\ tr[1] = 0
    /\ \A i \in 2..Len(tr) : tr[i] \in DOMAIN st
    /\ \A i \in 2..Len(tr) - 1 : Last(Page(st, kind, tr[i])) = tr[i + 1]

LEMMA PathOne ==
    ASSUME NEW st, NEW kind
    PROVE  Path(Append(<<>>, 0), st, kind)
<1>1. Append(<<>>, 0) \in Seq(Nat) /\ Len(Append(<<>>, 0)) = 1 /\ Append(<<>>, 0)[1] = 0
      /\ DOMAIN Append(<<>>, 0) = 1..1
  OBVIOUS
<1> DEFINE tr == Append(<<>>, 0)
<1> HIDE DEF tr
<1>2. tr \in Seq(Nat) /\ Len(tr) = 1 /\ tr[1] = 0 /\ DOMAIN tr = 1..1
  BY <1>1 DEF tr
<1>3. Path(tr, st, kind)
  BY <1>2 DEF Path
<1> QED
  BY <1>3 DEF tr

LEMMA AppendFacts ==
    ASSUME NEW s \in Seq(Nat), NEW x \in Nat
    PROVE  /\ Append(s, x) \in Seq(Nat) /\ Len(Append(s, x)) = Len(s) + 1 /\ Len(s) \in Nat
           /\ DOMAIN Append(s, x) = 1..(Len(s) + 1) /\ DOMAIN s = 1..Len(s)
           /\ \A i \in 1..Len(s) : Append(s, x)[i] = s[i]
           /\ Append(s, x)[Len(s) + 1] = x
OBVIOUS

LEMMA PathGrows ==
    ASSUME NEW st \in Seq(RecordKinds), NEW k \in RecordKinds, NEW kind, NEW tr, Path(tr, st, kind)
    PROVE  Path(tr, Append(st, k), kind)
<1> DEFINE w == Append(st, k)
<1>1. /\ tr \in Seq(Nat) /\ Len(tr) \in Nat /\ Len(tr) >= 1 /\ DOMAIN tr = 1..Len(tr)
      /\ tr[1] = 0
      /\ \A i \in 2..Len(tr) : tr[i] \in DOMAIN st
      /\ \A i \in 2..Len(tr) - 1 : Last(Page(st, kind, tr[i])) = tr[i + 1]
  BY DEF Path
<1>2. \A id \in DOMAIN st : id \in DOMAIN w /\ Page(w, kind, id) = Page(st, kind, id)
  <2>1. \A id \in DOMAIN st : id \in DOMAIN w
    BY Grown
  <2> QED
    BY <2>1, PageStable
<1> HIDE DEF w
<1>3. \A i \in 2..Len(tr) - 1 : i \in 2..Len(tr)
  BY <1>1
<1>4. \A i \in 2..Len(tr) - 1 : Page(w, kind, tr[i]) = Page(st, kind, tr[i])
  BY <1>1, <1>2, <1>3
<1>5. \A i \in 2..Len(tr) - 1 : Last(Page(w, kind, tr[i])) = tr[i + 1]
  BY <1>1, <1>4
<1>6. \A i \in 2..Len(tr) : tr[i] \in DOMAIN w
  BY <1>1, <1>2
<1>7. Path(tr, w, kind)
  BY <1>1, <1>5, <1>6 DEF Path
<1> QED
  BY <1>7 DEF w

\* n: from a page that is shown to the one below it.
LEMMA PathOlder ==
    ASSUME NEW st \in Seq(RecordKinds), NEW kind, NEW s \in Seq(Nat), NEW before \in Nat,
           Path(Append(s, before), st, kind),
           NEW rows, Given(rows, st, kind, before), rows # <<>>
    PROVE  /\ rows[Len(rows)] \in Nat
           /\ Path(Append(Append(s, before), rows[Len(rows)]), st, kind)
<1> DEFINE tr == Append(s, before)
           x == rows[Len(rows)]
           new == Append(tr, x)
<1>1. /\ tr \in Seq(Nat) /\ Len(tr) \in Nat /\ Len(tr) >= 1 /\ DOMAIN tr = 1..Len(tr)
      /\ tr[1] = 0
      /\ \A i \in 2..Len(tr) : tr[i] \in DOMAIN st
      /\ \A i \in 2..Len(tr) - 1 : Last(Page(st, kind, tr[i])) = tr[i + 1]
  BY DEF Path
<1>2. tr[Len(tr)] = before
  BY AppendFacts
<1>3. Run(rows, Match(st, kind, before))
  BY DEF Given
<1>4. rows \in Seq(Nat) /\ x \in Nat /\ x \in Match(st, kind, before)
  <2>1. rows \in Seq(Nat) /\ \A i \in DOMAIN rows : rows[i] \in Match(st, kind, before)
    BY <1>3 DEF Run
  <2>2. Len(rows) \in DOMAIN rows /\ rows[Len(rows)] \in Nat
    BY <2>1, NotEmpty
  <2> QED
    BY <2>1, <2>2
<1>5. x \in DOMAIN st
  BY <1>4 DEF Match
<1>6. before # 0 => Last(Page(st, kind, before)) = x
  <2>1. Last(rows) = x
    BY DEF Last
  <2>2. before # 0 => rows = Page(st, kind, before)
    BY DEF Given
  <2> HIDE DEF x
  <2> QED
    BY <2>1, <2>2
<1> HIDE DEF tr, x
<1>7. /\ new \in Seq(Nat) /\ Len(new) = Len(tr) + 1 /\ DOMAIN new = 1..(Len(tr) + 1)
      /\ \A i \in 1..Len(tr) : new[i] = tr[i]
      /\ new[Len(tr) + 1] = x
  BY <1>1, <1>4, AppendFacts
<1> HIDE DEF new
<1>8. new[1] = 0 /\ Len(new) >= 1 /\ Len(new) \in Nat /\ DOMAIN new = 1..Len(new)
  BY <1>1, <1>7
<1>9. ASSUME NEW i \in 2..Len(new) PROVE new[i] \in DOMAIN st
  <2>1. i = Len(tr) + 1 \/ (i \in 2..Len(tr) /\ i \in 1..Len(tr))
    BY <1>1, <1>7
  <2> QED
    BY <1>1, <1>5, <1>7, <2>1
<1>10. ASSUME NEW i \in 2..Len(new) - 1 PROVE Last(Page(st, kind, new[i])) = new[i + 1]
  <2>0. Len(tr) \in Nat
    BY <1>1
  <2>1. i \in 2..Len(tr) /\ i \in 1..Len(tr)
    BY <1>1, <1>7
  <2>2. CASE i = Len(tr)
    <3>1. new[i] = before /\ before # 0 /\ new[i + 1] = x
      <4>1. new[i] = tr[i] /\ tr[i] = before /\ new[i + 1] = x
        BY <1>2, <1>7, <2>1, <2>2
      <4>2. tr[i] \in DOMAIN st
        BY <1>1, <2>1
      <4>3. 0 \notin DOMAIN st
        OBVIOUS
      <4> QED
        BY <4>1, <4>2, <4>3
    <3> QED
      BY <1>6, <3>1
  <2>3. CASE i # Len(tr)
    <3>1. i \in 2..Len(tr) - 1 /\ i + 1 \in 1..Len(tr)
      BY ONLY <2>0, <2>1, <2>3
    <3>2. new[i] = tr[i] /\ new[i + 1] = tr[i + 1]
      BY <1>7, <2>1, <3>1
    <3>3. Last(Page(st, kind, tr[i])) = tr[i + 1]
      BY <1>1, <3>1
    <3> QED
      BY <3>2, <3>3
  <2> QED
    BY <2>2, <2>3
<1>11. Path(new, st, kind)
  BY <1>7, <1>8, <1>9, <1>10 DEF Path
<1> QED
  BY <1>4, <1>11 DEF new, tr, x

\* N: back to the page before.
LEMMA PathNewer ==
    ASSUME NEW st, NEW kind, NEW s \in Seq(Nat), s # <<>>, NEW before \in Nat,
           Path(Append(s, before), st, kind)
    PROVE  /\ Front(s) \in Seq(Nat) /\ Last(s) \in Nat /\ Append(Front(s), Last(s)) = s
           /\ Path(s, st, kind)
<1> DEFINE tr == Append(s, before)
           f == Front(s)
           x == Last(s)
           r == Append(f, x)
<1>1. /\ \A i \in 1..Len(s) : tr[i] = s[i]
      /\ Len(tr) = Len(s) + 1 /\ Len(s) \in Nat /\ DOMAIN s = 1..Len(s) /\ Len(s) >= 1
  BY AppendFacts, NotEmpty
<1>2. /\ tr[1] = 0
      /\ \A i \in 2..Len(tr) : tr[i] \in DOMAIN st
      /\ \A i \in 2..Len(tr) - 1 : Last(Page(st, kind, tr[i])) = tr[i + 1]
  BY DEF Path
<1> HIDE DEF tr
<1>3. s[1] = 0
  BY <1>1, <1>2
<1>4. \A i \in 2..Len(s) : s[i] \in DOMAIN st
  <2> TAKE i \in 2..Len(s)
  <2>1. i \in 2..Len(tr) /\ i \in 1..Len(s)
    BY <1>1
  <2> QED
    BY <1>1, <1>2, <2>1
<1>5. \A i \in 2..Len(s) - 1 : Last(Page(st, kind, s[i])) = s[i + 1]
  <2> TAKE i \in 2..Len(s) - 1
  <2>1. i \in 2..Len(tr) - 1 /\ i \in 1..Len(s) /\ i + 1 \in 1..Len(s)
    BY <1>1
  <2>2. tr[i] = s[i] /\ tr[i + 1] = s[i + 1]
    BY <1>1, <2>1
  <2>3. Last(Page(st, kind, tr[i])) = tr[i + 1]
    BY <1>2, <2>1
  <2> QED
    BY <2>2, <2>3
<1>6. Path(s, st, kind)
  BY <1>1, <1>3, <1>4, <1>5 DEF Path
<1>7. Len(s) - 1 \in 0..Len(s) /\ Len(s) - 1 \in Nat
  BY <1>1
<1>8. f \in Seq(Nat) /\ Len(f) = Len(s) - 1 /\ \A i \in 1..(Len(s) - 1) : f[i] = s[i]
  BY <1>7, CutFacts DEF Front
<1>9. x = s[Len(s)] /\ x \in Nat
  BY <1>1 DEF Last
<1> HIDE DEF f, x
<1>10. /\ r \in Seq(Nat) /\ Len(r) = Len(s) /\ \A i \in 1..(Len(s) - 1) : r[i] = s[i]
       /\ r[Len(s)] = x
  <2>1. /\ r \in Seq(Nat) /\ Len(r) = Len(f) + 1 /\ \A i \in 1..Len(f) : r[i] = f[i]
        /\ r[Len(f) + 1] = x
    BY <1>8, <1>9, AppendFacts
  <2>2. Len(f) + 1 = Len(s)
    BY <1>1, <1>8
  <2> QED
    BY <1>8, <2>1, <2>2
<1> HIDE DEF r
<1>11. \A i \in 1..Len(s) : r[i] = s[i]
  <2> TAKE i \in 1..Len(s)
  <2>0. Len(s) \in Nat
    BY <1>1
  <2>1. i = Len(s) \/ i \in 1..(Len(s) - 1)
    BY ONLY <2>0, i \in 1..Len(s)
  <2> QED
    BY <1>9, <1>10, <2>1
<1>12. r = s
  BY <1>10, <1>11, SeqEqual
<1> QED
  BY <1>6, <1>8, <1>9, <1>12 DEF f, x, r

-----------------------------------------------------------------------------
(* The export: what it has printed, and where it asks next.                *)

Bottoms(rows, S) == rows # <<>> => \A id \in S : id >= rows[Len(rows)]

Exported(rows, before, at, st, kind) ==
    /\ Run(rows, Match(st, kind, 0))
    /\ before = IF rows = <<>> THEN 0 ELSE rows[Len(rows)]
    /\ at = "ended" => Bottoms(rows, Match(st, kind, 0))

LEMMA ExportGrows ==
    ASSUME NEW st \in Seq(RecordKinds), NEW k \in RecordKinds, NEW kind, NEW rows, NEW before,
           NEW at, Exported(rows, before, at, st, kind)
    PROVE  Exported(rows, before, at, Append(st, k), kind)
<1> DEFINE S == Match(st, kind, 0)
           T == Match(Append(st, k), kind, 0)
<1>1. Run(rows, S)
  BY DEF Exported
<1>2. Run(rows, T)
  BY <1>1, RunOfMatchGrows
<1>3. ASSUME Bottoms(rows, S) PROVE Bottoms(rows, T)
  <2> SUFFICES ASSUME rows # <<>>, NEW id \in T PROVE id >= rows[Len(rows)]
    BY DEF Bottoms
  <2>1. (id \in S \/ id = Len(st) + 1) /\ \A x \in S : x \in 1..Len(st)
    BY MatchGrows
  <2>2. Len(st) \in Nat
    OBVIOUS
  <2>3. rows[Len(rows)] \in S
    BY <1>1, NotEmpty DEF Run
  <2>4. rows[Len(rows)] \in 1..Len(st)
    BY <2>1, <2>3
  <2>5. id \in S => id >= rows[Len(rows)]
    BY <1>3 DEF Bottoms
  <2>6. id = Len(st) + 1 => id >= rows[Len(rows)]
    BY <2>2, <2>4
  <2> QED
    BY <2>1, <2>5, <2>6
<1> QED
  BY <1>2, <1>3 DEF Exported

LEMMA BelowLast ==
    ASSUME NEW st \in Seq(RecordKinds), NEW kind, NEW rows,
           Run(rows, Match(st, kind, 0))
    PROVE  Match(st, kind, IF rows = <<>> THEN 0 ELSE rows[Len(rows)]) = Rest(rows, Match(st, kind, 0))
<1>1. \A id \in Match(st, kind, 0) : id \in Nat /\ id > 0
  <2>1. \A id \in DOMAIN st : id \in Nat /\ id > 0
    OBVIOUS
  <2> QED
    BY <2>1 DEF Match
<1>2. CASE rows = <<>>
  BY <1>2 DEF Rest
<1>3. CASE rows # <<>>
  <2> DEFINE x == rows[Len(rows)]
  <2>1. x \in Match(st, kind, 0)
    BY <1>3, NotEmpty DEF Run
  <2>2. x > 0
    BY <1>1, <2>1
  <2>3. Rest(rows, Match(st, kind, 0)) = {id \in Match(st, kind, 0) : id < x}
    BY <1>3 DEF Rest
  <2>4. \A id : Below(id, 0)
    BY DEF Below
  <2> HIDE DEF x
  <2>5. \A id : Below(id, x) <=> id < x
    BY <2>2 DEF Below
  <2>6. Match(st, kind, x) = {id \in Match(st, kind, 0) : id < x}
    BY <2>4, <2>5 DEF Match
  <2> QED
    BY <1>3, <2>3, <2>6 DEF x
<1> QED
  BY <1>2, <1>3

LEMMA ExportSteps ==
    ASSUME NEW st \in Seq(RecordKinds), NEW kind, NEW rows, NEW before, NEW at, NEW at2,
           Exported(rows, before, at, st, kind),
           NEW page, page = Page(st, kind, before),
           at2 = "ended" => Len(page) < PageSize
    PROVE  /\ page \in Seq(Nat) /\ rows \in Seq(Nat) /\ rows \o page \in Seq(Nat)
           /\ (page # <<>> => Last(page) \in Nat)
           /\ Exported(rows \o page, IF page = <<>> THEN before ELSE Last(page), at2, st, kind)
<1> DEFINE S == Match(st, kind, 0)
           c == rows \o page
           b == IF page = <<>> THEN before ELSE Last(page)
<1>1. Run(rows, S) /\ before = IF rows = <<>> THEN 0 ELSE rows[Len(rows)]
  BY DEF Exported
<1>2. S \in SUBSET Nat
  <2>1. \A id \in DOMAIN st : id \in Nat
    OBVIOUS
  <2> QED
    BY <2>1 DEF Match
<1> HIDE DEF S
<1>3. PageOf(page, Rest(rows, S))
  <2>1. Match(st, kind, before) = Rest(rows, S)
    BY <1>1, BelowLast DEF S
  <2> QED
    BY <2>1, PageFacts
<1>4. Run(c, S)
  BY <1>1, <1>2, <1>3, RunJoins
<1>5. rows \in Seq(Nat) /\ page \in Seq(Nat)
  BY <1>1, <1>3 DEF Run, PageOf
<1>6. /\ c \in Seq(Nat) /\ Len(c) = Len(rows) + Len(page)
      /\ Len(rows) \in Nat /\ Len(page) \in Nat
      /\ \A i \in 1..Len(rows) : c[i] = rows[i]
      /\ \A i \in 1..Len(page) : c[Len(rows) + i] = page[i]
  BY <1>5, ConcatFacts DEF Joins
<1> HIDE DEF c
<1>7. page # <<>> => Last(page) = page[Len(page)] /\ Last(page) \in Nat /\ Len(page) \in 1..Len(page)
  <2> SUFFICES ASSUME page # <<>>
               PROVE Last(page) = page[Len(page)] /\ Last(page) \in Nat /\ Len(page) \in 1..Len(page)
    OBVIOUS
  <2> QED
    BY <1>5, NotEmpty DEF Last
<1>8. page # <<>> => c # <<>> /\ c[Len(c)] = page[Len(page)]
  <2> SUFFICES ASSUME page # <<>> PROVE c # <<>> /\ c[Len(c)] = page[Len(page)]
    OBVIOUS
  <2>1. Len(page) \in 1..Len(page) /\ Len(page) >= 1
    BY <1>6, <1>7
  <2>2. Len(c) # 0
    BY <1>6, <2>1
  <2> QED
    BY <1>6, <2>1, <2>2
<1>9. page = <<>> => c = rows
  BY <1>5 DEF c
<1>10. b = IF c = <<>> THEN 0 ELSE c[Len(c)]
  BY <1>1, <1>7, <1>8, <1>9
<1>11. ASSUME at2 = "ended" PROVE Bottoms(c, S)
  <2> SUFFICES ASSUME c # <<>>, NEW id \in S PROVE id >= c[Len(c)]
    BY DEF Bottoms
  <2>1. Len(page) < PageSize
    BY <1>11
  <2>2. \A x \in Rest(rows, S) : \E i \in DOMAIN page : page[i] = x
    BY <1>3, <2>1 DEF PageOf
  <2>3. ASSUME NEW i \in DOMAIN page PROVE page[i] >= page[Len(page)] /\ page # <<>>
    <3>1. DOMAIN page = 1..Len(page) /\ page # <<>>
      BY <1>5, <1>6
    <3>2. Len(page) \in DOMAIN page /\ i \in Nat /\ i <= Len(page)
      BY <1>6, <1>7, <3>1
    <3>3. i < Len(page) => page[i] > page[Len(page)]
      BY <1>3, <3>2 DEF PageOf, Descends
    <3>4. page[i] \in Nat /\ page[Len(page)] \in Nat
      BY <1>5, <3>2
    <3>5. i = Len(page) \/ i < Len(page)
      BY <1>6, <3>2
    <3> QED
      BY <3>1, <3>3, <3>4, <3>5
  <2>4. CASE id \in Rest(rows, S)
    BY <1>8, <2>2, <2>3, <2>4
  <2>5. CASE id \notin Rest(rows, S)
    <3>1. rows # <<>> /\ ~(id < rows[Len(rows)])
      BY <2>5 DEF Rest
    <3>2. rows[Len(rows)] \in Nat /\ id \in Nat
      BY <1>2, <1>5, <3>1, NotEmpty
    <3>3. CASE page = <<>>
      BY <1>9, <3>1, <3>2, <3>3
    <3>4. CASE page # <<>>
      <4>1. page[Len(page)] \in Rest(rows, S) /\ page[Len(page)] \in Nat
        BY <1>3, <1>7, <3>4 DEF PageOf
      <4>2. page[Len(page)] < rows[Len(rows)]
        BY <3>1, <4>1 DEF Rest
      <4> QED
        BY <1>8, <3>1, <3>2, <3>4, <4>1, <4>2
    <3> QED
      BY <3>3, <3>4
  <2> QED
    BY <2>4, <2>5
<1>12. Exported(c, b, at2, st, kind)
  BY <1>4, <1>10, <1>11 DEF Exported, S
<1> QED
  BY <1>5, <1>6, <1>7, <1>12 DEF c

-----------------------------------------------------------------------------
Chosen == chosen < Len(entries) \/ chosen = 0

\* The inductive invariant: of the way through the pages, of what is shown and
\* of what is about to be shown, and of the export.
PagerInv ==
    /\ store \in Seq(RecordKinds)
    /\ filter \in [kind : RecordKinds \cup {All}, before : Nat]
    /\ pages \in Seq(Nat) /\ entries \in Seq(Nat) /\ chosen \in Nat
    /\ answer \in [at : {"none", "asked", "read"}, rows : Seq(Nat)]
    /\ export \in [kind : RecordKinds \cup {All}, before : Nat, rows : Seq(Nat),
                   at : {"off", "pages", "ended"}]
    /\ Path(Append(pages, filter.before), store, filter.kind)
    /\ Given(entries, store, filter.kind, filter.before)
    /\ Given(answer.rows, store, filter.kind, filter.before)
    /\ Chosen
    /\ Exported(export.rows, export.before, export.at, store, export.kind)

LEMMA PagerInitial == PagerInit => PagerInv
<1> SUFFICES ASSUME PagerInit PROVE PagerInv
  OBVIOUS
<1>1. /\ store = <<>> /\ filter = [kind |-> All, before |-> 0]
      /\ pages = <<>> /\ entries = <<>> /\ chosen = 0
      /\ answer = [at |-> "asked", rows |-> <<>>]
      /\ export = [kind |-> All, before |-> 0, rows |-> <<>>, at |-> "off"]
  BY DEF PagerInit, Answer, Idle
<1>2. filter.before = 0 /\ answer.rows = <<>>
  BY <1>1
<1>3. export.rows = <<>> /\ export.before = 0 /\ export.at # "ended"
  BY <1>1
<1>4. Path(Append(pages, filter.before), store, filter.kind)
  BY <1>1, <1>2, PathOne
<1>5. Given(entries, store, filter.kind, filter.before)
      /\ Given(answer.rows, store, filter.kind, filter.before)
  BY <1>1, <1>2, GivenNone
<1>6. Exported(export.rows, export.before, export.at, store, export.kind)
  BY <1>3, RunOfNone DEF Exported
<1>7. /\ store \in Seq(RecordKinds)
      /\ filter \in [kind : RecordKinds \cup {All}, before : Nat]
      /\ pages \in Seq(Nat) /\ entries \in Seq(Nat) /\ chosen \in Nat
  BY <1>1
<1>8. answer \in [at : {"none", "asked", "read"}, rows : Seq(Nat)]
  BY <1>1
<1>9. export \in [kind : RecordKinds \cup {All}, before : Nat, rows : Seq(Nat),
                  at : {"off", "pages", "ended"}]
  BY <1>1
<1> QED
  BY <1>1, <1>4, <1>5, <1>6, <1>7, <1>8, <1>9 DEF PagerInv, Chosen

\* A record is added while pages are read.
LEMMA WritePreserves ==
    ASSUME PagerInv, NEW kind \in RecordKinds, Write(kind)
    PROVE  PagerInv'
<1>1. /\ store \in Seq(RecordKinds) /\ store' = Append(store, kind)
      /\ filter' = filter /\ pages' = pages /\ entries' = entries /\ answer' = answer
      /\ chosen' = chosen /\ export' = export
  BY DEF PagerInv, Write
<1>2. filter.before = 0 \/ filter.before \in DOMAIN store
  <2> DEFINE tr == Append(pages, filter.before)
  <2>1. /\ Len(tr) \in Nat /\ Len(tr) >= 1 /\ tr[1] = 0
        /\ \A i \in 2..Len(tr) : tr[i] \in DOMAIN store
    BY DEF PagerInv, Path
  <2>2. tr[Len(tr)] = filter.before
    BY AppendFacts DEF PagerInv
  <2> HIDE DEF tr
  <2>3. Len(tr) = 1 \/ Len(tr) \in 2..Len(tr)
    BY <2>1
  <2> QED
    BY <2>1, <2>2, <2>3
<1>3. Path(Append(pages, filter.before), store', filter.kind)
  BY <1>1, PathGrows DEF PagerInv
<1>4. /\ Given(entries, store', filter.kind, filter.before)
      /\ Given(answer.rows, store', filter.kind, filter.before)
  BY <1>1, <1>2, GivenGrows DEF PagerInv
<1>5. Exported(export.rows, export.before, export.at, store', export.kind)
  BY <1>1, ExportGrows DEF PagerInv
<1>6. store' \in Seq(RecordKinds)
  BY <1>1, Grown
<1> QED
  BY <1>1, <1>3, <1>4, <1>5, <1>6 DEF PagerInv, Chosen

\* A request of the view, wherever it starts from.
LEMMA ReloadPreserves ==
    ASSUME PagerInv, NEW kind \in RecordKinds \cup {All}, NEW before \in Nat,
           NEW stack \in Seq(Nat), Path(Append(stack, before), store, kind),
           Reload(kind, before, stack)
    PROVE  PagerInv'
<1>1. /\ filter' = [kind |-> kind, before |-> before] /\ pages' = stack
      /\ entries' = <<>> /\ chosen' = 0 /\ answer' = [at |-> "asked", rows |-> <<>>]
      /\ store' = store /\ export' = export
  BY DEF Reload, Answer
<1>2. filter'.kind = kind /\ filter'.before = before
      /\ filter' \in [kind : RecordKinds \cup {All}, before : Nat]
  BY <1>1
<1>3. answer'.rows = <<>> /\ answer' \in [at : {"none", "asked", "read"}, rows : Seq(Nat)]
  BY <1>1
<1>4. Path(Append(pages', filter'.before), store', filter'.kind)
  BY <1>1, <1>2
<1>5. /\ Given(entries', store', filter'.kind, filter'.before)
      /\ Given(answer'.rows, store', filter'.kind, filter'.before)
  BY <1>1, <1>3, GivenNone
<1>6. entries' \in Seq(Nat) /\ Chosen'
  BY <1>1 DEF Chosen
<1> QED
  BY <1>1, <1>2, <1>3, <1>4, <1>5, <1>6 DEF PagerInv

LEMMA OlderPreserves == PagerInv /\ Older => PagerInv'
<1> SUFFICES ASSUME PagerInv, Older PROVE PagerInv'
  OBVIOUS
<1>1. /\ Len(entries) = PageSize
      /\ Reload(filter.kind, entries[Len(entries)], Append(pages, filter.before))
  BY DEF Older, NextBound
<1>2. entries # <<>>
  BY <1>1, PagerAssumption
<1>3. /\ store \in Seq(RecordKinds) /\ pages \in Seq(Nat) /\ filter.before \in Nat
      /\ filter.kind \in RecordKinds \cup {All}
      /\ Path(Append(pages, filter.before), store, filter.kind)
      /\ Given(entries, store, filter.kind, filter.before)
  BY DEF PagerInv
<1>4. /\ entries[Len(entries)] \in Nat
      /\ Path(Append(Append(pages, filter.before), entries[Len(entries)]), store, filter.kind)
  BY <1>2, <1>3, PathOlder
<1>5. Append(pages, filter.before) \in Seq(Nat)
  BY <1>3
<1> QED
  BY <1>1, <1>3, <1>4, <1>5, ReloadPreserves

LEMMA NewerPreserves == PagerInv /\ Newer => PagerInv'
<1> SUFFICES ASSUME PagerInv, Newer PROVE PagerInv'
  OBVIOUS
<1>1. pages # <<>> /\ Reload(filter.kind, Last(pages), Front(pages))
  BY DEF Newer
<1>2. /\ pages \in Seq(Nat) /\ filter.before \in Nat /\ filter.kind \in RecordKinds \cup {All}
      /\ Path(Append(pages, filter.before), store, filter.kind)
  BY DEF PagerInv
<1>3. /\ Front(pages) \in Seq(Nat) /\ Last(pages) \in Nat
      /\ Append(Front(pages), Last(pages)) = pages /\ Path(pages, store, filter.kind)
  BY <1>1, <1>2, PathNewer
<1>4. Path(Append(Front(pages), Last(pages)), store, filter.kind)
  BY <1>3
<1> QED
  BY <1>1, <1>2, <1>3, <1>4, ReloadPreserves

LEMMA FirstPagePreserves ==
    ASSUME PagerInv, NEW kind \in RecordKinds \cup {All}, Reload(kind, 0, <<>>)
    PROVE  PagerInv'
<1>1. Path(Append(<<>>, 0), store, kind) /\ <<>> \in Seq(Nat) /\ 0 \in Nat
  BY PathOne
<1> QED
  BY <1>1, ReloadPreserves

LEMMA AnswerPreserves == PagerInv /\ (readArchive \/ Show) => PagerInv'
<1>1. ASSUME PagerInv, readArchive PROVE PagerInv'
  <2>1. PICK rows \in {archiveSQL(filter.kind, filter.before), <<>>} :
            answer' = [at |-> "read", rows |-> rows]
    BY <1>1 DEF readArchive, Answer
  <2>2. /\ store' = store /\ filter' = filter /\ pages' = pages /\ entries' = entries
        /\ chosen' = chosen /\ export' = export
    BY <1>1 DEF readArchive
  <2>3. Given(rows, store, filter.kind, filter.before)
    <3>1. store \in Seq(RecordKinds)
      BY <1>1 DEF PagerInv
    <3> QED
      BY <2>1, <3>1, PageIs, GivenPage, GivenNone
  <2>4. rows \in Seq(Nat)
    BY <2>3 DEF Given, Run
  <2>5. answer'.rows = rows /\ answer' \in [at : {"none", "asked", "read"}, rows : Seq(Nat)]
    BY <2>1, <2>4
  <2>6. Given(answer'.rows, store, filter.kind, filter.before)
    BY <2>3, <2>5
  <2> QED
    BY <1>1, <2>2, <2>5, <2>6 DEF PagerInv, Chosen
<1>2. ASSUME PagerInv, Show PROVE PagerInv'
  <2>1. /\ store' = store /\ filter' = filter /\ pages' = pages /\ entries' = answer.rows
        /\ chosen' = 0 /\ export' = export /\ answer' = [at |-> "none", rows |-> <<>>]
    BY <1>2 DEF Show, Answer
  <2>2. answer'.rows = <<>> /\ answer' \in [at : {"none", "asked", "read"}, rows : Seq(Nat)]
    BY <2>1
  <2>3. Given(answer'.rows, store, filter.kind, filter.before)
    BY <2>2, GivenNone
  <2>4. entries' \in Seq(Nat) /\ Chosen'
    BY <1>2, <2>1 DEF PagerInv, Chosen
  <2> QED
    BY <1>2, <2>1, <2>2, <2>3, <2>4 DEF PagerInv
<1> QED
  BY <1>1, <1>2

LEMMA ChoosePreserves ==
    ASSUME PagerInv, NEW i \in 0..PageSize - 1, Choose(i)
    PROVE  PagerInv'
<1>1. /\ store' = store /\ filter' = filter /\ pages' = pages /\ entries' = entries
      /\ chosen' = i /\ export' = export /\ answer' = answer /\ i \in 0..Len(entries) - 1
  BY DEF Choose
<1>2. entries \in Seq(Nat) /\ Len(entries) \in Nat
  BY DEF PagerInv
<1>3. chosen' \in Nat /\ chosen' < Len(entries)
  BY <1>1, <1>2
<1> QED
  BY <1>1, <1>3 DEF PagerInv, Chosen

LEMMA ExportPreserves ==
    ASSUME PagerInv, NEW kind \in RecordKinds \cup {All}, ExportStart(kind) \/ ExportPage
    PROVE  PagerInv'
<1>1. /\ store' = store /\ filter' = filter /\ pages' = pages /\ entries' = entries
      /\ chosen' = chosen /\ answer' = answer
  BY DEF ExportStart, ExportPage
<1>2. SUFFICES
      /\ export' \in [kind : RecordKinds \cup {All}, before : Nat, rows : Seq(Nat),
                      at : {"off", "pages", "ended"}]
      /\ Exported(export'.rows, export'.before, export'.at, store, export'.kind)
  BY <1>1 DEF PagerInv, Chosen
<1>3. CASE ExportStart(kind)
  <2>1. export' = [kind |-> kind, before |-> 0, rows |-> <<>>, at |-> "pages"]
    BY <1>3 DEF ExportStart, Idle
  <2>2. export'.rows = <<>> /\ export'.before = 0 /\ export'.at = "pages"
    BY <2>1
  <2>3. Exported(export'.rows, export'.before, export'.at, store, export'.kind)
    BY <2>2, RunOfNone DEF Exported
  <2> QED
    BY <2>1, <2>3
<1>4. CASE ExportPage
  <2> DEFINE page == archiveSQL(export.kind, export.before)
             at2 == IF Len(page) < PageSize THEN "ended" ELSE export.at
             b == IF page = <<>> THEN export.before ELSE Last(page)
  <2>1. export.at = "pages" /\ export' = [export EXCEPT !.rows = export.rows \o page, !.before = b, !.at = at2]
    BY <1>4 DEF ExportPage
  <2>2. /\ store \in Seq(RecordKinds) /\ export.before \in Nat /\ export.kind \in RecordKinds \cup {All}
        /\ export \in [kind : RecordKinds \cup {All}, before : Nat, rows : Seq(Nat),
                       at : {"off", "pages", "ended"}]
        /\ Exported(export.rows, export.before, export.at, store, export.kind)
    BY DEF PagerInv
  <2>3. page = Page(store, export.kind, export.before)
    BY PageIs
  <2>4. at2 \in {"off", "pages", "ended"} /\ (at2 = "ended" => Len(page) < PageSize)
    BY <2>1
  <2> HIDE DEF page, at2
  <2>5. /\ export.rows \o page \in Seq(Nat) /\ (page # <<>> => Last(page) \in Nat)
        /\ Exported(export.rows \o page, b, at2, store, export.kind)
    <3> DEFINE x == export.rows
               y == export.before
               z == export.at
               k == export.kind
    <3>1. Exported(x, y, z, store, k) /\ page = Page(store, k, y)
      BY <2>2, <2>3
    <3>2. b = IF page = <<>> THEN y ELSE Last(page)
      OBVIOUS
    <3> HIDE DEF b, x, y, z, k
    <3>3. /\ x \o page \in Seq(Nat) /\ (page # <<>> => Last(page) \in Nat)
          /\ Exported(x \o page, b, at2, store, k)
      BY <2>2, <2>4, <3>1, <3>2, ExportSteps
    <3> QED
      BY <3>3 DEF x, k
  <2>6. b \in Nat
    BY <2>2, <2>5
  <2> HIDE DEF b
  <2> DEFINE rows == export.rows \o page
  <2>7. rows \in Seq(Nat) /\ Exported(rows, b, at2, store, export.kind)
    BY <2>5
  <2>8. export' = [export EXCEPT !.rows = rows, !.before = b, !.at = at2]
    BY <2>1
  <2> HIDE DEF rows
  <2>9. export'.rows = rows /\ export'.before = b /\ export'.at = at2 /\ export'.kind = export.kind
    BY <2>2, <2>8
  <2>10. export' \in [kind : RecordKinds \cup {All}, before : Nat, rows : Seq(Nat),
                      at : {"off", "pages", "ended"}]
    BY <2>2, <2>4, <2>6, <2>7, <2>8
  <2> QED
    BY <2>7, <2>9, <2>10
<1> QED
  BY <1>3, <1>4

LEMMA PagerStep == PagerInv /\ [PagerNext]_pagerVars => PagerInv'
<1> SUFFICES ASSUME PagerInv, [PagerNext]_pagerVars PROVE PagerInv'
  OBVIOUS
<1>1. ASSUME NEW kind \in RecordKinds, Write(kind) PROVE PagerInv'
  BY <1>1, WritePreserves
<1>2. ASSUME NEW kind \in RecordKinds \cup {All}, Refilter(kind) PROVE PagerInv'
  BY <1>2, FirstPagePreserves DEF Refilter
<1>3. ASSUME NEW kind \in RecordKinds \cup {All}, ExportStart(kind) PROVE PagerInv'
  BY <1>3, ExportPreserves
<1>4. ASSUME NEW i \in 0..PageSize - 1, Choose(i) PROVE PagerInv'
  BY <1>4, ChoosePreserves
<1>5. CASE Newest
  <2>1. filter.kind \in RecordKinds \cup {All}
    BY DEF PagerInv
  <2> QED
    BY <1>5, <2>1, FirstPagePreserves DEF Newest
<1>6. CASE ExportPage
  <2>1. All \in RecordKinds \cup {All}
    OBVIOUS
  <2> QED
    BY <1>6, <2>1, ExportPreserves
<1>7. CASE UNCHANGED pagerVars
  BY <1>7 DEF PagerInv, Chosen, pagerVars
<1> QED
  BY <1>1, <1>2, <1>3, <1>4, <1>5, <1>6, <1>7, OlderPreserves, NewerPreserves, AnswerPreserves
     DEF PagerNext

LEMMA PagerHolds == PagerInv => PagesComplete
<1> SUFFICES ASSUME PagerInv PROVE PagesComplete
  OBVIOUS
<1>1. /\ store \in Seq(RecordKinds) /\ pages \in Seq(Nat) /\ entries \in Seq(Nat)
      /\ filter.before \in Nat /\ chosen \in Nat
      /\ Path(Append(pages, filter.before), store, filter.kind)
      /\ Given(entries, store, filter.kind, filter.before)
      /\ Exported(export.rows, export.before, export.at, store, export.kind)
  BY DEF PagerInv
<1>2. \A i \in 2..Len(pages) :
          LET rows == archiveSQL(filter.kind, Trail[i]) IN Last(rows) = Trail[i + 1]
  <2> DEFINE tr == Append(pages, filter.before)
  <2>1. \A i \in 2..Len(tr) - 1 : Last(Page(store, filter.kind, tr[i])) = tr[i + 1]
    BY <1>1 DEF Path
  <2>2. Len(tr) - 1 = Len(pages)
    BY <1>1
  <2>3. Trail = tr
    BY DEF Trail
  <2> HIDE DEF tr
  <2> QED
    BY <2>1, <2>2, <2>3, PageIs
<1>3. ASSUME entries # <<>>
      PROVE  /\ \A id \in Ids : Kept(id) /\ Last(entries) <= id /\ id <= entries[1]
                                  => id \in Range(entries)
             /\ \A id \in Range(entries) : Kept(id)
             /\ filter.before > 0 => \A id \in Ids : Kept(id) /\ entries[1] < id
                                                       => id >= filter.before
  <2> DEFINE S == Match(store, filter.kind, filter.before)
  <2>1. /\ \A i \in DOMAIN entries : entries[i] \in S
        /\ Descends(entries)
        /\ \A id \in S : entries[Len(entries)] <= id /\ id <= entries[1]
                           => \E i \in DOMAIN entries : entries[i] = id
    BY <1>1, <1>3 DEF Given, Run
  <2>2. /\ Len(entries) \in DOMAIN entries /\ 1 \in DOMAIN entries /\ DOMAIN entries = 1..Len(entries)
        /\ entries[1] \in Nat /\ entries[Len(entries)] \in Nat /\ Len(entries) \in Nat
    BY <1>1, <1>3, NotEmpty
  <2>3. \A id \in Ids : id \in Nat /\ (id \in S <=> Kept(id) /\ Below(id, filter.before))
    BY <1>1 DEF Ids, Match, Kept
  <2>4. \A id \in S : id \in Ids
    BY DEF Match, Ids
  <2>5. Below(entries[1], filter.before)
    BY <2>1, <2>2, <2>3, <2>4
  <2>6. Last(entries) = entries[Len(entries)]
    BY DEF Last
  <2>7. \A x : x \in Range(entries) <=> \E i \in DOMAIN entries : entries[i] = x
    BY DEF Range
  <2> HIDE DEF S
  <2>8. ASSUME NEW id \in Ids, Kept(id), Last(entries) <= id, id <= entries[1]
        PROVE  id \in Range(entries)
    <3>1. Below(id, filter.before)
      BY <1>1, <2>2, <2>3, <2>5, <2>8 DEF Below
    <3>2. id \in S
      BY <2>3, <2>8, <3>1
    <3> QED
      BY <2>1, <2>6, <2>7, <2>8, <3>2
  <2>9. \A id \in Range(entries) : Kept(id)
    BY <2>1, <2>3, <2>4, <2>7
  <2>10. ASSUME filter.before > 0, NEW id \in Ids, Kept(id), entries[1] < id
         PROVE  id >= filter.before
    <3> SUFFICES ASSUME ~(id >= filter.before) PROVE FALSE
      OBVIOUS
    <3>1. id \in S /\ id \in Nat
      <4>1. Below(id, filter.before)
        BY <1>1, <2>3 DEF Below
      <4> QED
        BY <2>3, <2>10, <4>1
    <3>2. entries = Page(store, filter.kind, filter.before)
      BY <1>1, <1>3, <2>10 DEF Given
    <3>3. PageOf(entries, S)
      BY <1>1, <3>2, PageFacts DEF S
    <3>4. entries[Len(entries)] <= id
      <4>1. Len(entries) = 1 \/ 1 < Len(entries)
        BY <2>2
      <4>2. 1 < Len(entries) => entries[1] > entries[Len(entries)]
        BY <2>1, <2>2 DEF Descends
      <4> QED
        BY <2>2, <2>10, <3>1, <4>1, <4>2
    <3>5. PICK i \in DOMAIN entries : entries[i] = id
      BY <1>3, <3>1, <3>3, <3>4 DEF PageOf
    <3>6. i = 1 \/ 1 < i
      BY <2>2
    <3>7. 1 < i => entries[1] > entries[i]
      BY <2>1, <2>2 DEF Descends
    <3> QED
      BY <2>2, <2>10, <3>1, <3>5, <3>6, <3>7
  <2> QED
    BY <2>8, <2>9, <2>10
<1>4. PagesAdjoin
  BY <1>2, <1>3 DEF PagesAdjoin, PagerInv, Chosen
<1>5. ExportComplete
  <2> DEFINE rows == export.rows
             S == Match(store, export.kind, 0)
  <2>1. Run(rows, S) /\ (export.at = "ended" => Bottoms(rows, S))
    BY <1>1 DEF Exported
  <2>2. \A id \in Ids : export.kind \in {All, store[id]} => id \in S
    BY DEF Ids, Match, Below
  <2>3. \A x : x \in Range(rows) <=> \E i \in DOMAIN rows : rows[i] = x
    BY DEF Range
  <2>4. rows \in Seq(Nat) /\ Last(rows) = rows[Len(rows)]
    BY <2>1 DEF Run, Last
  <2> HIDE DEF S
  <2>5. \A i, j \in DOMAIN rows : i < j => rows[i] > rows[j]
    BY <2>1 DEF Run, Descends
  <2>6. \A id \in Ids : export.kind \in {All, store[id]} /\ rows # <<>> /\ id <= rows[1] /\ id >= Last(rows)
             => id \in Range(rows)
    <3> SUFFICES ASSUME NEW id \in Ids, export.kind \in {All, store[id]}, rows # <<>>,
                        id <= rows[1], id >= Last(rows)
                 PROVE  id \in Range(rows)
      OBVIOUS
    <3>1. id \in S /\ id \in Nat
      BY <1>1, <2>2 DEF Ids
    <3>2. rows[Len(rows)] \in Nat
      BY <2>4, NotEmpty
    <3>3. rows[Len(rows)] <= id
      BY <2>4, <3>1, <3>2
    <3> QED
      BY <2>1, <2>3, <3>1, <3>3 DEF Run
  <2>7. export.at = "ended" /\ rows # <<>> =>
           \A id \in Ids : export.kind \in {All, store[id]} => id >= Last(rows)
    BY <2>1, <2>2, <2>4 DEF Bottoms
  <2> QED
    BY <2>5, <2>6, <2>7 DEF ExportComplete
<1> QED
  BY <1>4, <1>5 DEF PagesComplete

\* However the archive grows between the requests, paging through it skips and
\* repeats no record of the filter, in the view and in the export.
THEOREM PagesAreComplete == PagerSpec => []PagesComplete
<1>1. PagerInit => PagerInv
  BY PagerInitial
<1>2. PagerInv /\ [PagerNext]_pagerVars => PagerInv'
  BY PagerStep
<1>3. PagerInv => PagesComplete
  BY PagerHolds
<1> QED
  BY <1>1, <1>2, <1>3, PTL DEF PagerSpec

-----------------------------------------------------------------------------
(* Pieces of a sequence.                                                   *)

\* t is s from its a-th to its e-th element.
Piece(T, s, a, e, t) ==
    /\ t \in Seq(T) /\ Len(t) = e - a + 1 /\ Len(t) \in Nat
    /\ \A i \in 1..(e - a + 1) : t[i] = s[a + i - 1]

LEMMA PieceFacts ==
    ASSUME NEW T, NEW s \in Seq(T), NEW a \in Nat, NEW e \in Nat, a >= 1, e <= Len(s), a <= e + 1
    PROVE  Piece(T, s, a, e, SubSeq(s, a, e))
<1>1. Len(s) \in Nat /\ e - a + 1 \in Nat
  OBVIOUS
<1>2. \A i \in a..e : i \in 1..Len(s) /\ s[i] \in T
  BY <1>1
<1>3. SubSeq(s, a, e) \in Seq(T) /\ Len(SubSeq(s, a, e)) = e - a + 1
  BY <1>1, <1>2
<1>4. \A i \in 1..(e - a + 1) : SubSeq(s, a, e)[i] = s[a + i - 1]
  BY <1>1
<1> QED
  BY <1>1, <1>3, <1>4 DEF Piece

LEMMA PieceIs ==
    ASSUME NEW T, NEW s, NEW a, NEW e, NEW t, NEW u, Piece(T, s, a, e, t), Piece(T, s, a, e, u)
    PROVE  t = u
<1>1. t \in Seq(T) /\ u \in Seq(T) /\ Len(t) = Len(u) /\ \A i \in 1..Len(t) : t[i] = u[i]
  BY DEF Piece
<1> QED
  BY <1>1, SeqEqual

\* The end of a concatenation, from somewhere in its front.
LEMMA EndOfJoined ==
    ASSUME NEW T, NEW p \in Seq(T), NEW q \in Seq(T), NEW a \in Nat, a >= 1, a <= Len(p) + 1
    PROVE  SubSeq(p \o q, a, Len(p \o q)) = SubSeq(p, a, Len(p)) \o q
<1> DEFINE c == p \o q
           t == SubSeq(p, a, Len(p))
           u == t \o q
           v == SubSeq(c, a, Len(c))
           x == Len(p)
           y == Len(q)
           z == Len(p) - a + 1
<1>1. /\ c \in Seq(T) /\ Len(c) = x + y /\ x \in Nat /\ y \in Nat
      /\ (\A i \in 1..x : c[i] = p[i]) /\ \A i \in 1..y : c[x + i] = q[i]
  BY ConcatFacts DEF Joins
<1>2. Piece(T, p, a, x, t)
  BY <1>1, PieceFacts
<1>3. a <= Len(c) + 1 /\ Len(c) \in Nat
  BY <1>1
<1> HIDE DEF c
<1>4. Piece(T, c, a, Len(c), v)
  BY <1>1, <1>3, PieceFacts
<1> HIDE DEF t, v
<1>5. t \in Seq(T) /\ Len(t) = z /\ z \in Nat /\ \A i \in 1..z : t[i] = p[a + i - 1]
  BY <1>2 DEF Piece
<1>6. /\ u \in Seq(T) /\ Len(u) = z + y
      /\ (\A i \in 1..z : u[i] = t[i]) /\ \A i \in 1..y : u[z + i] = q[i]
  <2>1. Joins(T, t, q, u)
    BY <1>5, ConcatFacts
  <2> HIDE DEF u
  <2>2. /\ u \in Seq(T) /\ Len(u) = Len(t) + Len(q)
        /\ (\A i \in 1..Len(t) : u[i] = t[i]) /\ \A i \in 1..Len(q) : u[Len(t) + i] = q[i]
    BY <2>1 DEF Joins
  <2> QED
    BY <1>5, <2>2
<1>7. v \in Seq(T) /\ Len(v) = z + y /\ \A i \in 1..(z + y) : v[i] = c[a + i - 1]
  <2>1. Len(c) - a + 1 = z + y
    BY <1>1
  <2> QED
    BY <1>4, <2>1 DEF Piece
<1> HIDE DEF u
<1>8. ASSUME NEW i \in 1..Len(v) PROVE v[i] = u[i]
  <2>0. z + a - 1 = x /\ x \in Nat /\ y \in Nat /\ z \in Nat /\ i \in 1..(z + y)
    BY <1>1, <1>5, <1>7
  <2> HIDE DEF x, y, z
  <2>1. CASE i <= z
    <3>1. i \in 1..z /\ a + i - 1 \in 1..x
      BY <2>0, <2>1
    <3>2. v[i] = c[a + i - 1]
      BY <1>7, <2>0
    <3>3. u[i] = t[i] /\ t[i] = p[a + i - 1] /\ c[a + i - 1] = p[a + i - 1]
      BY <1>1, <1>5, <1>6, <3>1
    <3> QED
      BY <3>2, <3>3
  <2>2. CASE i > z
    <3>1. i - z \in 1..y /\ z + (i - z) = i /\ x + (i - z) = a + i - 1
      BY <2>0, <2>2
    <3>2. v[i] = c[a + i - 1]
      BY <1>7, <2>0
    <3>3. u[z + (i - z)] = q[i - z] /\ c[x + (i - z)] = q[i - z]
      BY <1>1, <1>6, <3>1
    <3> QED
      BY <3>1, <3>2, <3>3
  <2> QED
    BY <2>0, <2>1, <2>2
<1>9. v = u
  BY <1>6, <1>7, <1>8, SeqEqual
<1> QED
  BY <1>9 DEF v, u, t, c

\* The rest of a rest.
LEMMA PieceOfEnd ==
    ASSUME NEW T, NEW s \in Seq(T), NEW a \in Nat, NEW n \in Nat, a >= 1, n <= Len(s) - a + 1, a <= Len(s) + 1
    PROVE  SubSeq(SubSeq(s, a, Len(s)), n + 1, Len(s) - a + 1) = SubSeq(s, a + n, Len(s))
<1> DEFINE t == SubSeq(s, a, Len(s))
           u == SubSeq(t, n + 1, Len(s) - a + 1)
           m == Len(s)
<1>1. Piece(T, s, a, m, t) /\ m \in Nat
  BY PieceFacts
<1> HIDE DEF t
<1>2. t \in Seq(T) /\ Len(t) = m - a + 1 /\ \A i \in 1..(m - a + 1) : t[i] = s[a + i - 1]
  BY <1>1 DEF Piece
<1>3. n + 1 \in Nat /\ n + 1 >= 1 /\ m - a + 1 \in Nat /\ m - a + 1 <= Len(t) /\ n + 1 <= m - a + 1 + 1
      /\ a + n \in Nat /\ a + n >= 1 /\ m <= Len(s) /\ a + n <= m + 1
  BY <1>1, <1>2
<1>4. Piece(T, t, n + 1, m - a + 1, SubSeq(t, n + 1, m - a + 1))
  BY <1>2, <1>3, PieceFacts
<1>5. Piece(T, s, a + n, m, SubSeq(s, a + n, m))
  BY <1>1, <1>3, PieceFacts
<1> DEFINE v == SubSeq(t, n + 1, m - a + 1)
<1> HIDE DEF v
<1>6. /\ v \in Seq(T) /\ Len(v) = m - a + 1 - (n + 1) + 1
      /\ \A i \in 1..(m - a + 1 - (n + 1) + 1) : v[i] = t[n + 1 + i - 1]
  <2>1. PICK lo, hi : lo = n + 1 /\ hi = m - a + 1
    OBVIOUS
  <2>2. Piece(T, t, lo, hi, v)
    BY <1>4, <2>1 DEF v
  <2>3. v \in Seq(T) /\ Len(v) = hi - lo + 1 /\ \A i \in 1..(hi - lo + 1) : v[i] = t[lo + i - 1]
    BY <2>2 DEF Piece
  <2> QED
    BY <2>1, <2>3
<1>7. m - a + 1 - (n + 1) + 1 = m - (a + n) + 1 /\ m - (a + n) + 1 \in Nat
  BY <1>1, <1>3
<1>8. ASSUME NEW i \in 1..(m - (a + n) + 1) PROVE v[i] = s[a + n + i - 1]
  <2>1. n + 1 + i - 1 \in 1..(m - a + 1) /\ a + (n + 1 + i - 1) - 1 = a + n + i - 1
    BY <1>1, <1>3
  <2>2. t[n + 1 + i - 1] = s[a + (n + 1 + i - 1) - 1]
    BY <1>2, <2>1
  <2>3. v[i] = t[n + 1 + i - 1]
    BY <1>6, <1>7
  <2> QED
    BY <2>1, <2>2, <2>3
<1>9. Piece(T, s, a + n, m, v)
  BY <1>6, <1>7, <1>8 DEF Piece
<1>10. v = SubSeq(s, a + n, m)
  BY <1>5, <1>9, PieceIs
<1> QED
  BY <1>10 DEF v, t

-----------------------------------------------------------------------------
(* The first key of some bytes.                                            *)

IsEnd(p, e) ==
    /\ e \in 3..Len(p) /\ p[e] \in Final \cup {"["}
    /\ \A j \in 3..Len(p) : p[j] \in Final \cup {"["} => e <= j

LEMMA EndOfIs ==
    ASSUME NEW p \in Seq(Bytes)
    PROVE  /\ EndOf(p) = 0 => \A j \in 3..Len(p) : p[j] \notin Final \cup {"["}
           /\ EndOf(p) # 0 => IsEnd(p, EndOf(p))
<1> DEFINE ends == {i \in 3..Len(p) : p[i] \in Final \cup {"["}}
<1>1. EndOf(p) = IF ends = {} THEN 0 ELSE CHOOSE i \in ends : \A j \in ends : i <= j
  BY DEF EndOf
<1>2. CASE ends = {}
  BY <1>1, <1>2
<1>3. CASE ends # {}
  <2>1. ends \in SUBSET Nat /\ \A i \in ends : i \in Nat /\ i # 0
    OBVIOUS
  <2> HIDE DEF ends
  <2>2. PICK i \in ends : \A j \in ends : i <= j
    BY <1>3, <2>1, LeastExists
  <2>3. EndOf(p) \in ends /\ \A j \in ends : EndOf(p) <= j
    BY <1>1, <1>3, <2>2
  <2>4. EndOf(p) # 0
    BY <2>1, <2>3
  <2> QED
    BY <2>3, <2>4 DEF IsEnd, ends
<1> QED
  BY <1>2, <1>3

LEMMA EndStays ==
    ASSUME NEW p \in Seq(Bytes), NEW q \in Seq(Bytes), EndOf(p) # 0
    PROVE  EndOf(p \o q) = EndOf(p) /\ EndOf(p) \in 3..Len(p)
<1> DEFINE w == p \o q
<1>1. /\ w \in Seq(Bytes) /\ Len(w) = Len(p) + Len(q) /\ Len(p) \in Nat /\ Len(q) \in Nat
      /\ \A i \in 1..Len(p) : w[i] = p[i]
  BY ConcatFacts DEF Joins
<1> HIDE DEF w
<1>2. IsEnd(p, EndOf(p))
  BY EndOfIs
<1>3. EndOf(p) \in 3..Len(p) /\ EndOf(p) \in 1..Len(p) /\ EndOf(p) \in 3..Len(w)
  BY <1>1, <1>2 DEF IsEnd
<1>4. w[EndOf(p)] \in Final \cup {"["}
  BY <1>1, <1>2, <1>3 DEF IsEnd
<1>5. EndOf(w) # 0
  BY <1>1, <1>3, <1>4, EndOfIs
<1>6. IsEnd(w, EndOf(w))
  BY <1>1, <1>5, EndOfIs
<1>7. EndOf(w) <= EndOf(p) /\ EndOf(w) \in 3..Len(w)
  BY <1>3, <1>4, <1>6 DEF IsEnd
<1>8. EndOf(w) \in 3..Len(p) /\ EndOf(w) \in 1..Len(p)
  BY <1>1, <1>3, <1>7
<1>9. p[EndOf(w)] \in Final \cup {"["}
  BY <1>1, <1>6, <1>8 DEF IsEnd
<1>10. EndOf(p) <= EndOf(w)
  BY <1>2, <1>8, <1>9 DEF IsEnd
<1> QED
  BY <1>3, <1>7, <1>8, <1>10 DEF w

Names == {"move", "raw", "mouse", "alt", "escape", "cr", "tab", "del", "rune"}
KeySet == [key : Names, bytes : Seq(Bytes)]

LEMMA KeyOk ==
    ASSUME NEW n \in Names, NEW b \in Seq(Bytes)
    PROVE  Key(n, b) \in KeySet /\ <<Key(n, b)>> \in Seq(KeySet)
<1>1. Key(n, b) \in KeySet
  BY DEF Key, KeySet
<1> QED
  BY <1>1

LEMMA NamesAre ==
    /\ "move" \in Names /\ "raw" \in Names /\ "mouse" \in Names /\ "alt" \in Names
    /\ "escape" \in Names /\ "cr" \in Names /\ "tab" \in Names /\ "del" \in Names
    /\ "rune" \in Names
BY DEF Names

LEMMA SingleOk ==
    ASSUME NEW T, NEW b \in T
    PROVE  <<b>> \in Seq(T)
OBVIOUS

LEMMA PairOk ==
    ASSUME NEW T, NEW b \in T, NEW c \in T
    PROVE  <<b, c>> \in Seq(T)
OBVIOUS

LEMMA HalvesOk == <<"C", "c">> \in Seq(Bytes) /\ <<"C">> \in Seq(Bytes)
<1>1. "C" \in Bytes /\ "c" \in Bytes
  BY DEF Bytes
<1> QED
  BY <1>1, SingleOk, PairOk, Zenon

LEMMA SequenceKeysOk ==
    ASSUME NEW p \in Seq(Bytes), NEW e \in 3..Len(p)
    PROVE  SequenceKeys(p, e) \in Seq(KeySet)
<1> DEFINE s == SubSeq(p, 3, e)
           r == SubSeq(p, 1, e)
<1>1. s \in Seq(Bytes) /\ r \in Seq(Bytes)
  BY PieceFacts DEF Piece
<1>2. SequenceKeys(p, e) \in {<<Key("move", s)>>, <<Key("raw", r)>>, <<Key("mouse", s)>>, <<>>}
  BY Zenon DEF SequenceKeys
<1> HIDE DEF s, r
<1>3. <<Key("move", s)>> \in Seq(KeySet)
  BY <1>1, KeyOk, NamesAre, Zenon
<1>4. <<Key("raw", r)>> \in Seq(KeySet)
  BY <1>1, KeyOk, NamesAre, Zenon
<1>5. <<Key("mouse", s)>> \in Seq(KeySet)
  BY <1>1, KeyOk, NamesAre, Zenon
<1>6. <<>> \in Seq(KeySet)
  OBVIOUS
<1> QED
  BY <1>2, <1>3, <1>4, <1>5, <1>6, Zenon

LEMMA SequenceKeysStay ==
    ASSUME NEW p \in Seq(Bytes), NEW q \in Seq(Bytes), NEW e \in 3..Len(p)
    PROVE  SequenceKeys(p \o q, e) = SequenceKeys(p, e)
<1>1. SubSeq(p \o q, 3, e) = SubSeq(p, 3, e) /\ SubSeq(p \o q, 1, e) = SubSeq(p, 1, e)
  <2>1. e \in 1..Len(p) /\ 3 \in 1..Len(p) /\ 1 \in 1..Len(p)
    OBVIOUS
  <2> QED
    BY <2>1, SubSeqOfConcat1
<1> QED
  BY <1>1 DEF SequenceKeys

\* One step of the decoder, by cases.
LEMMA FirstKeyCases ==
    ASSUME NEW p
    PROVE  /\ p[1] = "esc" /\ Len(p) = 1 => FirstKey(p) = Wait
           /\ p[1] = "esc" /\ Len(p) # 1 => FirstKey(p) = Control(p)
           /\ p[1] \in {"cr", "tab", "del"} => FirstKey(p) = Take(1, <<Key(p[1], <<>>)>>)
           /\ p[1] # "esc" /\ p[1] \notin {"cr", "tab", "del"} => FirstKey(p) = Rune(p)
BY Zenon DEF FirstKey

LEMMA ControlCases ==
    ASSUME NEW p
    PROVE  /\ p[2] = "[" /\ EndOf(p) = 0 => Control(p) = Wait
           /\ p[2] = "[" /\ EndOf(p) # 0 => Control(p) = Take(EndOf(p), SequenceKeys(p, EndOf(p)))
           /\ p[2] = "O" /\ Len(p) < 3 => Control(p) = Wait
           /\ p[2] = "O" /\ ~(Len(p) < 3) => Control(p) = Take(3, <<Key("raw", SubSeq(p, 1, 3))>>)
           /\ p[2] # "[" /\ p[2] # "O" /\ p[2] \in Printable =>
                 Control(p) = Take(2, <<Key("alt", <<p[2]>>)>>)
           /\ p[2] # "[" /\ p[2] # "O" /\ p[2] \notin Printable => Control(p) = Take(1, <<Escape>>)
BY Zenon DEF Control

LEMMA RuneCases ==
    ASSUME NEW p
    PROVE  /\ p[1] # "C" => Rune(p) = Take(1, <<Key("rune", <<p[1]>>)>>)
           /\ p[1] = "C" /\ Len(p) = 1 => Rune(p) = Wait
           /\ p[1] = "C" /\ Len(p) # 1 /\ p[2] = "c" => Rune(p) = Take(2, <<Key("rune", <<"C", "c">>)>>)
           /\ p[1] = "C" /\ Len(p) # 1 /\ p[2] # "c" => Rune(p) = Take(1, <<Key("rune", <<"C">>)>>)
BY Zenon DEF Rune

\* Wait, or a number of bytes and their keys.
FirstOk(one, n) == one.keys \in Seq(KeySet) /\ one.size \in 0..n

LEMMA TakeOk ==
    ASSUME NEW m \in Nat, NEW n \in 0..m, NEW ks \in Seq(KeySet)
    PROVE  FirstOk(Take(n, ks), m) /\ Take(n, ks).size = n
BY DEF FirstOk, Take

LEMMA WaitOk ==
    ASSUME NEW m \in Nat
    PROVE  FirstOk(Wait, m) /\ Wait.size = 0
BY DEF FirstOk, Wait

LEMMA ControlOk ==
    ASSUME NEW p \in Seq(Bytes), Len(p) >= 2
    PROVE  FirstOk(Control(p), Len(p))
<1>1. Len(p) \in Nat /\ 1 \in 0..Len(p) /\ 2 \in 0..Len(p) /\ p[2] \in Bytes
  OBVIOUS
<1>2. EndOf(p) # 0 => EndOf(p) \in 3..Len(p) /\ EndOf(p) \in 0..Len(p)
  BY <1>1, EndOfIs DEF IsEnd
<1>3. CASE p[2] = "[" /\ EndOf(p) = 0
  BY <1>1, <1>3, ControlCases, WaitOk
<1>4. CASE p[2] = "[" /\ EndOf(p) # 0
  <2>1. SequenceKeys(p, EndOf(p)) \in Seq(KeySet)
    BY <1>2, <1>4, SequenceKeysOk
  <2> QED
    BY <1>1, <1>2, <1>4, <2>1, ControlCases, TakeOk
<1>5. CASE p[2] = "O" /\ Len(p) < 3
  BY <1>1, <1>5, ControlCases, WaitOk
<1>6. CASE p[2] = "O" /\ ~(Len(p) < 3)
  <2>1. SubSeq(p, 1, 3) \in Seq(Bytes) /\ 3 \in 0..Len(p)
    BY <1>1, <1>6, PieceFacts DEF Piece
  <2>2. <<Key("raw", SubSeq(p, 1, 3))>> \in Seq(KeySet)
    BY <2>1, KeyOk, NamesAre, Zenon
  <2>3. FirstOk(Take(3, <<Key("raw", SubSeq(p, 1, 3))>>), Len(p))
    BY <1>1, <2>1, <2>2, TakeOk, Zenon
  <2> QED
    BY <1>6, <2>3, ControlCases, Zenon
<1>7. CASE p[2] # "[" /\ p[2] # "O" /\ p[2] \in Printable
  <2>1. <<p[2]>> \in Seq(Bytes)
    BY <1>1, SingleOk
  <2>2. <<Key("alt", <<p[2]>>)>> \in Seq(KeySet)
    BY <2>1, KeyOk, NamesAre, Zenon
  <2>3. FirstOk(Take(2, <<Key("alt", <<p[2]>>)>>), Len(p))
    BY <1>1, <2>2, TakeOk, Zenon
  <2> QED
    BY <1>7, <2>3, ControlCases, Zenon
<1>8. CASE p[2] # "[" /\ p[2] # "O" /\ p[2] \notin Printable
  <2>1. <<>> \in Seq(Bytes)
    OBVIOUS
  <2>2. <<Escape>> \in Seq(KeySet)
    BY <2>1, KeyOk, NamesAre, Zenon DEF Escape
  <2>3. FirstOk(Take(1, <<Escape>>), Len(p))
    BY <1>1, <2>2, TakeOk, Zenon
  <2> QED
    BY <1>8, <2>3, ControlCases, Zenon
<1> QED
  BY <1>3, <1>4, <1>5, <1>6, <1>7, <1>8, Zenon

LEMMA FullFacts ==
    ASSUME NEW p \in Seq(Bytes), p # <<>>
    PROVE  /\ Len(p) \in Nat /\ Len(p) >= 1 /\ 1 \in 0..Len(p) /\ p[1] \in Bytes
           /\ Len(p) # 1 => Len(p) >= 2 /\ 2 \in 0..Len(p)
<1> DEFINE n == Len(p)
<1>1. n \in Nat /\ n >= 1 /\ p[1] \in Bytes
  OBVIOUS
<1> HIDE DEF n
<1>2. 1 \in 0..n /\ (n # 1 => n >= 2 /\ 2 \in 0..n)
  BY <1>1
<1> QED
  BY <1>1, <1>2 DEF n

LEMMA RuneOk ==
    ASSUME NEW p \in Seq(Bytes), p # <<>>
    PROVE  FirstOk(Rune(p), Len(p))
<1>1. Len(p) \in Nat /\ 1 \in 0..Len(p) /\ p[1] \in Bytes /\ (Len(p) # 1 => 2 \in 0..Len(p))
  BY FullFacts
<1>2. <<p[1]>> \in Seq(Bytes)
  BY <1>1, SingleOk
<1>3. <<Key("rune", <<p[1]>>)>> \in Seq(KeySet) /\ <<Key("rune", <<"C", "c">>)>> \in Seq(KeySet)
      /\ <<Key("rune", <<"C">>)>> \in Seq(KeySet)
  BY <1>2, HalvesOk, KeyOk, NamesAre, Zenon
<1>4. FirstOk(Take(1, <<Key("rune", <<p[1]>>)>>), Len(p))
      /\ (Len(p) # 1 => FirstOk(Take(2, <<Key("rune", <<"C", "c">>)>>), Len(p)))
      /\ FirstOk(Take(1, <<Key("rune", <<"C">>)>>), Len(p)) /\ FirstOk(Wait, Len(p))
  BY <1>1, <1>3, TakeOk, WaitOk, Zenon
<1> QED
  BY <1>4, RuneCases, Zenon

LEMMA FirstKeyOk ==
    ASSUME NEW p \in Seq(Bytes), p # <<>>
    PROVE  FirstOk(FirstKey(p), Len(p))
<1>1. Len(p) \in Nat /\ 1 \in 0..Len(p) /\ Len(p) >= 1 /\ (Len(p) # 1 => Len(p) >= 2)
  BY FullFacts
<1>2. CASE p[1] = "esc" /\ Len(p) = 1
  BY <1>1, <1>2, FirstKeyCases, WaitOk, Zenon
<1>3. CASE p[1] = "esc" /\ Len(p) # 1
  BY <1>1, <1>3, FirstKeyCases, ControlOk, Zenon
<1>4. CASE p[1] \in {"cr", "tab", "del"}
  <2>1. p[1] \in Names /\ <<>> \in Seq(Bytes)
    BY <1>4 DEF Names
  <2>2. <<Key(p[1], <<>>)>> \in Seq(KeySet)
    BY <2>1, KeyOk, Zenon
  <2>3. FirstOk(Take(1, <<Key(p[1], <<>>)>>), Len(p))
    BY <1>1, <2>2, TakeOk, Zenon
  <2> QED
    BY <1>4, <2>3, FirstKeyCases, Zenon
<1>5. CASE p[1] # "esc" /\ p[1] \notin {"cr", "tab", "del"}
  BY <1>5, FirstKeyCases, RuneOk, Zenon
<1> QED
  BY <1>2, <1>3, <1>4, <1>5, Zenon

\* More bytes do not change a key that is complete.
LEMMA FirstKeyStays ==
    ASSUME NEW p \in Seq(Bytes), NEW q \in Seq(Bytes), p # <<>>, FirstKey(p).size # 0
    PROVE  FirstKey(p \o q) = FirstKey(p)
<1> DEFINE w == p \o q
<1>1. /\ w \in Seq(Bytes) /\ Len(w) = Len(p) + Len(q) /\ Len(p) \in Nat /\ Len(q) \in Nat
      /\ \A i \in 1..Len(p) : w[i] = p[i]
  BY ConcatFacts DEF Joins
<1>2. EndOf(p) # 0 => EndOf(w) = EndOf(p) /\ SequenceKeys(w, EndOf(p)) = SequenceKeys(p, EndOf(p))
  BY EndStays, SequenceKeysStay
<1>3. Len(p) >= 3 => SubSeq(w, 1, 3) = SubSeq(p, 1, 3)
  BY <1>1, SubSeqOfConcat1
<1> HIDE DEF w
<1>4. Len(p) >= 1 /\ Len(p) \in Nat /\ (Len(p) # 1 => Len(p) >= 2)
  BY FullFacts
<1>5. w[1] = p[1] /\ (Len(p) # 1 => w[2] = p[2] /\ Len(w) # 1)
  <2>1. 1 \in 1..Len(p)
    BY <1>4
  <2>2. ASSUME Len(p) # 1 PROVE w[2] = p[2] /\ Len(w) # 1
    <3>1. Len(p) >= 2
      BY <1>4, <2>2
    <3>2. 2 \in 1..Len(p) /\ Len(p) + Len(q) # 1
      BY <1>1, <3>1
    <3> QED
      BY <1>1, <3>2
  <2> QED
    BY <1>1, <2>1, <2>2
<1>6. Wait.size = 0
  BY WaitOk
<1>7. ~(Len(p) < 3) => ~(Len(w) < 3) /\ SubSeq(w, 1, 3) = SubSeq(p, 1, 3)
  BY <1>1, <1>3
<1>8. ASSUME Len(p) # 1, Control(p).size # 0 PROVE Control(w) = Control(p)
  <2>1. w[2] = p[2]
    BY <1>5, <1>8
  <2>2. CASE p[2] = "["
    <3>1. EndOf(p) # 0
      BY <1>6, <1>8, <2>2, ControlCases, Zenon
    <3> QED
      BY <1>2, <2>1, <2>2, <3>1, ControlCases, Zenon
  <2>3. CASE p[2] = "O"
    <3>1. ~(Len(p) < 3)
      BY <1>6, <1>8, <2>3, ControlCases, Zenon
    <3> QED
      BY <1>7, <2>1, <2>3, <3>1, ControlCases, Zenon
  <2>4. CASE p[2] # "[" /\ p[2] # "O"
    BY <2>1, <2>4, ControlCases, Zenon
  <2> QED
    BY <2>2, <2>3, <2>4, Zenon
<1>9. ASSUME Rune(p).size # 0 PROVE Rune(w) = Rune(p)
  <2>1. p[1] = "C" => Len(p) # 1
    BY <1>6, <1>9, RuneCases, Zenon
  <2> QED
    BY <1>5, <2>1, RuneCases, Zenon
<1>10. CASE p[1] = "esc"
  <2>1. Len(p) # 1
    BY <1>6, <1>10, FirstKeyCases, Zenon
  <2>2. FirstKey(p) = Control(p) /\ FirstKey(w) = Control(w)
    BY <1>5, <1>10, <2>1, FirstKeyCases, Zenon
  <2>3. Control(p).size # 0
    BY <2>2
  <2> QED
    BY <1>8, <2>1, <2>2, <2>3 DEF w
<1>11. CASE p[1] \in {"cr", "tab", "del"}
  <2>1. FirstKey(w) = FirstKey(p)
    BY <1>5, <1>11, FirstKeyCases, Zenon
  <2> QED
    BY <2>1 DEF w
<1>12. CASE p[1] # "esc" /\ p[1] \notin {"cr", "tab", "del"}
  <2>1. FirstKey(p) = Rune(p) /\ FirstKey(w) = Rune(w)
    BY <1>5, <1>12, FirstKeyCases, Zenon
  <2>2. Rune(p).size # 0
    BY <2>1
  <2> QED
    BY <1>9, <2>1, <2>2 DEF w
<1> QED
  BY <1>10, <1>11, <1>12, Zenon

-----------------------------------------------------------------------------
(* The keys of some bytes.                                                 *)

Nothing == [keys |-> <<>>, pending |-> <<>>]
Results == [keys : Seq(KeySet), pending : Seq(Bytes)]

\* The last n bytes.
Back(p, n) == SubSeq(p, Len(p) - n + 1, Len(p))

Prefixed(ks, r) == [keys |-> ks \o r.keys, pending |-> r.pending]

Step(p, d, n) ==
    IF n = 0 THEN Nothing
    ELSE IF FirstKey(Back(p, n)).size = 0 THEN [keys |-> <<>>, pending |-> Back(p, n)]
    ELSE Prefixed(FirstKey(Back(p, n)).keys, d[n - FirstKey(Back(p, n)).size])

Decoder(d, p, m) == \A n \in 0..m : d[n] = Step(p, d, n)

LEMMA NothingOk == Nothing \in Results
<1>1. <<>> \in Seq(KeySet) /\ <<>> \in Seq(Bytes)
  OBVIOUS
<1> QED
  BY <1>1 DEF Nothing, Results

LEMMA PrefixedOk ==
    ASSUME NEW ks \in Seq(KeySet), NEW r \in Results
    PROVE  Prefixed(ks, r) \in Results
<1>1. r.keys \in Seq(KeySet) /\ r.pending \in Seq(Bytes)
  BY DEF Results
<1>2. ks \o r.keys \in Seq(KeySet)
  BY <1>1
<1> QED
  BY <1>1, <1>2 DEF Prefixed, Results

LEMMA BackFacts ==
    ASSUME NEW p \in Seq(Bytes), NEW n \in 0..Len(p)
    PROVE  /\ Back(p, n) \in Seq(Bytes) /\ Len(Back(p, n)) = n /\ n \in Nat
           /\ n # 0 => Back(p, n) # <<>>
<1> DEFINE a == Len(p) - n + 1
           t == SubSeq(p, a, Len(p))
<1>1. Len(p) \in Nat /\ n \in Nat /\ a \in Nat /\ a >= 1 /\ a <= Len(p) + 1 /\ Len(p) - a + 1 = n
  OBVIOUS
<1> HIDE DEF a
<1>2. Piece(Bytes, p, a, Len(p), t)
  BY <1>1, PieceFacts
<1> HIDE DEF t
<1>3. t \in Seq(Bytes) /\ Len(t) = n
  BY <1>1, <1>2 DEF Piece
<1>4. n # 0 => t # <<>>
  BY <1>3
<1> QED
  BY <1>1, <1>3, <1>4 DEF Back, t, a

\* What a step takes is at least one byte, or nothing.
LEMMA StepTakes ==
    ASSUME NEW p \in Seq(Bytes), NEW n \in 0..Len(p), n # 0, FirstKey(Back(p, n)).size # 0
    PROVE  /\ FirstKey(Back(p, n)).size \in 1..n
           /\ n - FirstKey(Back(p, n)).size \in 0..n - 1
           /\ FirstKey(Back(p, n)).keys \in Seq(KeySet)
<1> DEFINE z == FirstKey(Back(p, n)).size
<1>1. FirstOk(FirstKey(Back(p, n)), n) /\ n \in Nat
  BY BackFacts, FirstKeyOk
<1>2. z \in 0..n /\ FirstKey(Back(p, n)).keys \in Seq(KeySet) /\ z # 0
  BY <1>1 DEF FirstOk
<1> HIDE DEF z
<1>3. z \in 1..n /\ n - z \in 0..n - 1
  BY <1>1, <1>2
<1> QED
  BY <1>2, <1>3 DEF z

LEMMA StepOk ==
    ASSUME NEW p \in Seq(Bytes), NEW n \in 0..Len(p), NEW d,
           \A k \in 0..n - 1 : d[k] \in Results
    PROVE  Step(p, d, n) \in Results
<1>1. CASE n = 0
  BY <1>1, NothingOk DEF Step
<1>2. CASE n # 0 /\ FirstKey(Back(p, n)).size = 0
  <2>1. Step(p, d, n) = [keys |-> <<>>, pending |-> Back(p, n)]
    BY <1>2 DEF Step
  <2>2. Back(p, n) \in Seq(Bytes) /\ <<>> \in Seq(KeySet)
    BY BackFacts
  <2> QED
    BY <2>1, <2>2 DEF Results
<1>3. CASE n # 0 /\ FirstKey(Back(p, n)).size # 0
  <2> DEFINE one == FirstKey(Back(p, n))
  <2>1. Step(p, d, n) = Prefixed(one.keys, d[n - one.size])
    BY <1>3 DEF Step
  <2>2. d[n - one.size] \in Results /\ one.keys \in Seq(KeySet)
    BY <1>3, StepTakes
  <2> QED
    BY <2>1, <2>2, PrefixedOk
<1> QED
  BY <1>1, <1>2, <1>3

\* A step looks only at shorter ends.
LEMMA StepSame ==
    ASSUME NEW p \in Seq(Bytes), NEW n \in 0..Len(p), NEW q, Back(q, n) = Back(p, n), NEW d, NEW e,
           \A k \in 0..n - 1 : d[k] = e[k]
    PROVE  Step(p, d, n) = Step(q, e, n)
<1>1. CASE n = 0
  BY <1>1 DEF Step
<1>2. CASE n # 0 /\ FirstKey(Back(p, n)).size = 0
  BY <1>2 DEF Step
<1>3. CASE n # 0 /\ FirstKey(Back(p, n)).size # 0
  <2> DEFINE k == n - FirstKey(Back(p, n)).size
  <2>1. k \in 0..n - 1
    BY <1>3, StepTakes
  <2>2. d[k] = e[k]
    BY <2>1
  <2>3. Step(p, d, n) = Prefixed(FirstKey(Back(p, n)).keys, d[k])
    BY <1>3 DEF Step
  <2>4. Step(q, e, n) = Prefixed(FirstKey(Back(p, n)).keys, e[k])
    BY <1>3 DEF Step
  <2> QED
    BY <2>2, <2>3, <2>4
<1> QED
  BY <1>1, <1>2, <1>3

LEMMA DecoderExists ==
    ASSUME NEW p \in Seq(Bytes), NEW most \in 0..Len(p)
    PROVE  \E d \in [0..most -> Results] : Decoder(d, p, most)
<1> DEFINE Has(k) == \E d \in [0..k -> Results] : Decoder(d, p, k)
           Bad == {k \in 0..most : ~Has(k)}
<1>0. most \in Nat /\ most \in 0..most /\ \A k \in 0..most : k \in 0..Len(p) /\ k \in Nat
  OBVIOUS
<1> HIDE DEF Has
<1>1. SUFFICES ASSUME Bad # {} PROVE FALSE
  <2>1. Has(most) => \E d \in [0..most -> Results] : Decoder(d, p, most)
    BY DEF Has
  <2> QED
    BY <1>0, <2>1
<1>2. PICK k \in Bad : \A i \in Bad : k <= i
  <2>1. Bad \in SUBSET Nat
    BY <1>0
  <2> QED
    BY <1>1, <2>1, LeastExists
<1>3. k \in 0..most /\ k \in Nat /\ k \in 0..Len(p) /\ ~Has(k)
  BY <1>0, <1>2
<1>4. k # 0 => Has(k - 1)
  <2> SUFFICES ASSUME k # 0 PROVE Has(k - 1)
    OBVIOUS
  <2>1. k - 1 \in 0..most /\ ~(k <= k - 1)
    BY <1>0, <1>3
  <2> QED
    BY <1>2, <2>1
<1>5. PICK f : /\ \A n \in 0..k - 1 : f[n] \in Results
               /\ \A n \in 0..k - 1 : f[n] = Step(p, f, n)
  <2>1. CASE k = 0
    <3>1. \A n \in 0..k - 1 : FALSE
      BY <2>1
    <3> QED
      BY <3>1
  <2>2. CASE k # 0
    <3>1. PICK d \in [0..(k - 1) -> Results] : Decoder(d, p, k - 1)
      BY <1>4, <2>2 DEF Has
    <3>2. \A n \in 0..k - 1 : d[n] \in Results
      BY <3>1
    <3>3. \A n \in 0..k - 1 : d[n] = Step(p, d, n)
      BY <3>1 DEF Decoder
    <3> QED
      BY <3>2, <3>3
  <2> QED
    BY <2>1, <2>2
<1> DEFINE x == Step(p, f, k)
           g == [n \in 0..k |-> IF n = k THEN x ELSE f[n]]
<1>6. x \in Results
  BY <1>3, <1>5, StepOk
<1>7. \A n \in 0..k : n = k \/ n \in 0..k - 1
  BY <1>3
<1> HIDE DEF x
<1>8. g \in [0..k -> Results]
  BY <1>5, <1>6, <1>7
<1>9. \A n \in 0..k - 1 : n \in 0..k /\ n # k
  BY <1>3
<1>10. \A n \in 0..k - 1 : g[n] = f[n]
  BY <1>9
<1>11. g[k] = x
  BY <1>3
<1> HIDE DEF g
<1>12. ASSUME NEW n \in 0..k PROVE g[n] = Step(p, g, n)
  <2>1. n \in 0..Len(p)
    BY <1>3
  <2>2. \A i \in 0..n - 1 : i \in 0..k - 1
    BY <1>3
  <2>3. \A i \in 0..n - 1 : f[i] = g[i]
    BY <1>10, <2>2
  <2>4. Step(p, f, n) = Step(p, g, n)
    BY <2>1, <2>3, StepSame
  <2>5. CASE n = k
    BY <1>11, <2>4, <2>5 DEF x
  <2>6. CASE n \in 0..k - 1
    BY <1>5, <1>10, <2>4, <2>6
  <2> QED
    BY <1>7, <2>5, <2>6
<1>13. Has(k)
  BY <1>8, <1>12 DEF Has, Decoder
<1> QED
  BY <1>3, <1>13

\* Two decoders agree on the ends their inputs share.
LEMMA DecodersAgree ==
    ASSUME NEW p \in Seq(Bytes), NEW q, NEW m \in 0..Len(p), NEW d, NEW e,
           Decoder(d, p, m), Decoder(e, q, m), \A n \in 0..m : Back(q, n) = Back(p, n)
    PROVE  \A n \in 0..m : d[n] = e[n]
<1> DEFINE Bad == {i \in 0..m : d[i] # e[i]}
<1>0. m \in Nat
  OBVIOUS
<1>1. SUFFICES ASSUME Bad # {} PROVE FALSE
  OBVIOUS
<1>2. PICK i \in Bad : \A j \in Bad : i <= j
  <2>1. Bad \in SUBSET Nat
    BY <1>0
  <2> QED
    BY <1>1, <2>1, LeastExists
<1>3. i \in 0..m /\ i \in 0..Len(p) /\ d[i] # e[i]
  BY <1>2
<1>4. \A j \in 0..i - 1 : d[j] = e[j]
  <2> SUFFICES ASSUME NEW j \in 0..i - 1, d[j] # e[j] PROVE FALSE
    OBVIOUS
  <2>1. j \in Bad /\ ~(i <= j)
    BY <1>3
  <2> QED
    BY <1>2, <2>1
<1>5. Step(p, d, i) = Step(q, e, i)
  BY <1>3, <1>4, StepSame
<1>6. d[i] = Step(p, d, i) /\ e[i] = Step(q, e, i)
  BY <1>3 DEF Decoder
<1> QED
  BY <1>3, <1>5, <1>6

LEMMA DecodeIs ==
    ASSUME NEW p \in Seq(Bytes)
    PROVE  \E d : /\ Decoder(d, p, Len(p)) /\ Decode(p) = d[Len(p)]
                  /\ \A n \in 0..Len(p) : d[n] \in Results
<1> DEFINE F(f) == [n \in 0..Len(p) |->
                      LET q   == SubSeq(p, Len(p) - n + 1, Len(p))
                          one == FirstKey(q)
                      IN IF n = 0 THEN [keys |-> <<>>, pending |-> <<>>]
                         ELSE IF one.size = 0 THEN [keys |-> <<>>, pending |-> q]
                         ELSE [keys    |-> one.keys \o f[n - one.size].keys,
                               pending |-> f[n - one.size].pending]]
           c == CHOOSE f : f = F(f)
<1>1. Decode(p) = c[Len(p)]
  BY DEF Decode
<1>2. \A f : F(f) = [n \in 0..Len(p) |-> Step(p, f, n)]
  BY DEF Step, Back, Prefixed, Nothing
<1> HIDE DEF F
<1>3. Len(p) \in 0..Len(p)
  OBVIOUS
<1>4. PICK d \in [0..Len(p) -> Results] : Decoder(d, p, Len(p))
  BY <1>3, DecoderExists
<1>5. d = F(d)
  <2>1. d = [n \in 0..Len(p) |-> Step(p, d, n)]
    BY <1>4 DEF Decoder
  <2> QED
    BY <1>2, <2>1
<1>6. c = F(c)
  BY <1>5
<1> HIDE DEF c
<1>7. Decoder(c, p, Len(p))
  <2>1. c = [n \in 0..Len(p) |-> Step(p, c, n)]
    BY <1>2, <1>6
  <2> DEFINE h == [n \in 0..Len(p) |-> Step(p, c, n)]
  <2>2. \A n \in 0..Len(p) : h[n] = Step(p, c, n)
    OBVIOUS
  <2>3. c = h
    BY <2>1
  <2> HIDE DEF h
  <2> QED
    BY <2>2, <2>3 DEF Decoder
<1>8. \A n \in 0..Len(p) : d[n] = c[n]
  BY <1>3, <1>4, <1>7, DecodersAgree
<1>9. \A n \in 0..Len(p) : c[n] \in Results
  BY <1>4, <1>8
<1> QED
  BY <1>1, <1>7, <1>9

\* The decoder, one key at a time.
LEMMA DecodeOk ==
    ASSUME NEW p \in Seq(Bytes)
    PROVE  Decode(p) \in Results /\ Decode(p).keys \in Seq(KeySet) /\ Decode(p).pending \in Seq(Bytes)
<1>1. Len(p) \in 0..Len(p)
  OBVIOUS
<1>2. Decode(p) \in Results
  BY <1>1, DecodeIs
<1> QED
  BY <1>2 DEF Results

LEMMA DecodeNone == Decode(<<>>) = Nothing
<1>1. <<>> \in Seq(Bytes) /\ Len(<<>>) = 0
  OBVIOUS
<1>2. PICK d : Decoder(d, <<>>, Len(<<>>)) /\ Decode(<<>>) = d[Len(<<>>)]
  BY <1>1, DecodeIs
<1>3. d[0] = Step(<<>>, d, 0)
  BY <1>1, <1>2 DEF Decoder
<1> QED
  BY <1>1, <1>2, <1>3 DEF Step

LEMMA BackWhole ==
    ASSUME NEW p \in Seq(Bytes)
    PROVE  Back(p, Len(p)) = p
<1>1. Len(p) - Len(p) + 1 = 1
  OBVIOUS
<1> QED
  BY <1>1, SubSeqFull DEF Back

LEMMA BackOfBack ==
    ASSUME NEW p \in Seq(Bytes), NEW m \in 0..Len(p), NEW n \in 0..m
    PROVE  Back(Back(p, m), n) = Back(p, n)
<1> DEFINE a == Len(p) - m + 1
           k == m - n
           t == SubSeq(p, a, Len(p))
<1>1. Len(p) \in Nat /\ m \in Nat /\ n \in Nat /\ m <= Len(p) /\ n <= m
  OBVIOUS
<1>2. a \in Nat /\ a >= 1 /\ a <= Len(p) + 1 /\ k \in Nat /\ k <= Len(p) - a + 1
      /\ Len(p) - a + 1 = m /\ a + k = Len(p) - n + 1 /\ m - n + 1 = k + 1
  BY <1>1
<1>3. Back(p, m) = t /\ Len(t) = m
  BY BackFacts DEF Back
<1> HIDE DEF a, k
<1>4. SubSeq(t, k + 1, Len(p) - a + 1) = SubSeq(p, a + k, Len(p))
  BY <1>2, PieceOfEnd
<1> HIDE DEF t
<1>5. Back(t, n) = SubSeq(t, k + 1, m)
  BY <1>2, <1>3 DEF Back
<1>6. Back(p, n) = SubSeq(p, a + k, Len(p))
  BY <1>2 DEF Back
<1> QED
  BY <1>2, <1>3, <1>4, <1>5, <1>6

LEMMA DecodeOfBack ==
    ASSUME NEW p \in Seq(Bytes), NEW d, Decoder(d, p, Len(p)), NEW m \in 0..Len(p)
    PROVE  Decode(Back(p, m)) = d[m]
<1> DEFINE q == Back(p, m)
<1>1. q \in Seq(Bytes) /\ Len(q) = m /\ m \in Nat /\ m \in 0..m /\ m \in 0..Len(q)
  BY BackFacts
<1> HIDE DEF q
<1>2. PICK e : Decoder(e, q, m) /\ Decode(q) = e[m]
  BY <1>1, DecodeIs
<1>3. Decoder(d, p, m)
  <2>1. \A n \in 0..m : n \in 0..Len(p)
    BY <1>1
  <2> QED
    BY <2>1 DEF Decoder
<1>4. \A n \in 0..m : Back(q, n) = Back(p, n)
  BY BackOfBack DEF q
<1>5. \A n \in 0..m : d[n] = e[n]
  BY <1>2, <1>3, <1>4, DecodersAgree
<1> QED
  BY <1>1, <1>2, <1>5 DEF q

LEMMA DecodeWaits ==
    ASSUME NEW p \in Seq(Bytes), p # <<>>, FirstKey(p).size = 0
    PROVE  Decode(p) = [keys |-> <<>>, pending |-> p]
<1>1. PICK d : Decoder(d, p, Len(p)) /\ Decode(p) = d[Len(p)]
  BY DecodeIs
<1>2. Len(p) \in 0..Len(p) /\ Len(p) # 0
  BY FullFacts
<1>3. d[Len(p)] = Step(p, d, Len(p))
  BY <1>1, <1>2 DEF Decoder
<1> QED
  BY <1>1, <1>2, <1>3, BackWhole DEF Step

After(p) == SubSeq(p, FirstKey(p).size + 1, Len(p))

LEMMA DecodeSteps ==
    ASSUME NEW p \in Seq(Bytes), p # <<>>, FirstKey(p).size # 0
    PROVE  /\ Decode(p) = Prefixed(FirstKey(p).keys, Decode(After(p)))
           /\ FirstKey(p).keys \in Seq(KeySet) /\ After(p) \in Seq(Bytes)
           /\ Len(After(p)) \in Nat /\ Len(After(p)) < Len(p)
<1> DEFINE z == FirstKey(p).size
           n == Len(p)
<1>1. PICK d : Decoder(d, p, Len(p)) /\ Decode(p) = d[Len(p)]
  BY DecodeIs
<1>2. n \in 0..Len(p) /\ n # 0 /\ n \in Nat
  BY FullFacts
<1>3. d[n] = Step(p, d, n)
  BY <1>1, <1>2 DEF Decoder
<1>4. Back(p, n) = p
  BY BackWhole
<1>5. z \in 1..n /\ n - z \in 0..n - 1 /\ FirstKey(p).keys \in Seq(KeySet)
  BY <1>2, <1>4, StepTakes
<1> HIDE DEF n
<1>6. Decode(p) = Prefixed(FirstKey(p).keys, d[n - z])
  BY <1>1, <1>2, <1>3, <1>4 DEF Step, n
<1> HIDE DEF z
<1>7. n - z \in 0..n /\ n - (n - z) + 1 = z + 1
  BY <1>2, <1>5
<1>8. Back(p, n - z) = After(p)
  BY <1>7 DEF Back, After, n, z
<1>9. Decode(Back(p, n - z)) = d[n - z]
  BY <1>1, <1>7, DecodeOfBack DEF n
<1>10. Back(p, n - z) \in Seq(Bytes) /\ Len(Back(p, n - z)) = n - z
  BY <1>7, BackFacts DEF n
<1>11. n - z \in Nat /\ n - z < n
  BY <1>2, <1>5
<1> QED
  BY <1>5, <1>6, <1>8, <1>9, <1>10, <1>11 DEF n

\* Where the input is cut makes no difference to the keys, nor to what waits.
Cut(p, q) ==
    /\ Decode(p \o q).keys = Decode(p).keys \o Decode(Decode(p).pending \o q).keys
    /\ Decode(p \o q).pending = Decode(Decode(p).pending \o q).pending

LEMMA CutOfNone ==
    ASSUME NEW q \in Seq(Bytes)
    PROVE  Cut(<<>>, q)
<1>1. <<>> \o q = q /\ Decode(q).keys \in Seq(KeySet)
  BY ConcatEmptySeq, DecodeOk
<1>2. Decode(<<>>).keys = <<>> /\ Decode(<<>>).pending = <<>>
  BY DecodeNone DEF Nothing
<1>3. <<>> \o Decode(q).keys = Decode(q).keys
  BY <1>1, ConcatEmptySeq
<1> QED
  BY <1>1, <1>2, <1>3 DEF Cut

LEMMA CutOfWaiting ==
    ASSUME NEW p \in Seq(Bytes), NEW q \in Seq(Bytes), p # <<>>, FirstKey(p).size = 0
    PROVE  Cut(p, q)
<1>1. Decode(p).keys = <<>> /\ Decode(p).pending = p
  BY DecodeWaits
<1>2. p \o q \in Seq(Bytes)
  OBVIOUS
<1>3. Decode(p \o q).keys \in Seq(KeySet)
  BY <1>2, DecodeOk
<1>4. <<>> \o Decode(p \o q).keys = Decode(p \o q).keys
  BY <1>3, ConcatEmptySeq
<1> QED
  BY <1>1, <1>4 DEF Cut

LEMMA PrefixedIs ==
    ASSUME NEW ks, NEW r
    PROVE  Prefixed(ks, r).keys = ks \o r.keys /\ Prefixed(ks, r).pending = r.pending
BY DEF Prefixed

LEMMA CutOfKey ==
    ASSUME NEW p \in Seq(Bytes), NEW q \in Seq(Bytes), p # <<>>, FirstKey(p).size # 0,
           Cut(After(p), q)
    PROVE  Cut(p, q)
<1> DEFINE w == p \o q
           a == After(p)
           ks == FirstKey(p).keys
           k1 == Decode(a).keys
           k2 == Decode(Decode(a).pending \o q).keys
           z == FirstKey(p).size
<1>1. /\ Decode(p) = Prefixed(ks, Decode(a)) /\ ks \in Seq(KeySet) /\ a \in Seq(Bytes)
      /\ Len(a) \in Nat /\ Len(a) < Len(p)
  BY DecodeSteps
<1>2. w \in Seq(Bytes) /\ w # <<>> /\ FirstKey(w) = FirstKey(p)
  <2>1. /\ w \in Seq(Bytes) /\ Len(w) = Len(p) + Len(q) /\ Len(p) \in Nat /\ Len(q) \in Nat
    BY ConcatFacts DEF Joins
  <2>2. Len(p) >= 1
    BY FullFacts
  <2>3. Len(w) # 0
    BY <2>1, <2>2
  <2>4. w # <<>>
    BY <2>3
  <2> QED
    BY <2>1, <2>4, FirstKeyStays
<1>3. After(w) = a \o q
  <2>1. FirstOk(FirstKey(p), Len(p))
    BY FirstKeyOk
  <2>2. z \in 0..Len(p)
    BY <2>1 DEF FirstOk
  <2> HIDE DEF z
  <2>3. z + 1 \in Nat /\ z + 1 >= 1 /\ z + 1 <= Len(p) + 1
    BY <2>2
  <2>4. SubSeq(p \o q, z + 1, Len(p \o q)) = SubSeq(p, z + 1, Len(p)) \o q
    BY <2>3, EndOfJoined
  <2> QED
    BY <1>2, <2>4 DEF After, z
<1>4. Decode(w) = Prefixed(ks, Decode(a \o q))
  BY <1>2, <1>3, DecodeSteps
<1>5. Decode(a \o q).keys = k1 \o k2 /\ Decode(a \o q).pending = Decode(Decode(a).pending \o q).pending
  BY DEF Cut
<1>6. Decode(a).pending \o q \in Seq(Bytes) /\ k1 \in Seq(KeySet)
  BY <1>1, DecodeOk
<1>7. k2 \in Seq(KeySet)
  BY <1>6, DecodeOk
<1>8. Decode(p).keys = ks \o k1 /\ Decode(p).pending = Decode(a).pending
  <2>1. Prefixed(ks, Decode(a)).keys = ks \o Decode(a).keys
        /\ Prefixed(ks, Decode(a)).pending = Decode(a).pending
    BY PrefixedIs
  <2>2. Decode(p) = Prefixed(ks, Decode(a))
    BY <1>1
  <2> HIDE DEF a, ks
  <2> QED
    BY <2>1, <2>2, Zenon
<1>9. Decode(w).keys = ks \o (k1 \o k2) /\ Decode(w).pending = Decode(a \o q).pending
  <2> DEFINE b == Decode(a \o q)
  <2>1. Prefixed(ks, b).keys = ks \o b.keys /\ Prefixed(ks, b).pending = b.pending
    BY PrefixedIs
  <2>2. Decode(w) = Prefixed(ks, b) /\ b.keys = k1 \o k2
    BY <1>4, <1>5
  <2> HIDE DEF a, ks, k1, k2, b, w
  <2>3. Decode(w).keys = ks \o (k1 \o k2) /\ Decode(w).pending = b.pending
    BY <2>1, <2>2, Zenon
  <2> QED
    BY <2>3 DEF b
<1> HIDE DEF ks, k1, k2
<1>10. (ks \o k1) \o k2 = ks \o (k1 \o k2)
  BY <1>1, <1>6, <1>7, ConcatAssociative
<1>11. Decode(w).keys = Decode(p).keys \o Decode(Decode(p).pending \o q).keys
  BY <1>8, <1>9, <1>10 DEF k2
<1>12. Decode(w).pending = Decode(Decode(p).pending \o q).pending
  BY <1>5, <1>8, <1>9
<1> QED
  BY <1>11, <1>12 DEF Cut, w

LEMMA CutAnywhere ==
    ASSUME NEW p \in Seq(Bytes), NEW q \in Seq(Bytes)
    PROVE  Cut(p, q)
<1> DEFINE Bad == {n \in Nat : \E s \in Seq(Bytes) : Len(s) = n /\ ~Cut(s, q)}
<1>1. SUFFICES ASSUME Bad # {} PROVE FALSE
  <2>1. Len(p) \in Nat
    OBVIOUS
  <2> QED
    BY <2>1
<1>2. PICK n \in Bad : \A i \in Bad : n <= i
  <2>1. Bad \in SUBSET Nat
    OBVIOUS
  <2> QED
    BY <1>1, <2>1, LeastExists
<1>3. PICK s \in Seq(Bytes) : Len(s) = n /\ ~Cut(s, q)
  BY <1>2
<1>4. s # <<>> /\ FirstKey(s).size # 0
  BY <1>3, CutOfNone, CutOfWaiting
<1>5. After(s) \in Seq(Bytes) /\ Len(After(s)) \in Nat /\ Len(After(s)) < n
  BY <1>3, <1>4, DecodeSteps
<1>6. ~Cut(After(s), q)
  BY <1>3, <1>4, CutOfKey
<1>7. Len(After(s)) \in Bad
  BY <1>5, <1>6
<1>8. n <= Len(After(s)) /\ n \in Nat
  BY <1>2, <1>7
<1> QED
  BY <1>5, <1>8

-----------------------------------------------------------------------------
(* The keys of all that is typed, cut at the pauses.                       *)

LEMMA MaxIs ==
    ASSUME NEW n \in Nat, NEW S \in SUBSET (0..n), S # {}
    PROVE  Max(S) \in S /\ \A y \in S : y <= Max(S)
<1> DEFINE D == {n - x : x \in S}
<1>0. \A x \in S : x \in 0..n /\ x \in Nat /\ n - x \in Nat
  <2> TAKE x \in S
  <2>1. x \in 0..n
    OBVIOUS
  <2> QED
    BY <2>1
<1>1. D \in SUBSET Nat /\ D # {}
  <2>1. D \in SUBSET Nat
    BY <1>0
  <2>2. PICK x : x \in S
    OBVIOUS
  <2>3. n - x \in D
    BY <2>2
  <2> QED
    BY <2>1, <2>3
<1>2. PICK d \in D : \A i \in D : d <= i
  <2> HIDE DEF D
  <2> QED
    BY <1>1, LeastExists
<1>3. PICK x \in S : d = n - x
  BY <1>2
<1>4. \A y \in S : n - x <= n - y
  BY <1>2, <1>3
<1>5. \A y \in S : x >= y
  <2> TAKE y \in S
  <2>1. n - x <= n - y /\ x \in Nat /\ y \in Nat
    BY <1>0, <1>4
  <2> QED
    BY <2>1
<1>6. Max(S) \in S /\ \A y \in S : Max(S) >= y
  BY <1>3, <1>5 DEF Max
<1> QED
  BY <1>0, <1>6

\* The last pause before the n-th byte; 0 where there is none.
Best(cuts, n) == Max({0} \cup {c \in cuts : c < n})

LEMMA BestFacts ==
    ASSUME NEW cuts \in SUBSET Nat, NEW n \in Nat, n # 0
    PROVE  /\ Best(cuts, n) \in 0..n - 1
           /\ Best(cuts, n) = 0 \/ Best(cuts, n) \in cuts
           /\ \A c \in cuts : c < n => c <= Best(cuts, n)
<1> DEFINE S == {0} \cup {c \in cuts : c < n}
<1>1. S \in SUBSET (0..n - 1) /\ S # {} /\ n - 1 \in Nat
  <2>1. n - 1 \in Nat /\ 0 \in S /\ \A c \in cuts : c \in Nat
    OBVIOUS
  <2>2. \A x \in S : x = 0 \/ (x \in Nat /\ x < n)
    BY <2>1
  <2>3. \A x \in S : x \in 0..n - 1
    BY <2>1, <2>2
  <2> QED
    BY <2>1, <2>3
<1> HIDE DEF S
<1>2. Max(S) \in S /\ \A y \in S : y <= Max(S)
  BY <1>1, MaxIs
<1>3. Best(cuts, n) = Max(S)
  BY DEF Best, S
<1> QED
  BY <1>1, <1>2, <1>3 DEF S

More(ty, cuts, d, n) ==
    IF n = 0 THEN <<>>
    ELSE d[Best(cuts, n)] \o Decode(SubSeq(ty, Best(cuts, n) + 1, n)).keys
            \o (IF n \in cuts THEN <<Escape>> ELSE <<>>)

Upto(d, ty, cuts, m) == \A n \in 0..m : d[n] = More(ty, cuts, d, n)

LEMMA Between ==
    ASSUME NEW ty \in Seq(Bytes), NEW a \in Nat, NEW b \in Nat, a <= b, b <= Len(ty)
    PROVE  SubSeq(ty, a + 1, b) \in Seq(Bytes) /\ Len(SubSeq(ty, a + 1, b)) = b - a
<1>1. a + 1 \in Nat /\ a + 1 >= 1 /\ a + 1 <= b + 1 /\ b - (a + 1) + 1 = b - a
  OBVIOUS
<1>2. Piece(Bytes, ty, a + 1, b, SubSeq(ty, a + 1, b))
  BY <1>1, PieceFacts
<1> QED
  BY <1>1, <1>2 DEF Piece

LEMMA EscapeOk == Escape \in KeySet /\ <<Escape>> \in Seq(KeySet)
<1>1. <<>> \in Seq(Bytes)
  OBVIOUS
<1> QED
  BY <1>1, KeyOk, NamesAre, Zenon DEF Escape

LEMMA MoreOk ==
    ASSUME NEW ty \in Seq(Bytes), NEW cuts \in SUBSET Nat, NEW n \in 0..Len(ty), NEW d,
           \A k \in 0..n - 1 : d[k] \in Seq(KeySet)
    PROVE  More(ty, cuts, d, n) \in Seq(KeySet)
<1>1. CASE n = 0
  BY <1>1 DEF More
<1>2. CASE n # 0
  <2> DEFINE b == Best(cuts, n)
             k == Decode(SubSeq(ty, b + 1, n)).keys
             e == IF n \in cuts THEN <<Escape>> ELSE <<>>
  <2>1. b \in 0..n - 1 /\ n \in Nat /\ Len(ty) \in Nat
    BY <1>2, BestFacts
  <2> HIDE DEF b
  <2>2. b \in Nat /\ b <= n /\ n <= Len(ty)
    BY <2>1
  <2>3. k \in Seq(KeySet)
    BY <2>1, <2>2, Between, DecodeOk
  <2>4. e \in Seq(KeySet)
    BY EscapeOk
  <2>5. d[b] \in Seq(KeySet)
    BY <2>1
  <2> HIDE DEF k, e
  <2>6. d[b] \o k \o e \in Seq(KeySet)
    BY <2>3, <2>4, <2>5
  <2> QED
    BY <1>2, <2>6 DEF More, b, k, e
<1> QED
  BY <1>1, <1>2

LEMMA MoreSame ==
    ASSUME NEW ty, NEW cuts \in SUBSET Nat, NEW also \in SUBSET Nat, NEW n \in Nat, NEW d, NEW e,
           \A k \in 0..n - 1 : d[k] = e[k], Best(cuts, n) = Best(also, n),
           n \in cuts <=> n \in also
    PROVE  More(ty, cuts, d, n) = More(ty, also, e, n)
<1>1. CASE n = 0
  BY <1>1 DEF More
<1>2. CASE n # 0
  <2>1. Best(cuts, n) \in 0..n - 1
    BY <1>2, BestFacts
  <2>2. d[Best(cuts, n)] = e[Best(also, n)]
    BY <2>1
  <2> QED
    BY <1>2, <2>2 DEF More
<1> QED
  BY <1>1, <1>2

LEMMA UptoExists ==
    ASSUME NEW ty \in Seq(Bytes), NEW cuts \in SUBSET Nat
    PROVE  \E d \in [0..Len(ty) -> Seq(KeySet)] : Upto(d, ty, cuts, Len(ty))
<1> DEFINE most == Len(ty)
           Has(k) == \E d \in [0..k -> Seq(KeySet)] : Upto(d, ty, cuts, k)
           Bad == {k \in 0..most : ~Has(k)}
<1>0. most \in Nat /\ most \in 0..most /\ \A k \in 0..most : k \in 0..Len(ty) /\ k \in Nat
  OBVIOUS
<1> HIDE DEF Has
<1>1. SUFFICES ASSUME Bad # {} PROVE FALSE
  <2>1. Has(most) => \E d \in [0..Len(ty) -> Seq(KeySet)] : Upto(d, ty, cuts, Len(ty))
    BY DEF Has
  <2> QED
    BY <1>0, <2>1
<1> HIDE DEF most
<1>2. PICK k \in Bad : \A i \in Bad : k <= i
  <2>1. Bad \in SUBSET Nat
    BY <1>0
  <2> QED
    BY <1>1, <2>1, LeastExists
<1>3. k \in 0..most /\ k \in Nat /\ k \in 0..Len(ty) /\ ~Has(k)
  BY <1>0, <1>2
<1>4. k # 0 => Has(k - 1)
  <2> SUFFICES ASSUME k # 0 PROVE Has(k - 1)
    OBVIOUS
  <2>1. k - 1 \in 0..most /\ ~(k <= k - 1)
    BY <1>0, <1>3
  <2> QED
    BY <1>2, <2>1
<1>5. PICK f : /\ \A n \in 0..k - 1 : f[n] \in Seq(KeySet)
               /\ \A n \in 0..k - 1 : f[n] = More(ty, cuts, f, n)
  <2>1. CASE k = 0
    <3>1. \A n \in 0..k - 1 : FALSE
      BY <2>1
    <3> QED
      BY <3>1
  <2>2. CASE k # 0
    <3>1. PICK d \in [0..(k - 1) -> Seq(KeySet)] : Upto(d, ty, cuts, k - 1)
      BY <1>4, <2>2 DEF Has
    <3>2. \A n \in 0..k - 1 : d[n] \in Seq(KeySet)
      BY <3>1
    <3>3. \A n \in 0..k - 1 : d[n] = More(ty, cuts, d, n)
      BY <3>1 DEF Upto
    <3> QED
      BY <3>2, <3>3
  <2> QED
    BY <2>1, <2>2
<1> DEFINE x == More(ty, cuts, f, k)
           g == [n \in 0..k |-> IF n = k THEN x ELSE f[n]]
<1>6. x \in Seq(KeySet)
  BY <1>3, <1>5, MoreOk
<1>7. \A n \in 0..k : n = k \/ n \in 0..k - 1
  BY <1>3
<1> HIDE DEF x
<1>8. g \in [0..k -> Seq(KeySet)]
  BY <1>5, <1>6, <1>7
<1>9. \A n \in 0..k - 1 : n \in 0..k /\ n # k
  BY <1>3
<1>10. \A n \in 0..k - 1 : g[n] = f[n]
  BY <1>9
<1>11. g[k] = x
  BY <1>3
<1> HIDE DEF g
<1>12. ASSUME NEW n \in 0..k PROVE g[n] = More(ty, cuts, g, n)
  <2>1. n \in Nat
    BY <1>3
  <2>2. \A i \in 0..n - 1 : i \in 0..k - 1
    BY <1>3
  <2>3. \A i \in 0..n - 1 : f[i] = g[i]
    BY <1>10, <2>2
  <2>4. More(ty, cuts, f, n) = More(ty, cuts, g, n)
    BY <2>1, <2>3, MoreSame
  <2>5. CASE n = k
    BY <1>11, <2>4, <2>5 DEF x
  <2>6. CASE n \in 0..k - 1
    BY <1>5, <1>10, <2>4, <2>6
  <2> QED
    BY <1>7, <2>5, <2>6
<1>13. Has(k)
  BY <1>8, <1>12 DEF Has, Upto
<1> QED
  BY <1>3, <1>13

\* Pauses from the m-th byte on make no difference before it.
LEMMA UptoAgree ==
    ASSUME NEW ty, NEW cuts \in SUBSET Nat, NEW also \in SUBSET Nat, NEW m \in Nat, NEW m1 \in Nat,
           NEW m2 \in Nat, m <= m1, m <= m2,
           NEW d, NEW e, Upto(d, ty, cuts, m1), Upto(e, ty, also, m2),
           \A n \in 0..m : Best(cuts, n) = Best(also, n) /\ (n \in cuts <=> n \in also)
    PROVE  \A n \in 0..m : d[n] = e[n]
<1> DEFINE Bad == {i \in 0..m : d[i] # e[i]}
<1>1. SUFFICES ASSUME Bad # {} PROVE FALSE
  OBVIOUS
<1>2. PICK i \in Bad : \A j \in Bad : i <= j
  <2>1. Bad \in SUBSET Nat
    OBVIOUS
  <2> QED
    BY <1>1, <2>1, LeastExists
<1>3. i \in 0..m /\ i \in Nat /\ d[i] # e[i] /\ i \in 0..m1 /\ i \in 0..m2
  BY <1>2
<1>4. \A j \in 0..i - 1 : d[j] = e[j]
  <2> SUFFICES ASSUME NEW j \in 0..i - 1, d[j] # e[j] PROVE FALSE
    OBVIOUS
  <2>1. j \in Bad /\ ~(i <= j)
    BY <1>3
  <2> QED
    BY <1>2, <2>1
<1>5. More(ty, cuts, d, i) = More(ty, also, e, i)
  BY <1>3, <1>4, MoreSame
<1>6. d[i] = More(ty, cuts, d, i) /\ e[i] = More(ty, also, e, i)
  BY <1>3 DEF Upto
<1> QED
  BY <1>3, <1>5, <1>6

LEMMA UptoSame ==
    ASSUME NEW ty, NEW cuts \in SUBSET Nat, NEW m \in Nat, NEW d, NEW e,
           Upto(d, ty, cuts, m), Upto(e, ty, cuts, m)
    PROVE  \A n \in 0..m : d[n] = e[n]
<1>1. m <= m /\ \A n \in 0..m : Best(cuts, n) = Best(cuts, n) /\ (n \in cuts <=> n \in cuts)
  OBVIOUS
<1> QED
  BY <1>1, UptoAgree

LEMMA KeysOfIs ==
    ASSUME NEW cuts \in SUBSET Nat, typed \in Seq(Bytes)
    PROVE  \E d : /\ Upto(d, typed, cuts, Len(typed)) /\ KeysOf(cuts) = d[Len(typed)]
                  /\ \A n \in 0..Len(typed) : d[n] \in Seq(KeySet)
<1> DEFINE F(f) == [n \in 0..Len(typed) |->
                      LET cut == Max({0} \cup {c \in cuts : c < n})
                      IN IF n = 0 THEN <<>>
                         ELSE f[cut] \o Decode(SubSeq(typed, cut + 1, n)).keys
                                     \o (IF n \in cuts THEN <<Escape>> ELSE <<>>)]
           c == CHOOSE f : f = F(f)
<1>1. KeysOf(cuts) = c[Len(typed)]
  BY DEF KeysOf
<1>2. \A f : F(f) = [n \in 0..Len(typed) |-> More(typed, cuts, f, n)]
  BY DEF More, Best
<1> HIDE DEF F
<1>3. Len(typed) \in Nat
  OBVIOUS
<1>4. PICK d : /\ Upto(d, typed, cuts, Len(typed))
               /\ \A n \in 0..Len(typed) : d[n] \in Seq(KeySet)
               /\ d = F(d)
  <2>1. PICK d \in [0..Len(typed) -> Seq(KeySet)] : Upto(d, typed, cuts, Len(typed))
    BY UptoExists
  <2>2. d = [n \in 0..Len(typed) |-> More(typed, cuts, d, n)]
    BY <2>1 DEF Upto
  <2>3. \A n \in 0..Len(typed) : d[n] \in Seq(KeySet)
    BY <2>1
  <2> QED
    BY <1>2, <2>1, <2>2, <2>3
<1>6. c = F(c)
  BY <1>4
<1> HIDE DEF c
<1>7. Upto(c, typed, cuts, Len(typed))
  <2>1. c = [n \in 0..Len(typed) |-> More(typed, cuts, c, n)]
    BY <1>2, <1>6
  <2> DEFINE h == [n \in 0..Len(typed) |-> More(typed, cuts, c, n)]
  <2>2. \A n \in 0..Len(typed) : h[n] = More(typed, cuts, c, n)
    OBVIOUS
  <2>3. c = h
    BY <2>1
  <2> HIDE DEF h
  <2> QED
    BY <2>2, <2>3 DEF Upto
<1>8. \A n \in 0..Len(typed) : d[n] = c[n]
  BY <1>3, <1>4, <1>7, UptoSame
<1>9. \A n \in 0..Len(typed) : c[n] \in Seq(KeySet)
  BY <1>4, <1>8
<1> QED
  BY <1>1, <1>7, <1>9

-----------------------------------------------------------------------------
(* What has been sent, of the first r bytes and the pauses among them.     *)

Told(ty, cuts, r, waits, sent) ==
    LET b == Best(cuts, Len(ty) + 1)
        p == SubSeq(ty, b + 1, r)
    IN /\ waits = Decode(p).pending
       /\ \E d : Upto(d, ty, cuts, Len(ty)) /\ sent = d[b] \o Decode(p).keys

LEMMA LastPause ==
    ASSUME NEW ty \in Seq(Bytes), NEW r \in 0..Len(ty), NEW cuts \in SUBSET (1..r)
    PROVE  /\ cuts \in SUBSET Nat /\ Len(ty) \in Nat /\ r \in Nat
           /\ Best(cuts, Len(ty) + 1) \in 0..r
           /\ \A c \in cuts : c <= Best(cuts, Len(ty) + 1)
           /\ Best(cuts, Len(ty) + 1) = 0 \/ Best(cuts, Len(ty) + 1) \in cuts
<1>1. r \in Nat /\ Len(ty) \in Nat /\ Len(ty) + 1 \in Nat /\ Len(ty) + 1 # 0 /\ r <= Len(ty)
  OBVIOUS
<1>2. \A c \in cuts : c \in 1..r
  OBVIOUS
<1>3. \A c \in cuts : c \in Nat /\ c < Len(ty) + 1 /\ c \in 0..r
  BY <1>1, <1>2
<1>4. cuts \in SUBSET Nat
  BY <1>3
<1>5. /\ Best(cuts, Len(ty) + 1) = 0 \/ Best(cuts, Len(ty) + 1) \in cuts
      /\ \A c \in cuts : c < Len(ty) + 1 => c <= Best(cuts, Len(ty) + 1)
  BY <1>1, <1>4, BestFacts
<1>6. 0 \in 0..r
  BY <1>1
<1> QED
  BY <1>1, <1>3, <1>4, <1>5, <1>6

Trio(a, b, c) == a \in Seq(KeySet) /\ b \in Seq(KeySet) /\ c \in Seq(KeySet)

LEMMA Regrouped ==
    ASSUME NEW a, NEW b, NEW c, Trio(a, b, c)
    PROVE  (a \o b) \o c = a \o (b \o c)
<1> DEFINE K == KeySet
<1>1. a \in Seq(K) /\ b \in Seq(K) /\ c \in Seq(K)
  BY DEF Trio
<1> HIDE DEF K
<1> QED
  BY <1>1, ConcatAssociative

\* The keys up to the last pause are the same with a later one.
Alike(cuts, also, k) ==
    \A n \in 0..k : Best(cuts, n) = Best(also, n) /\ (n \in cuts <=> n \in also)

LEMMA UptoBelow ==
    ASSUME NEW ty, NEW cuts \in SUBSET Nat, NEW also \in SUBSET Nat, NEW m \in Nat, NEW k \in Nat,
           k <= m, NEW d, NEW e, Upto(d, ty, cuts, m), Upto(e, ty, also, m),
           Alike(cuts, also, k)
    PROVE  \A n \in 0..k : d[n] = e[n]
BY UptoAgree DEF Alike

\* A read, however much it brings.
LEMMA ToldFeeds ==
    ASSUME NEW ty \in Seq(Bytes), NEW r \in 0..Len(ty), NEW r2 \in 0..Len(ty), r <= r2,
           NEW cuts \in SUBSET (1..r), NEW waits, NEW sent, Told(ty, cuts, r, waits, sent)
    PROVE  LET q == SubSeq(ty, r + 1, r2) IN
           /\ Told(ty, cuts, r2, Decode(waits \o q).pending, sent \o Decode(waits \o q).keys)
           /\ Decode(waits \o q) \in Results
<1> DEFINE b == Best(cuts, Len(ty) + 1)
           p == SubSeq(ty, b + 1, r)
           q == SubSeq(ty, r + 1, r2)
           k1 == Decode(p).keys
           k2 == Decode(waits \o q).keys
<1>1. b \in 0..r /\ r \in Nat /\ r2 \in Nat /\ Len(ty) \in Nat /\ cuts \in SUBSET Nat
      /\ r <= Len(ty) /\ r2 <= Len(ty)
  BY LastPause
<1>2. waits = Decode(p).pending
  BY DEF Told
<1>3. PICK d : Upto(d, ty, cuts, Len(ty)) /\ sent = d[b] \o k1
  BY DEF Told
<1> HIDE DEF b
<1>4. b \in Nat /\ b <= r /\ b <= Len(ty) /\ b \in 0..Len(ty)
  BY <1>1
<1>5. p \in Seq(Bytes) /\ q \in Seq(Bytes)
  BY <1>1, <1>4, Between
<1>6. p \o q = SubSeq(ty, b + 1, r2)
  <2>1. b + 1 \in 1..Len(ty) + 1 /\ r \in (b + 1) - 1..Len(ty) /\ r2 \in r..Len(ty)
    BY <1>1, <1>4
  <2> QED
    BY <2>1, ConcatAdjacentSubSeq
<1> HIDE DEF p, q
<1>7. /\ Decode(p \o q).keys = k1 \o k2
      /\ Decode(p \o q).pending = Decode(waits \o q).pending
  <2>1. Cut(p, q)
    BY <1>5, CutAnywhere
  <2> QED
    BY <1>2, <2>1 DEF Cut
<1>8. waits \o q \in Seq(Bytes)
  <2>1. waits \in Seq(Bytes)
    BY <1>2, <1>5, DecodeOk
  <2> QED
    BY <1>5, <2>1
<1>9. k1 \in Seq(KeySet) /\ k2 \in Seq(KeySet) /\ Decode(waits \o q) \in Results
  BY <1>5, <1>8, DecodeOk
<1>10. d[b] \in Seq(KeySet)
  <2>1. PICK e : Upto(e, ty, cuts, Len(ty)) /\ \A n \in 0..Len(ty) : e[n] \in Seq(KeySet)
    <3>1. PICK e \in [0..Len(ty) -> Seq(KeySet)] : Upto(e, ty, cuts, Len(ty))
      BY <1>1, UptoExists
    <3>2. \A n \in 0..Len(ty) : e[n] \in Seq(KeySet)
      BY <3>1
    <3> QED
      BY <3>1, <3>2
  <2>2. e[b] \in Seq(KeySet)
    BY <1>4, <2>1
  <2>3. \A n \in 0..Len(ty) : d[n] = e[n]
    BY <1>1, <1>3, <2>1, UptoSame
  <2> QED
    BY <1>4, <2>2, <2>3
<1> HIDE DEF k1, k2
<1>11. sent \o k2 = d[b] \o (k1 \o k2)
  <2>1. PICK x : x = d[b]
    OBVIOUS
  <2>2. x \in Seq(KeySet) /\ sent = x \o k1
    BY <1>3, <1>10, <2>1
  <2>3. (x \o k1) \o k2 = x \o (k1 \o k2)
    <3>1. Trio(x, k1, k2)
      BY <1>9, <2>2 DEF Trio
    <3> QED
      BY <3>1, Regrouped
  <2> QED
    BY <2>1, <2>2, <2>3
<1>12. Told(ty, cuts, r2, Decode(waits \o q).pending, sent \o k2)
  BY <1>3, <1>6, <1>7, <1>11 DEF Told, b
<1> QED
  BY <1>9, <1>12 DEF k2, q

LEMMA BestWith ==
    ASSUME NEW ty \in Seq(Bytes), NEW r \in 1..Len(ty), NEW cuts \in SUBSET (1..r), r \notin cuts
    PROVE  /\ cuts \cup {r} \in SUBSET Nat /\ cuts \cup {r} \in SUBSET (1..r)
           /\ Best(cuts \cup {r}, Len(ty) + 1) = r
           /\ Best(cuts \cup {r}, r) = Best(cuts, Len(ty) + 1)
           /\ \A n \in 0..r - 1 : Best(cuts, n) = Best(cuts \cup {r}, n)
                                  /\ (n \in cuts <=> n \in cuts \cup {r})
<1> DEFINE also == cuts \cup {r}
<1>1. r \in Nat /\ r # 0 /\ Len(ty) \in Nat /\ r < Len(ty) + 1 /\ r \in 1..r /\ r \in 0..Len(ty)
  OBVIOUS
<1>2. \A c \in cuts : c \in 1..r
  OBVIOUS
<1>3. \A c \in cuts : c \in Nat /\ c < r /\ c < Len(ty) + 1
  BY <1>1, <1>2
<1>4. also \in SUBSET Nat /\ also \in SUBSET (1..r)
  BY <1>1, <1>2, <1>3
<1>5. Best(also, Len(ty) + 1) = r
  <2>1. Best(also, Len(ty) + 1) \in 0..r /\ \A c \in also : c <= Best(also, Len(ty) + 1)
    BY <1>1, <1>4, LastPause
  <2>2. r <= Best(also, Len(ty) + 1)
    BY <2>1
  <2> QED
    BY <1>1, <2>1, <2>2
<1>6. {c \in also : c < r} = {c \in cuts : c < Len(ty) + 1}
  <2>1. ~(r < r)
    BY <1>1
  <2>2. \A c : c \in also /\ c < r <=> c \in cuts /\ c < Len(ty) + 1
    BY <1>3, <2>1
  <2> QED
    BY <2>2
<1>7. ASSUME NEW n \in 0..r - 1 PROVE Best(cuts, n) = Best(also, n) /\ (n \in cuts <=> n \in also)
  <2>1. n # r /\ ~(r < n)
    BY <1>1
  <2>2. {c \in also : c < n} = {c \in cuts : c < n}
    BY <2>1
  <2> QED
    BY <2>1, <2>2 DEF Best
<1> QED
  BY <1>4, <1>5, <1>6, <1>7 DEF Best

\* A pause after a lone Escape.
LEMMA ToldPauses ==
    ASSUME NEW ty \in Seq(Bytes), NEW r \in 0..Len(ty), NEW cuts \in SUBSET (1..r),
           NEW waits, waits # <<>>, NEW sent, Told(ty, cuts, r, waits, sent)
    PROVE  /\ cuts \cup {r} \in SUBSET (1..r)
           /\ Told(ty, cuts \cup {r}, r, <<>>, sent \o <<Escape>>)
<1> DEFINE b == Best(cuts, Len(ty) + 1)
           p == SubSeq(ty, b + 1, r)
           also == cuts \cup {r}
           none == SubSeq(ty, r + 1, r)
<1>1. b \in 0..r /\ r \in Nat /\ Len(ty) \in Nat /\ cuts \in SUBSET Nat /\ r <= Len(ty)
      /\ \A c \in cuts : c <= b
  BY LastPause
<1>2. waits = Decode(p).pending
  BY DEF Told
<1>3. PICK d : Upto(d, ty, cuts, Len(ty)) /\ sent = d[b] \o Decode(p).keys
  BY DEF Told
<1>4. none = <<>>
  <2>1. r + 1 \in Int /\ r \in Int /\ r < r + 1
    BY <1>1
  <2> QED
    BY <2>1, SubSeqEmpty
<1>5. Decode(<<>>).pending = <<>> /\ Decode(<<>>).keys = <<>>
  BY DecodeNone DEF Nothing
<1>6. b # r
  <2> SUFFICES ASSUME b = r PROVE FALSE
    OBVIOUS
  <2>1. p = none
    OBVIOUS
  <2> HIDE DEF p, none
  <2> QED
    BY <1>2, <1>4, <1>5, <2>1
<1> HIDE DEF b
<1>20. Decode(p).keys \in Seq(KeySet)
  <2>1. b \in Nat /\ r \in Nat /\ b <= r /\ r <= Len(ty)
    BY <1>1
  <2>2. p \in Seq(Bytes)
    BY <2>1, Between
  <2> HIDE DEF p
  <2> QED
    BY <2>2, DecodeOk
<1>7. b \in 0..r - 1 /\ r \in 1..Len(ty) /\ r # 0 /\ r \notin cuts /\ r \in 0..Len(ty) /\ r - 1 \in Nat
      /\ r - 1 <= Len(ty)
  BY <1>1, <1>6
<1>8. /\ also \in SUBSET Nat /\ also \in SUBSET (1..r) /\ Best(also, Len(ty) + 1) = r
      /\ Best(also, r) = b
      /\ \A n \in 0..r - 1 : Best(cuts, n) = Best(also, n) /\ (n \in cuts <=> n \in also)
  BY <1>7, BestWith DEF b
<1>9. PICK e : Upto(e, ty, also, Len(ty)) /\ \A n \in 0..Len(ty) : e[n] \in Seq(KeySet)
  <2>1. PICK e \in [0..Len(ty) -> Seq(KeySet)] : Upto(e, ty, also, Len(ty))
    BY <1>8, UptoExists
  <2>2. \A n \in 0..Len(ty) : e[n] \in Seq(KeySet)
    BY <2>1
  <2> QED
    BY <2>1, <2>2
<1>10. e[b] = d[b]
  <2> HIDE DEF p, also, none
  <2>1. PICK k : k = r - 1
    OBVIOUS
  <2>2. k \in Nat /\ k <= Len(ty) /\ b \in 0..k
        /\ \A n \in 0..k : Best(cuts, n) = Best(also, n) /\ (n \in cuts <=> n \in also)
    BY <1>7, <1>8, <2>1
  <2>3. Upto(d, ty, cuts, Len(ty)) /\ Upto(e, ty, also, Len(ty))
    BY <1>3, <1>9
  <2>4. \A n \in 0..k : d[n] = e[n]
    <3>1. Len(ty) \in Nat /\ cuts \in SUBSET Nat /\ also \in SUBSET Nat /\ Alike(cuts, also, k)
      BY <1>1, <1>8, <2>2 DEF Alike
    <3> QED
      BY <2>2, <2>3, <3>1, UptoBelow
  <2> QED
    BY <2>2, <2>4
<1>11. e[r] = More(ty, also, e, r)
  BY <1>7, <1>9 DEF Upto
<1>12. r \in also
  OBVIOUS
<1> HIDE DEF p, also, none
<1>13. e[r] = e[b] \o Decode(p).keys \o <<Escape>>
  BY <1>7, <1>8, <1>11, <1>12 DEF More, p
<1>14. e[r] = sent \o <<Escape>> /\ e[r] \in Seq(KeySet)
  BY <1>3, <1>7, <1>9, <1>10, <1>13, <1>20
<1>15. e[r] \o Decode(none).keys = e[r]
  BY <1>4, <1>5, <1>14, ConcatEmptySeq
<1>16. <<>> = Decode(none).pending
  BY <1>4, <1>5
<1>17. sent \o <<Escape>> = e[r] \o Decode(none).keys
  BY <1>14, <1>15
<1>18. Told(ty, also, r, <<>>, sent \o <<Escape>>)
  BY <1>8, <1>9, <1>16, <1>17 DEF Told, none
<1> QED
  BY <1>8, <1>18 DEF also

\* All that is typed.
LEMMA ToldAll ==
    ASSUME NEW ty \in Seq(Bytes), NEW cuts \in SUBSET (1..Len(ty)), NEW waits, NEW sent,
           Told(ty, cuts, Len(ty), waits, sent),
           NEW e, Upto(e, ty, cuts, Len(ty)), \A n \in 0..Len(ty) : e[n] \in Seq(KeySet)
    PROVE  sent = e[Len(ty)]
<1> DEFINE m == Len(ty)
           b == Best(cuts, m + 1)
           p == SubSeq(ty, b + 1, m)
<1>1. m \in Nat /\ m \in 0..m
  OBVIOUS
<1>2. b \in 0..m /\ cuts \in SUBSET Nat /\ \A c \in cuts : c <= b /\ c \in 1..m
  BY <1>1, LastPause
<1>3. PICK d : Upto(d, ty, cuts, m) /\ sent = d[b] \o Decode(p).keys
  BY DEF Told
<1>4. d[b] = e[b]
  <2>1. Upto(e, ty, cuts, m)
    OBVIOUS
  <2> HIDE DEF m, b, p
  <2>2. \A n \in 0..m : d[n] = e[n]
    BY <1>1, <1>2, <1>3, <2>1, UptoSame
  <2> QED
    BY <1>2, <2>2
<1>5. Decode(<<>>).keys = <<>>
  BY DecodeNone DEF Nothing
<1> HIDE DEF b
<1>6. CASE b = m
  <2>1. p = <<>>
    <3>1. m + 1 \in Int /\ m \in Int /\ m < m + 1
      BY <1>1
    <3> QED
      BY <1>6, <3>1, SubSeqEmpty
  <2>2. e[m] \in Seq(KeySet)
    BY <1>1
  <2> HIDE DEF p, m
  <2>3. sent = e[m] \o <<>>
    BY <1>3, <1>4, <1>5, <1>6, <2>1
  <2> QED
    BY <2>2, <2>3, ConcatEmptySeq DEF m
<1>7. CASE b # m
  <2>1. m # 0 /\ m \notin cuts
    BY <1>1, <1>2, <1>7
  <2>2. Best(cuts, m) = b
    <3>1. \A c \in cuts : c < m <=> c < m + 1
      BY <1>1, <1>2, <2>1
    <3>2. {c \in cuts : c < m} = {c \in cuts : c < m + 1}
      BY <3>1
    <3> QED
      BY <3>2 DEF Best, b
  <2>3. e[m] = More(ty, cuts, e, m)
    BY <1>1 DEF Upto
  <2>4. p \in Seq(Bytes) /\ e[b] \in Seq(KeySet)
    <3>1. b \in Nat /\ b <= m /\ m <= Len(ty)
      BY <1>1, <1>2
    <3> QED
      BY <1>1, <1>2, <3>1, Between
  <2> HIDE DEF p
  <2>5. Decode(p).keys \in Seq(KeySet)
    BY <2>4, DecodeOk
  <2>6. e[m] = e[b] \o Decode(p).keys \o <<>>
    BY <2>1, <2>2, <2>3 DEF More, p
  <2>7. e[b] \o Decode(p).keys \in Seq(KeySet)
    BY <2>4, <2>5
  <2>8. e[m] = e[b] \o Decode(p).keys
    BY <2>6, <2>7, ConcatEmptySeq
  <2> QED
    BY <1>3, <1>4, <2>8 DEF m
<1> QED
  BY <1>6, <1>7

-----------------------------------------------------------------------------
(* The steps of the reader.                                                *)

\* How much of the input has been read, and what has come of it.
ReadOf(ty, re) == Len(ty) - Len(re)
Sent(a, b, c) == a \o b \o c

Held(ty, re, cuts, waits) ==
    /\ ty \in Seq(Bytes) /\ re \in Seq(Bytes) /\ waits \in Seq(Bytes)
    /\ ReadOf(ty, re) \in 0..Len(ty)
    /\ re = SubSeq(ty, ReadOf(ty, re) + 1, Len(ty))
    /\ cuts \in SUBSET (1..ReadOf(ty, re))

Queues(a, b, c) == a \in Seq(KeySet) /\ b \in Seq(KeySet) /\ c \in Seq(KeySet)

InputInv ==
    /\ Held(typed, rest, pauses, pending)
    /\ Queues(received, keys, decoded)
    /\ reader = "reads" =>
          Told(typed, pauses, ReadOf(typed, rest), pending, Sent(received, keys, decoded))

LEMMA PieceOfStart ==
    ASSUME NEW T, NEW s \in Seq(T), NEW a \in 1..Len(s), NEW n \in 1..Len(s) - a + 1
    PROVE  SubSeq(SubSeq(s, a, Len(s)), 1, n) = SubSeq(s, a, a + n - 1)
<1> DEFINE m == Len(s)
<1>1. /\ m \in 1..m /\ a \in 1..m /\ 1 \in 1..m - a + 1 /\ n \in 1..m - a + 1
      /\ a + 1 - 1 = a
  OBVIOUS
<1>2. SubSeq(SubSeq(s, a, m), 1, n) = SubSeq(s, a + 1 - 1, a + n - 1)
  BY <1>1, SubSeqOfSubSeq
<1> QED
  BY <1>1, <1>2

NextRead(ty, re, n) ==
    LET r == ReadOf(ty, re)
        left == SubSeq(re, n + 1, Len(re))
    IN /\ r \in Nat /\ r + n \in 0..Len(ty) /\ r + n \in Nat /\ Len(ty) \in Nat
       /\ SubSeq(re, 1, n) = SubSeq(ty, r + 1, r + n)
       /\ SubSeq(re, 1, n) \in Seq(Bytes)
       /\ left \in Seq(Bytes) /\ ReadOf(ty, left) = r + n
       /\ left = SubSeq(ty, r + n + 1, Len(ty))

\* What a read takes is what comes next in the input.
LEMMA ReadIsNext ==
    ASSUME NEW ty, NEW re, NEW cuts, NEW waits, Held(ty, re, cuts, waits), NEW n \in 1..Len(re)
    PROVE  NextRead(ty, re, n)
<1> DEFINE r == ReadOf(ty, re)
           m == Len(ty)
           left == SubSeq(re, n + 1, Len(re))
           read == SubSeq(re, 1, n)
<1>1. /\ ty \in Seq(Bytes) /\ re \in Seq(Bytes) /\ r \in 0..m /\ re = SubSeq(ty, r + 1, m)
      /\ r = m - Len(re)
  BY DEF Held, ReadOf
<1>2. m \in Nat /\ Len(re) \in Nat /\ n \in Nat /\ n >= 1 /\ n <= Len(re)
  BY <1>1
<1> HIDE DEF m, r
<1>3. /\ r \in Nat /\ r + n \in Nat /\ r + n \in 0..m /\ Len(re) = m - (r + 1) + 1 /\ r + 1 \in Nat
      /\ n <= m - (r + 1) + 1 /\ r + 1 >= 1 /\ r + 1 <= m + 1 /\ r + 1 + n = r + n + 1
      /\ m - (r + n) = Len(re) - n /\ r + 1 + n <= m + 1
  BY <1>1, <1>2
<1>4. read = SubSeq(ty, r + 1, r + n)
  <2>1. r + 1 \in 1..m /\ n \in 1..m - (r + 1) + 1 /\ r + 1 + n - 1 = r + n
    BY <1>2, <1>3
  <2>2. SubSeq(SubSeq(ty, r + 1, m), 1, n) = SubSeq(ty, r + 1, r + 1 + n - 1)
    BY <1>1, <2>1, PieceOfStart DEF m
  <2> QED
    BY <1>1, <2>1, <2>2
<1>5. read \in Seq(Bytes)
  <2>1. 1 \in Nat /\ n \in Nat /\ 1 >= 1 /\ n <= Len(re) /\ 1 <= n + 1
    BY <1>2
  <2> QED
    BY <1>1, <2>1, PieceFacts DEF Piece
<1>6. left = SubSeq(ty, r + n + 1, m)
  <2>1. SubSeq(SubSeq(ty, r + 1, m), n + 1, m - (r + 1) + 1) = SubSeq(ty, r + 1 + n, m)
    BY <1>1, <1>2, <1>3, PieceOfEnd DEF m
  <2> QED
    BY <1>1, <1>3, <2>1
<1>7. left \in Seq(Bytes) /\ Len(left) = Len(re) - n
  <2>1. n + 1 \in Nat /\ n + 1 >= 1 /\ Len(re) <= Len(re) /\ n + 1 <= Len(re) + 1
        /\ Len(re) - (n + 1) + 1 = Len(re) - n
    BY <1>2
  <2> QED
    BY <1>1, <1>2, <2>1, PieceFacts DEF Piece
<1>8. ReadOf(ty, left) = r + n
  <2> HIDE DEF left
  <2>1. m - Len(left) = r + n
    BY <1>2, <1>3, <1>7
  <2> QED
    BY <2>1 DEF ReadOf, m
<1> QED
  BY <1>2, <1>3, <1>4, <1>5, <1>6, <1>7, <1>8 DEF NextRead, m, r

LEMMA Longer ==
    ASSUME NEW a \in Seq(KeySet), NEW b \in Seq(KeySet), NEW c \in Seq(KeySet)
    PROVE  Sent(a, b, c) = Sent(a, b, <<>>) \o c
<1>1. a \o b \in Seq(KeySet)
  OBVIOUS
<1>2. (a \o b) \o <<>> = a \o b
  BY <1>1, ConcatEmptySeq
<1> QED
  BY <1>2 DEF Sent

LEMMA TakenFirst ==
    ASSUME NEW a \in Seq(KeySet), NEW b \in Seq(KeySet), b # <<>>
    PROVE  /\ Append(a, Head(b)) \in Seq(KeySet) /\ Tail(b) \in Seq(KeySet)
           /\ Append(a, Head(b)) \o Tail(b) = a \o b
<1> DEFINE h == Head(b)
           u == Tail(b)
<1>1. h \in KeySet /\ u \in Seq(KeySet) /\ <<h>> \in Seq(KeySet)
  BY HeadTailProperties
<1>2. b = <<h>> \o u
  <2>1. /\ Len(b) \in Nat /\ Len(b) # 0 /\ Len(u) = Len(b) - 1 /\ \A i \in 1..Len(u) : u[i] = b[i + 1]
    BY HeadTailProperties
  <2>2. h = b[1]
    OBVIOUS
  <2> HIDE DEF h, u
  <2>3. /\ <<h>> \o u \in Seq(KeySet) /\ Len(<<h>> \o u) = 1 + Len(u)
        /\ \A i \in 1..1 + Len(u) : (<<h>> \o u)[i] = IF i <= 1 THEN <<h>>[i] ELSE u[i - 1]
    <3>1. Len(<<h>>) = 1
      OBVIOUS
    <3> QED
      BY <1>1, <3>1, ConcatProperties
  <2>4. Len(<<h>> \o u) = Len(b)
    BY <2>1, <2>3
  <2>5. ASSUME NEW i \in 1..Len(b) PROVE (<<h>> \o u)[i] = b[i]
    <3>1. CASE i = 1
      <4>1. (<<h>> \o u)[1] = <<h>>[1]
        BY <2>1, <2>3
      <4>2. <<h>>[1] = h
        OBVIOUS
      <4> QED
        BY <2>2, <3>1, <4>1, <4>2
    <3>2. CASE i # 1
      <4>1. i - 1 \in 1..Len(u) /\ i \in 1..1 + Len(u) /\ ~(i <= 1) /\ i - 1 + 1 = i
        BY <2>1, <3>2
      <4> QED
        BY <2>1, <2>3, <4>1
    <3> QED
      BY <3>1, <3>2
  <2> QED
    BY <2>3, <2>4, <2>5, SeqEqual
<1>3. Append(a, h) = a \o <<h>> /\ Append(a, h) \in Seq(KeySet)
  BY <1>1, AppendIsConcat
<1> HIDE DEF h, u
<1>4. (a \o <<h>>) \o u = a \o (<<h>> \o u)
  <2>1. Trio(a, <<h>>, u)
    BY <1>1 DEF Trio
  <2> QED
    BY <2>1, Regrouped
<1> QED
  BY <1>1, <1>2, <1>3, <1>4 DEF h, u

LEMMA InputInitial == InputInit => InputInv
<1> SUFFICES ASSUME InputInit PROVE InputInv
  OBVIOUS
<1>1. typed \in Seq(Bytes) /\ Len(typed) \in Nat
  BY InputAssumption DEF InputInit
<1>2. /\ rest = typed /\ pending = <<>> /\ decoded = <<>> /\ keys = <<>> /\ received = <<>>
      /\ pauses = {}
  BY DEF InputInit
<1>3. ReadOf(typed, rest) = 0 /\ 0 \in 0..Len(typed)
  BY <1>1, <1>2 DEF ReadOf
<1>4. SubSeq(typed, 0 + 1, Len(typed)) = typed
  BY <1>1, SubSeqFull
<1>5. Held(typed, rest, pauses, pending)
  BY <1>1, <1>2, <1>3, <1>4 DEF Held
<1>6. Queues(received, keys, decoded)
  BY <1>2 DEF Queues
<1>7. Told(typed, {}, 0, <<>>, <<>>)
  <2> DEFINE b == Best({}, Len(typed) + 1)
             p == SubSeq(typed, b + 1, 0)
  <2>1. b = 0 /\ {} \in SUBSET Nat
    <3>1. {} \in SUBSET (1..0) /\ 0 \in 0..Len(typed)
      BY <1>1
    <3>2. b \in 0..0
      BY <1>1, <3>1, LastPause
    <3> QED
      BY <3>2
  <2> HIDE DEF b
  <2>2. p = <<>>
    <3>1. b + 1 \in Int /\ 0 \in Int /\ 0 < b + 1
      BY <2>1
    <3> QED
      BY <3>1, SubSeqEmpty
  <2> HIDE DEF p
  <2>3. Decode(p).keys = <<>> /\ Decode(p).pending = <<>>
    BY <2>2, DecodeNone DEF Nothing
  <2>4. PICK d \in [0..Len(typed) -> Seq(KeySet)] : Upto(d, typed, {}, Len(typed))
    BY <1>1, <2>1, UptoExists
  <2>5. d[b] = <<>>
    <3>1. 0 \in 0..Len(typed)
      BY <1>1
    <3>2. d[0] = More(typed, {}, d, 0)
      BY <2>4, <3>1 DEF Upto
    <3> QED
      BY <2>1, <3>2 DEF More
  <2>6. <<>> = d[b] \o Decode(p).keys
    BY <2>3, <2>5
  <2> QED
    BY <2>3, <2>4, <2>6 DEF Told, b, p
<1>8. Sent(received, keys, decoded) = <<>>
  BY <1>2 DEF Sent
<1> QED
  BY <1>2, <1>3, <1>5, <1>6, <1>7, <1>8 DEF InputInv

LEMMA InputFeeds ==
    ASSUME InputInv, NEW n \in 1..Len(rest), feed(n)
    PROVE  InputInv'
<1> DEFINE r == ReadOf(typed, rest)
           q == SubSeq(rest, 1, n)
           result == Decode(pending \o q)
<1>1. /\ reader = "reads" /\ decoded = <<>> /\ pending' = result.pending /\ decoded' = result.keys
      /\ rest' = SubSeq(rest, n + 1, Len(rest))
      /\ UNCHANGED <<typed, keys, received, pauses, reader>>
  BY DEF feed
<1>2. /\ Held(typed, rest, pauses, pending) /\ Queues(received, keys, decoded)
      /\ Told(typed, pauses, r, pending, Sent(received, keys, decoded))
  BY <1>1 DEF InputInv
<1>3. /\ r \in Nat /\ r + n \in 0..Len(typed) /\ r + n \in Nat /\ Len(typed) \in Nat
      /\ q = SubSeq(typed, r + 1, r + n) /\ q \in Seq(Bytes)
      /\ rest' \in Seq(Bytes) /\ ReadOf(typed, rest') = r + n
      /\ rest' = SubSeq(typed, r + n + 1, Len(typed))
  <2> DEFINE left == SubSeq(rest, n + 1, Len(rest))
  <2>3. NextRead(typed, rest, n)
    BY <1>2, ReadIsNext
  <2>1. /\ r \in Nat /\ r + n \in 0..Len(typed) /\ r + n \in Nat /\ Len(typed) \in Nat
        /\ q = SubSeq(typed, r + 1, r + n) /\ q \in Seq(Bytes)
        /\ left \in Seq(Bytes) /\ ReadOf(typed, left) = r + n
        /\ left = SubSeq(typed, r + n + 1, Len(typed))
    BY <2>3 DEF NextRead
  <2>2. rest' = left
    BY <1>1
  <2> HIDE DEF left, r, q
  <2> QED
    BY <2>1, <2>2
<1>4. typed \in Seq(Bytes) /\ pending \in Seq(Bytes) /\ pauses \in SUBSET (1..r) /\ r \in 0..Len(typed)
  BY <1>2 DEF Held
<1> HIDE DEF r, q
<1>5. /\ Told(typed, pauses, r + n, result.pending, Sent(received, keys, decoded) \o result.keys)
      /\ result \in Results
  <2> DEFINE s == SubSeq(typed, r + 1, r + n)
  <2>1. r <= r + n
    BY <1>3
  <2>2. /\ Told(typed, pauses, r + n, Decode(pending \o s).pending,
                Sent(received, keys, decoded) \o Decode(pending \o s).keys)
        /\ Decode(pending \o s) \in Results
    BY <1>2, <1>3, <1>4, <2>1, ToldFeeds DEF r
  <2> QED
    BY <1>3, <2>2
<1>6. result.keys \in Seq(KeySet) /\ result.pending \in Seq(Bytes)
  <2>1. pending \o q \in Seq(Bytes)
    BY <1>3, <1>4
  <2> QED
    BY <2>1, DecodeOk
<1> HIDE DEF result
<1>7. Held(typed, rest', pauses, pending')
  <2>1. pauses \in SUBSET (1..r + n)
    BY <1>3, <1>4
  <2> QED
    BY <1>1, <1>3, <1>4, <1>6, <2>1 DEF Held
<1>8. received \in Seq(KeySet) /\ keys \in Seq(KeySet)
  BY <1>2 DEF Queues
<1>9. Sent(received, keys, decoded') = Sent(received, keys, decoded) \o result.keys
  BY <1>1, <1>6, <1>8, Longer
<1>10. Told(typed, pauses, ReadOf(typed, rest'), pending', Sent(received, keys, decoded'))
  BY <1>1, <1>3, <1>5, <1>9
<1>11. Queues(received, keys, decoded')
  BY <1>1, <1>6, <1>8 DEF Queues
<1> QED
  BY <1>1, <1>7, <1>10, <1>11 DEF InputInv

LEMMA InputPauses ==
    ASSUME InputInv, Pause
    PROVE  InputInv'
<1> DEFINE r == ReadOf(typed, rest)
<1>1. /\ reader = "reads" /\ decoded = <<>> /\ pending = <<"esc">> /\ pending' = <<>>
      /\ decoded' = <<Escape>> /\ pauses' = pauses \cup {r}
      /\ UNCHANGED <<typed, rest, keys, received, reader>>
  BY DEF Pause, ReadOf
<1>2. /\ Held(typed, rest, pauses, pending) /\ Queues(received, keys, decoded)
      /\ Told(typed, pauses, r, pending, Sent(received, keys, decoded))
  BY <1>1 DEF InputInv
<1>3. /\ typed \in Seq(Bytes) /\ pauses \in SUBSET (1..r) /\ r \in 0..Len(typed)
      /\ rest \in Seq(Bytes) /\ rest = SubSeq(typed, r + 1, Len(typed))
  BY <1>2 DEF Held
<1> HIDE DEF r
<1>4. pending # <<>>
  BY <1>1
<1>5. /\ pauses' \in SUBSET (1..r)
      /\ Told(typed, pauses', r, <<>>, Sent(received, keys, decoded) \o <<Escape>>)
  <2>1. /\ pauses \cup {r} \in SUBSET (1..r)
        /\ Told(typed, pauses \cup {r}, r, <<>>, Sent(received, keys, decoded) \o <<Escape>>)
    BY <1>2, <1>3, <1>4, ToldPauses
  <2> QED
    BY <1>1, <2>1
<1>6. Held(typed, rest, pauses', pending')
  BY <1>1, <1>3, <1>5 DEF Held, r
<1>7. received \in Seq(KeySet) /\ keys \in Seq(KeySet) /\ decoded' \in Seq(KeySet)
  BY <1>1, <1>2, EscapeOk DEF Queues
<1>8. Sent(received, keys, decoded') = Sent(received, keys, decoded) \o <<Escape>>
  BY <1>1, <1>7, EscapeOk, Longer
<1>9. Told(typed, pauses', r, pending', Sent(received, keys, decoded'))
  BY <1>1, <1>5, <1>8
<1>10. Queues(received, keys, decoded')
  BY <1>7 DEF Queues
<1> QED
  BY <1>1, <1>6, <1>9, <1>10 DEF InputInv, r

\* A step that moves keys along, or lets the reader end.
LEMMA InputMoves ==
    ASSUME InputInv, UNCHANGED <<typed, rest, pending, pauses>>,
           Queues(received, keys, decoded)',
           reader' = "reads" => /\ reader = "reads"
                                /\ Sent(received, keys, decoded)' = Sent(received, keys, decoded)
    PROVE  InputInv'
<1>1. Held(typed, rest, pauses, pending)'
  BY DEF InputInv
<1>2. ASSUME reader' = "reads"
      PROVE  Told(typed, pauses, ReadOf(typed, rest), pending, Sent(received, keys, decoded))'
  <2>1. reader = "reads" /\ Sent(received, keys, decoded)' = Sent(received, keys, decoded)
    BY <1>2
  <2>2. Told(typed, pauses, ReadOf(typed, rest), pending, Sent(received, keys, decoded))
    BY <2>1 DEF InputInv
  <2> QED
    BY <2>1, <2>2
<1> QED
  BY <1>1, <1>2 DEF InputInv

LEMMA InputSteps == InputInv /\ [InputNext]_inputVars => InputInv'
<1> SUFFICES ASSUME InputInv, [InputNext]_inputVars PROVE InputInv'
  OBVIOUS
<1>1. received \in Seq(KeySet) /\ keys \in Seq(KeySet) /\ decoded \in Seq(KeySet)
  BY DEF InputInv, Queues
<1>2. ASSUME NEW n \in 1..Len(rest), feed(n) PROVE InputInv'
  BY <1>2, InputFeeds
<1>3. CASE Pause
  BY <1>3, InputPauses
<1>4. CASE SendKey
  <2>1. /\ UNCHANGED <<typed, rest, pending, received, pauses, reader>> /\ decoded # <<>>
        /\ keys' = Append(keys, Head(decoded)) /\ decoded' = Tail(decoded)
    BY <1>4 DEF SendKey
  <2>2. keys' \in Seq(KeySet) /\ decoded' \in Seq(KeySet) /\ keys' \o decoded' = keys \o decoded
    BY <1>1, <2>1, TakenFirst
  <2>3. (received \o keys) \o decoded = received \o (keys \o decoded)
    <3>1. Trio(received, keys, decoded)
      BY <1>1 DEF Trio
    <3> QED
      BY <3>1, Regrouped
  <2>6. PICK k, d : k = keys' /\ d = decoded'
    OBVIOUS
  <2>7. (received \o k) \o d = received \o (k \o d)
    <3>1. Trio(received, k, d)
      BY <1>1, <2>2, <2>6 DEF Trio
    <3> QED
      BY <3>1, Regrouped
  <2>4. Sent(received, keys, decoded)' = Sent(received, keys, decoded)
    BY <2>1, <2>2, <2>3, <2>6, <2>7 DEF Sent
  <2>5. Queues(received, keys, decoded)'
    BY <1>1, <2>1, <2>2 DEF Queues
  <2> QED
    BY <2>1, <2>4, <2>5, InputMoves
<1>5. CASE DropKey
  <2>1. /\ UNCHANGED <<typed, rest, pending, keys, received, pauses, reader>> /\ decoded # <<>>
        /\ reader = "stopping" /\ decoded' = Tail(decoded)
    BY <1>5 DEF DropKey
  <2>2. Queues(received, keys, decoded)'
    BY <1>1, <2>1, HeadTailProperties DEF Queues
  <2> QED
    BY <2>1, <2>2, InputMoves
<1>6. CASE ReaderEnds
  <2>1. UNCHANGED <<typed, rest, pending, decoded, keys, received, pauses>> /\ reader' = "gone"
    BY <1>6 DEF ReaderEnds
  <2>2. Queues(received, keys, decoded)'
    BY <1>1, <2>1 DEF Queues
  <2> QED
    BY <2>1, <2>2, InputMoves
<1>7. CASE TakeKey
  <2>1. /\ UNCHANGED <<typed, rest, pending, decoded, pauses, reader>> /\ keys # <<>>
        /\ received' = Append(received, Head(keys)) /\ keys' = Tail(keys)
    BY <1>7 DEF TakeKey
  <2>2. received' \in Seq(KeySet) /\ keys' \in Seq(KeySet) /\ received' \o keys' = received \o keys
    BY <1>1, <2>1, TakenFirst
  <2>3. Sent(received, keys, decoded)' = Sent(received, keys, decoded)
    BY <2>1, <2>2 DEF Sent
  <2>4. Queues(received, keys, decoded)'
    BY <1>1, <2>1, <2>2 DEF Queues
  <2> QED
    BY <2>1, <2>3, <2>4, InputMoves
<1>8. CASE stopInput
  <2>1. UNCHANGED <<typed, rest, pending, decoded, keys, received, pauses>> /\ reader' = "stopping"
    BY <1>8 DEF stopInput
  <2>2. Queues(received, keys, decoded)'
    BY <1>1, <2>1 DEF Queues
  <2> QED
    BY <2>1, <2>2, InputMoves
<1>9. CASE UNCHANGED inputVars
  <2>1. UNCHANGED <<typed, rest, pending, decoded, keys, received, pauses, reader>>
    BY <1>9 DEF inputVars
  <2>2. Queues(received, keys, decoded)' /\ Sent(received, keys, decoded)' = Sent(received, keys, decoded)
    BY <1>1, <2>1 DEF Queues
  <2> QED
    BY <2>1, <2>2, InputMoves
<1> QED
  BY <1>2, <1>3, <1>4, <1>5, <1>6, <1>7, <1>8, <1>9 DEF InputNext

\* The rest read in one piece: what the property is about.
LEMMA InputHolds == InputInv => ChunksDontMatter
<1> SUFFICES ASSUME InputInv, reader = "reads"
             PROVE  received \o keys \o decoded \o Decode(pending \o rest).keys = KeysOf(pauses)
  BY DEF ChunksDontMatter
<1> DEFINE r == ReadOf(typed, rest)
           m == Len(typed)
           q == SubSeq(typed, r + 1, m)
           sent == Sent(received, keys, decoded)
<1>1. /\ Held(typed, rest, pauses, pending) /\ Told(typed, pauses, r, pending, sent)
  BY DEF InputInv
<1>2. /\ typed \in Seq(Bytes) /\ pauses \in SUBSET (1..r) /\ r \in 0..m /\ rest = q
  BY <1>1 DEF Held
<1>3. m \in Nat /\ m \in 0..m /\ r \in Nat /\ r <= m
  BY <1>2
<1>4. pauses \in SUBSET (1..m) /\ pauses \in SUBSET Nat
  BY <1>2, <1>3
<1> HIDE DEF r, sent
<1>5. Told(typed, pauses, m, Decode(pending \o q).pending, sent \o Decode(pending \o q).keys)
  BY <1>1, <1>2, <1>3, ToldFeeds
<1>6. PICK e : /\ Upto(e, typed, pauses, m) /\ KeysOf(pauses) = e[m]
               /\ \A n \in 0..m : e[n] \in Seq(KeySet)
  BY <1>2, <1>4, KeysOfIs
<1>7. sent \o Decode(pending \o q).keys = e[m]
  BY <1>2, <1>4, <1>5, <1>6, ToldAll
<1> QED
  BY <1>2, <1>6, <1>7 DEF sent, Sent

(* However the terminal cuts the input into reads, and whenever an Escape  *)
(* is let go for want of a successor, the keys on their way are those of   *)
(* the whole input: inputDecoder.feed (src/src/input.go) loses, invents    *)
(* and reorders nothing at a boundary between two reads.                   *)
THEOREM ReadsAreWhole == InputSpec => []ChunksDontMatter
<1> QED
  BY InputInitial, InputSteps, InputHolds, PTL DEF InputSpec

-----------------------------------------------------------------------------
(* The rows.                                                               *)

\* m is the last of the places in W, 0 when there is none.
IsLast(m, W) ==
    /\ m = 0 => W = {}
    /\ m # 0 => m \in W /\ \A w \in W : w <= m

LEMMA LastIs ==
    ASSUME NEW n \in Nat, NEW W \in SUBSET (1..n)
    PROVE  IsLast(Max({0} \cup W), W) /\ Max({0} \cup W) \in 0..n
<1> DEFINE S == {0} \cup W
<1>1. S \in SUBSET (0..n) /\ S # {} /\ 0 \notin W
  OBVIOUS
<1>2. Max(S) \in S /\ \A y \in S : y <= Max(S)
  BY <1>1, MaxIs
<1>3. Max(S) = 0 => W = {}
  <2> SUFFICES ASSUME Max(S) = 0, NEW w \in W PROVE FALSE
    OBVIOUS
  <2>1. w \in 1..n /\ w <= 0
    BY <1>2
  <2> QED
    BY <2>1
<1> HIDE DEF S
<1>4. \A w \in W : w \in S
  BY DEF S
<1>5. Max(S) # 0 => Max(S) \in W
  BY <1>2 DEF S
<1>6. Max(S) \in 0..n
  BY <1>1, <1>2
<1> QED
  BY <1>2, <1>3, <1>4, <1>5, <1>6 DEF IsLast, S

Speaks(o) == {i \in DOMAIN o.statuses : ~o.statuses[i].ready /\ o.statuses[i].reason # ""}
Troubles(o) == {i \in DOMAIN o.inits : o.inits[i] \notin {"", "Completed"}}

LEMMA PodParts ==
    ASSUME NEW o \in PodKind
    PROVE  /\ o.statuses \in Containers /\ o.inits \in Seq(STRING) /\ o.deleting \in BOOLEAN
           /\ o.phase \in {"Pending", "Running", "Succeeded", "Failed", "Unknown"}
           /\ o.containers \in Nat
           /\ Len(o.statuses) \in Nat /\ DOMAIN o.statuses = 1..Len(o.statuses)
           /\ Len(o.inits) \in Nat /\ DOMAIN o.inits = 1..Len(o.inits)
           /\ \A i \in DOMAIN o.statuses : /\ o.statuses[i].ready \in BOOLEAN
                                          /\ o.statuses[i].reason # "Succeeded"
<1>1. /\ o.statuses \in Containers /\ o.inits \in Seq(STRING) /\ o.deleting \in BOOLEAN
      /\ o.phase \in {"Pending", "Running", "Succeeded", "Failed", "Unknown"}
      /\ o.containers \in Nat
  BY DEF PodKind
<1>2. PICK s, n : s = o.statuses /\ n = o.inits
  OBVIOUS
<1>3. /\ Len(s) \in Nat /\ DOMAIN s = 1..Len(s)
      /\ \A i \in DOMAIN s : s[i].ready \in BOOLEAN /\ s[i].reason # "Succeeded"
  <2> DEFINE T == [ready : BOOLEAN, reason : STRING \ {"Succeeded"}]
  <2>1. s \in Seq(T)
    BY <1>1, <1>2 DEF Containers
  <2>2. \A c \in T : c.ready \in BOOLEAN /\ c.reason # "Succeeded"
    OBVIOUS
  <2> HIDE DEF T
  <2>3. Len(s) \in Nat /\ DOMAIN s = 1..Len(s) /\ \A i \in DOMAIN s : s[i] \in T
    BY <2>1
  <2> QED
    BY <2>2, <2>3
<1>4. Len(n) \in Nat /\ DOMAIN n = 1..Len(n)
  BY <1>1, <1>2
<1> QED
  BY <1>1, <1>2, <1>3, <1>4

LEMMA PodStatusIs ==
    ASSUME NEW o \in PodKind
    PROVE  \E main, init :
              /\ IsLast(main, Speaks(o)) /\ IsLast(init, Troubles(o))
              /\ PodStatus(o) = IF o.deleting THEN "Terminating"
                                ELSE IF init # 0 THEN InitState(o.inits[init])
                                ELSE IF main # 0 THEN o.statuses[main].reason
                                ELSE o.phase
<1> DEFINE main == Max({0} \cup Speaks(o))
           init == Max({0} \cup Troubles(o))
<1>1. Speaks(o) \in SUBSET (1..Len(o.statuses)) /\ Len(o.statuses) \in Nat
  BY PodParts DEF Speaks
<1>2. Troubles(o) \in SUBSET (1..Len(o.inits)) /\ Len(o.inits) \in Nat
  BY PodParts DEF Troubles
<1>3. IsLast(main, Speaks(o)) /\ IsLast(init, Troubles(o))
  BY <1>1, <1>2, LastIs
<1>4. PodStatus(o) = IF o.deleting THEN "Terminating"
                     ELSE IF init # 0 THEN InitState(o.inits[init])
                     ELSE IF main # 0 THEN o.statuses[main].reason
                     ELSE o.phase
  BY DEF PodStatus, LastOf, Speaks, Troubles
<1> QED
  BY <1>3, <1>4

Standing(o) == {i \in DOMAIN o.statuses : o.statuses[i].ready}

\* All are ready when as many are ready as there are.
LEMMA AllReady ==
    ASSUME NEW o \in PodKind
    PROVE  /\ Cardinality(Standing(o)) \in Nat
           /\ Cardinality(Standing(o)) <= Len(o.statuses)
           /\ Cardinality(Standing(o)) >= Len(o.statuses) => Ready(o)
<1> DEFINE R == Standing(o)
           n == Len(o.statuses)
<1>1. n \in Nat /\ DOMAIN o.statuses = 1..n
  BY PodParts
<1>2. R \in SUBSET (1..n)
  BY <1>1 DEF Standing
<1> HIDE DEF n
<1>3. IsFiniteSet(1..n) /\ Cardinality(1..n) = n
  <2>1. IsFiniteSet(1..n) /\ Cardinality(1..n) = (IF 1 > n THEN 0 ELSE n - 1 + 1)
    BY <1>1, FS_Interval
  <2> QED
    BY <1>1, <2>1
<1> HIDE DEF R
<1>4. Cardinality(R) \in Nat /\ Cardinality(R) <= n /\ (Cardinality(R) = n => R = 1..n)
  <2>1. /\ IsFiniteSet(R) /\ Cardinality(R) <= Cardinality(1..n)
        /\ (Cardinality(1..n) = Cardinality(R) => R = 1..n)
    BY <1>2, <1>3, FS_Subset
  <2>2. Cardinality(R) \in Nat
    BY <2>1, FS_CardinalityType
  <2> QED
    BY <1>3, <2>1, <2>2
<1>5. R = 1..n => Ready(o)
  BY <1>1 DEF R, Standing, Ready
<1>6. Cardinality(R) >= n => Ready(o)
  BY <1>1, <1>4, <1>5
<1> QED
  BY <1>4, <1>6 DEF R, n

Quiet(r) == r.tone = ""

\* What is assumed of a pod besides the kinds of its fields.
WellFormed(o) ==
    /\ o.containers > 0 => Len(o.statuses) <= o.containers
    /\ \A i \in DOMAIN o.inits : InitState(o.inits[i]) \notin {"Running", "Succeeded", "Completed"}

\* A quiet pod is well, or it says that it has completed.
LEMMA QuietPod ==
    ASSUME NEW o \in PodKind, WellFormed(o), Quiet(PodRow(o))
    PROVE  PodHealthy(o) \/ (PodRow(o).state = "Completed" /\ CompletedSeen(o))
<1> DEFINE ready == Cardinality(Standing(o))
           total == IF o.containers = 0 THEN Len(o.statuses) ELSE o.containers
           status == PodStatus(o)
<1>1. status \in {"Succeeded", "Completed"} \/ (status = "Running" /\ ~(ready < total))
  <2>1. PodRow(o).tone = IF (status # "Running" \/ ready < total) /\ status \notin {"Succeeded", "Completed"}
                         THEN "warn" ELSE ""
    BY DEF PodRow, Row, Count, Standing
  <2>2. PodRow(o).tone = ""
    BY DEF Quiet
  <2> QED
    BY <2>1, <2>2
<1>2. PICK main, init : /\ IsLast(main, Speaks(o)) /\ IsLast(init, Troubles(o))
                        /\ status = IF o.deleting THEN "Terminating"
                                    ELSE IF init # 0 THEN InitState(o.inits[init])
                                    ELSE IF main # 0 THEN o.statuses[main].reason
                                    ELSE o.phase
  BY PodStatusIs
<1>3. status \in {"Running", "Succeeded", "Completed"} /\ PodRow(o).state = status
  BY <1>1 DEF PodRow, Row
<1> HIDE DEF status
<1>4. ~o.deleting
  BY <1>2, <1>3
<1>5. init = 0
  <2> SUFFICES ASSUME init # 0 PROVE FALSE
    OBVIOUS
  <2>1. init \in DOMAIN o.inits
    BY <1>2 DEF IsLast, Troubles
  <2>2. status = InitState(o.inits[init])
    BY <1>2, <1>4
  <2>3. InitState(o.inits[init]) \notin {"Running", "Succeeded", "Completed"}
    BY <2>1 DEF WellFormed
  <2> QED
    BY <1>3, <2>2, <2>3
<1>6. ~InitTrouble(o)
  <2>1. Troubles(o) = {}
    BY <1>2, <1>5 DEF IsLast
  <2> QED
    BY <2>1 DEF InitTrouble, Troubles
<1>7. status = IF main # 0 THEN o.statuses[main].reason ELSE o.phase
  BY <1>2, <1>4, <1>5
<1>8. ~(ready < total) => Ready(o) /\ Len(o.statuses) >= o.containers
  <2> SUFFICES ASSUME ~(ready < total) PROVE Ready(o) /\ Len(o.statuses) >= o.containers
    OBVIOUS
  <2>1. PICK a, c : a = Len(o.statuses) /\ c = o.containers
    OBVIOUS
  <2>2. a \in Nat /\ c \in Nat /\ (c > 0 => a <= c)
    BY <2>1, PodParts DEF WellFormed
  <2>3. ready \in Nat /\ ready <= a /\ (ready >= a => Ready(o))
    BY <2>1, AllReady
  <2>6. total = IF c = 0 THEN a ELSE c
    BY <2>1
  <2> HIDE DEF ready, total
  <2>5. ready >= a /\ a >= c
    BY <2>2, <2>3, <2>6
  <2> QED
    BY <2>1, <2>3, <2>5
<1> HIDE DEF ready, total
<1>9. CASE main = 0
  <2>1. status = o.phase
    BY <1>7, <1>9
  <2>2. \A i \in Waiting(o) : o.statuses[i].reason = ""
    <3>1. Speaks(o) = {}
      BY <1>2, <1>9 DEF IsLast
    <3> QED
      BY <3>1 DEF Speaks, Waiting
  <2>3. o.phase \in {"Pending", "Running", "Succeeded", "Failed", "Unknown"}
    BY PodParts
  <2>4. o.phase = "Succeeded" \/ (o.phase = "Running" /\ ~(ready < total))
    BY <1>1, <2>1, <2>3
  <2> QED
    BY <1>4, <1>6, <1>8, <2>2, <2>4 DEF PodHealthy
<1>10. CASE main # 0
  <2>1. main \in Speaks(o) /\ \A w \in Speaks(o) : w <= main
    BY <1>2, <1>10 DEF IsLast
  <2>2. /\ status = o.statuses[main].reason /\ main \in Waiting(o) /\ main \in DOMAIN o.statuses
        /\ ~o.statuses[main].ready
    BY <1>7, <1>10, <2>1 DEF Speaks, Waiting
  <2>3. status # "Succeeded"
    BY <2>2, PodParts
  <2>4. ~Ready(o)
    BY <2>2 DEF Ready
  <2>5. o.statuses[main].reason = "Completed"
    BY <1>1, <1>8, <2>2, <2>3, <2>4
  <2> QED
    BY <1>3, <1>4, <1>6, <2>2, <2>5 DEF CompletedSeen
<1> QED
  BY <1>9, <1>10

LEMMA QuietRollout ==
    ASSUME NEW o, NEW ready, Quiet(Rollout(o, ready))
    PROVE  ~(o.observed < o.generation \/ ready < o.desired \/ o.updated < o.desired)
<1>1. \/ ~(o.observed < o.generation \/ ready < o.desired \/ o.updated < o.desired)
      \/ Rollout(o, ready) = Row("Progressing", "warn")
  BY DEF Rollout
<1>2. ~Quiet(Row("Progressing", "warn"))
  BY DEF Row, Quiet
<1> QED
  BY <1>1, <1>2

\* What a workload's fields are compared with.
Numbers(o) ==
    /\ o.generation \in Int /\ o.observed \in Int /\ o.desired \in Int
    /\ o.ready \in Int /\ o.updated \in Int /\ o.available \in Int

LEMMA WorkloadParts == ASSUME NEW o \in WorkloadKind PROVE Numbers(o)
BY DEF WorkloadKind, Numbers

\* What Healthy asks of a workload.
Rolled(o) ==
    /\ o.observed >= o.generation
    /\ o.ready >= o.desired /\ o.updated >= o.desired
    /\ o.kind \in {"Deployment", "DaemonSet"} => o.available >= o.desired
    /\ o.kind = "DaemonSet" \/ o.failing = ""

LEMMA QuietWorkload ==
    ASSUME NEW o, Numbers(o), o.kind \in {"Deployment", "StatefulSet"}, Quiet(WorkloadRow(o))
    PROVE  Rolled(o)
<1> DEFINE late == o.kind = "Deployment" /\ o.available < o.desired
<1>1. WorkloadRow(o) = IF o.failing # "" THEN Row(o.failing, "bad")
                       ELSE IF late THEN Row("Progressing", "warn") ELSE Rollout(o, o.ready)
  BY DEF WorkloadRow
<1>2. ~Quiet(Row(o.failing, "bad")) /\ ~Quiet(Row("Progressing", "warn"))
  BY DEF Row, Quiet
<1> HIDE DEF late
<1>3. o.failing = "" /\ ~late /\ Quiet(Rollout(o, o.ready))
  BY <1>1, <1>2
<1>4. ~(o.observed < o.generation \/ o.ready < o.desired \/ o.updated < o.desired)
  BY <1>3, QuietRollout
<1>5. o.kind = "Deployment" => o.available >= o.desired
  <2>1. PICK a, d : a = o.available /\ d = o.desired
    OBVIOUS
  <2>2. a \in Int /\ d \in Int
    BY <2>1 DEF Numbers
  <2>3. a < d \/ a >= d
    BY <2>2
  <2>4. ~(o.kind = "Deployment" /\ a < d)
    BY <1>3, <2>1 DEF late
  <2> QED
    BY <2>1, <2>3, <2>4
<1>6. o.observed >= o.generation /\ o.ready >= o.desired /\ o.updated >= o.desired
  BY <1>4 DEF Numbers
<1> QED
  BY <1>3, <1>5, <1>6 DEF Rolled

LEMMA QuietDaemon ==
    ASSUME NEW o, Numbers(o), o.kind = "DaemonSet", Quiet(DaemonRow(o))
    PROVE  Rolled(o)
<1>1. PICK least : /\ least = Min({o.ready, o.available})
                   /\ least <= o.ready /\ least <= o.available /\ least \in Int
  <2>1. PICK r, a : r = o.ready /\ a = o.available
    OBVIOUS
  <2>2. r \in Int /\ a \in Int
    BY <2>1 DEF Numbers
  <2>3. PICK x : x \in {r, a} /\ \A y \in {r, a} : x <= y
    BY <2>2
  <2>4. Min({r, a}) \in {r, a} /\ \A y \in {r, a} : Min({r, a}) <= y
    BY <2>3 DEF Min
  <2>5. Min({r, a}) <= r /\ Min({r, a}) <= a /\ Min({r, a}) \in Int
    BY <2>2, <2>4
  <2> QED
    BY <2>1, <2>5
<1>2. ~(o.observed < o.generation \/ least < o.desired \/ o.updated < o.desired)
  BY <1>1, QuietRollout DEF DaemonRow
<1>3. /\ o.observed >= o.generation /\ o.ready >= o.desired /\ o.updated >= o.desired
      /\ o.available >= o.desired
  BY <1>1, <1>2 DEF Numbers
<1> QED
  BY <1>3 DEF Rolled

LEMMA QuietNode ==
    ASSUME NEW o, Quiet(NodeRow(o)), o.isReady \in BOOLEAN, o.cordoned \in BOOLEAN
    PROVE  o.isReady /\ o.pressure = "" /\ ~o.cordoned
<1> DEFINE ready == IF o.isReady THEN Row("Ready", "") ELSE Row("NotReady", "bad")
           pressed == IF o.pressure = "" THEN ready ELSE Row(o.pressure, "warn")
           state == pressed.state \o "/Cordoned"
<1>1. NodeRow(o) = IF o.cordoned THEN Row(state, "warn") ELSE pressed
  BY DEF NodeRow
<1>2. /\ ~Quiet(Row(state, "warn")) /\ ~Quiet(Row(o.pressure, "warn"))
      /\ ~Quiet(Row("NotReady", "bad"))
  BY DEF Row, Quiet
<1> HIDE DEF state
<1>3. ~o.cordoned /\ Quiet(pressed)
  BY <1>1, <1>2
<1>4. o.pressure = "" /\ Quiet(ready)
  BY <1>2, <1>3
<1>5. o.isReady
  BY <1>2, <1>4
<1> QED
  BY <1>3, <1>4, <1>5

LEMMA RecordOfPod == ASSUME NEW o, o.kind = "Pod" PROVE record(o) = PodRow(o)
BY DEF record

LEMMA RecordOfWorkload ==
    ASSUME NEW o, o.kind \in {"Deployment", "StatefulSet"} PROVE record(o) = WorkloadRow(o)
BY DEF record

LEMMA RecordOfDaemon == ASSUME NEW o, o.kind = "DaemonSet" PROVE record(o) = DaemonRow(o)
BY DEF record

LEMMA RecordOfJob == ASSUME NEW o, o.kind = "Job" PROVE record(o) = JobRow(o)
BY DEF record

LEMMA RecordOfCron == ASSUME NEW o, o.kind = "CronJob" PROVE record(o) = CronRow(o)
BY DEF record

LEMMA RecordOfClaim ==
    ASSUME NEW o, o.kind = "PersistentVolumeClaim" PROVE record(o) = ClaimRow(o)
BY DEF record

LEMMA RecordOfEvent == ASSUME NEW o, o.kind = "Event" PROVE record(o) = EventRow(o)
BY DEF record

LEMMA RecordOfNode == ASSUME NEW o, o.kind = "Node" PROVE record(o) = NodeRow(o)
BY DEF record

LEMMA RecordOfMetrics == ASSUME NEW o, o.kind = "PodMetrics" PROVE record(o) = loadPodMetrics(o)
BY DEF record

LEMMA HealthyRolled ==
    ASSUME NEW o, o.kind \in {"Deployment", "StatefulSet", "DaemonSet"}, Rolled(o)
    PROVE  Healthy(o)
BY DEF Healthy, Rolled

LEMMA QuietRecord ==
    ASSUME NEW o \in Objects, o.kind # "PodMetrics", Quiet(record(o))
    PROVE  \/ Healthy(o)
           \/ o.kind = "Pod" /\ record(o).state = "Completed" /\ CompletedSeen(o)
<1>1. o \in PodKind \/ o \in WorkloadKind \/ o \in OtherKind \/ o \in MetricsKind
  BY StatusAssumption
<1>2. CASE o \in PodKind
  <2>1. o.kind = "Pod"
    BY <1>2 DEF PodKind
  <2>2. WellFormed(o)
    BY <2>1, StatusAssumption DEF WellFormed
  <2>3. Quiet(PodRow(o))
    BY <2>1, RecordOfPod
  <2>4. PodHealthy(o) \/ (PodRow(o).state = "Completed" /\ CompletedSeen(o))
    BY <1>2, <2>2, <2>3, QuietPod
  <2>5. PodHealthy(o) => Healthy(o)
    BY <2>1 DEF Healthy
  <2> QED
    BY <2>1, <2>4, <2>5, RecordOfPod
<1>3. CASE o \in WorkloadKind
  <2>1. o.kind \in {"Deployment", "StatefulSet", "DaemonSet"}
    BY <1>3 DEF WorkloadKind
  <2>2. Numbers(o)
    BY <1>3, WorkloadParts
  <2>3. CASE o.kind = "DaemonSet"
    BY <2>1, <2>2, <2>3, RecordOfDaemon, QuietDaemon, HealthyRolled
  <2>4. CASE o.kind # "DaemonSet"
    <3>1. o.kind \in {"Deployment", "StatefulSet"}
      BY <2>1, <2>4
    <3> QED
      BY <2>1, <2>2, <3>1, RecordOfWorkload, QuietWorkload, HealthyRolled
  <2> QED
    BY <2>3, <2>4
<1>4. CASE o \in OtherKind
  <2>1. CASE o \in [kind : {"Job"}, conditions : Seq({"Complete", "Failed"})]
    <3>1. o.kind = "Job"
      BY <2>1
    <3>2. Quiet(JobRow(o))
      BY <3>1, RecordOfJob
    <3>3. o.conditions = <<>> \/ Last(o.conditions) # "Failed"
      BY <3>2 DEF JobRow, Row, Quiet
    <3> QED
      BY <3>1, <3>3 DEF Healthy
  <2>2. CASE o \in [kind : {"CronJob"}, suspended : BOOLEAN]
    <3>1. o.kind = "CronJob"
      BY <2>2
    <3>2. Quiet(CronRow(o))
      BY <3>1, RecordOfCron
    <3>3. ~o.suspended
      BY <3>2 DEF CronRow, Row, Quiet
    <3> QED
      BY <3>1, <3>3 DEF Healthy
  <2>3. CASE o \in [kind : {"PersistentVolumeClaim"}, phase : STRING]
    <3>1. o.kind = "PersistentVolumeClaim"
      BY <2>3
    <3>2. Quiet(ClaimRow(o))
      BY <3>1, RecordOfClaim
    <3>3. o.phase = "Bound"
      BY <3>2 DEF ClaimRow, Row, Quiet
    <3> QED
      BY <3>1, <3>3 DEF Healthy
  <2>4. CASE o \in [kind : {"Event"}, type : STRING]
    <3>1. o.kind = "Event"
      BY <2>4
    <3>2. Quiet(EventRow(o))
      BY <3>1, RecordOfEvent
    <3>3. o.type # "Warning"
      BY <3>2 DEF EventRow, Row, Quiet
    <3> QED
      BY <3>1, <3>3 DEF Healthy
  <2>5. CASE o \in [kind : {"Node"}, isReady : BOOLEAN, pressure : STRING, cordoned : BOOLEAN]
    <3>1. o.kind = "Node" /\ o.isReady \in BOOLEAN /\ o.cordoned \in BOOLEAN
      BY <2>5
    <3>2. Quiet(NodeRow(o))
      BY <3>1, RecordOfNode
    <3>3. o.isReady /\ o.pressure = "" /\ ~o.cordoned
      BY <3>1, <3>2, QuietNode
    <3> QED
      BY <3>1, <3>3 DEF Healthy
  <2> QED
    BY <1>4, <2>1, <2>2, <2>3, <2>4, <2>5 DEF OtherKind
<1>5. CASE o \in MetricsKind
  BY <1>5 DEF MetricsKind
<1> QED
  BY <1>1, <1>2, <1>3, <1>4, <1>5

-----------------------------------------------------------------------------
(* Sums.                                                                   *)

\* f is the sums of the first elements of s, up to the k-th.
Sums(f, s, k) ==
    /\ f[0] = 0
    /\ \A n \in 1..k : f[n] = f[n - 1] + s[n]

LEMMA SumsExist ==
    ASSUME NEW m \in Nat, NEW s, \A i \in 1..m : s[i] \in Nat
    PROVE  \E f : f \in [0..m -> Nat] /\ Sums(f, s, m)
<1> DEFINE Has(k) == \E f : f \in [0..k -> Nat] /\ Sums(f, s, k)
           Bad == {k \in 0..m : ~Has(k)}
<1> HIDE DEF Has
<1>1. SUFFICES ASSUME Bad # {} PROVE FALSE
  <2>1. m \in 0..m
    OBVIOUS
  <2>2. Has(m)
    BY <2>1
  <2> QED
    BY <2>2 DEF Has
<1>2. PICK k \in Bad : \A i \in Bad : k <= i
  <2>1. Bad \in SUBSET Nat
    OBVIOUS
  <2> QED
    BY <1>1, <2>1, LeastExists
<1>3. k \in 0..m /\ k \in Nat /\ ~Has(k)
  BY <1>2
<1>4. k # 0
  <2> SUFFICES ASSUME k = 0 PROVE FALSE
    OBVIOUS
  <2> DEFINE f == [n \in 0..0 |-> 0]
  <2>1. f \in [0..0 -> Nat] /\ f[0] = 0 /\ \A n \in 1..0 : FALSE
    OBVIOUS
  <2> HIDE DEF f
  <2>2. Sums(f, s, 0)
    BY <2>1 DEF Sums
  <2> QED
    BY <1>3, <2>1, <2>2 DEF Has
<1>5. k - 1 \in 0..m /\ k - 1 \in Nat /\ ~(k <= k - 1) /\ k \in 1..m
  BY <1>3, <1>4
<1>6. Has(k - 1)
  BY <1>2, <1>5
<1>7. PICK d : d \in [0..k - 1 -> Nat] /\ Sums(d, s, k - 1)
  BY <1>6 DEF Has
<1>8. \A n \in 0..k - 1 : d[n] \in Nat
  BY <1>7
<1> DEFINE x == d[k - 1] + s[k]
           g == [n \in 0..k |-> IF n = k THEN x ELSE d[n]]
<1>9. x \in Nat
  <2>1. k - 1 \in 0..k - 1
    BY <1>5
  <2> QED
    BY <1>5, <1>8, <2>1
<1> HIDE DEF x
<1>10. \A n \in 0..k : n = k \/ n \in 0..k - 1
  BY <1>3
<1>11. g \in [0..k -> Nat]
  BY <1>8, <1>9, <1>10
<1>12. (\A n \in 0..k - 1 : g[n] = d[n]) /\ g[k] = x
  <2>1. (\A n \in 0..k - 1 : n \in 0..k /\ n # k) /\ k \in 0..k
    BY <1>3
  <2> QED
    BY <2>1
<1> HIDE DEF g
<1>13. Sums(g, s, k)
  <2>1. g[0] = 0
    <3>1. 0 \in 0..k - 1
      BY <1>5
    <3> QED
      BY <1>7, <1>12, <3>1 DEF Sums
  <2>2. ASSUME NEW n \in 1..k PROVE g[n] = g[n - 1] + s[n]
    <3>1. n - 1 \in 0..k - 1
      BY <1>3
    <3>2. CASE n = k
      BY <1>12, <3>1, <3>2 DEF x
    <3>3. CASE n # k
      <4>1. n \in 0..k - 1 /\ n \in 1..k - 1
        BY <1>3, <3>3
      <4>2. d[n] = d[n - 1] + s[n]
        BY <1>7, <4>1 DEF Sums
      <4> QED
        BY <1>12, <3>1, <4>1, <4>2
    <3> QED
      BY <3>2, <3>3
  <2> QED
    BY <2>1, <2>2 DEF Sums
<1>14. Has(k)
  BY <1>11, <1>13 DEF Has
<1> QED
  BY <1>3, <1>14

LEMMA SumsAgree ==
    ASSUME NEW m \in Nat, NEW s, NEW d, NEW e, Sums(d, s, m), Sums(e, s, m)
    PROVE  \A n \in 0..m : d[n] = e[n]
<1> DEFINE Bad == {i \in 0..m : d[i] # e[i]}
<1>1. SUFFICES ASSUME Bad # {} PROVE FALSE
  OBVIOUS
<1>2. PICK i \in Bad : \A j \in Bad : i <= j
  <2>1. Bad \in SUBSET Nat
    OBVIOUS
  <2> QED
    BY <1>1, <2>1, LeastExists
<1>3. i \in 0..m /\ d[i] # e[i] /\ i # 0
  BY <1>2 DEF Sums
<1>4. i \in 1..m /\ i - 1 \in 0..m /\ ~(i <= i - 1)
  BY <1>3
<1>5. d[i - 1] = e[i - 1]
  BY <1>2, <1>4
<1>6. d[i] = d[i - 1] + s[i] /\ e[i] = e[i - 1] + s[i]
  BY <1>4 DEF Sums
<1> QED
  BY <1>3, <1>5, <1>6

LEMMA SumIs ==
    ASSUME NEW s \in Seq(Nat)
    PROVE  \E f : /\ Sums(f, s, Len(s)) /\ SumOf(s) = f[Len(s)]
                  /\ \A n \in 0..Len(s) : f[n] \in Nat
<1> DEFINE m == Len(s)
           F(f) == [n \in 0..m |-> IF n = 0 THEN 0 ELSE f[n - 1] + s[n]]
           c == CHOOSE f : f = F(f)
<1>1. SumOf(s) = c[m]
  BY DEF SumOf
<1>2. m \in Nat /\ \A i \in 1..m : s[i] \in Nat
  OBVIOUS
<1> HIDE DEF m
<1>3. PICK d : d \in [0..m -> Nat] /\ Sums(d, s, m)
  BY <1>2, SumsExist
<1>4. \A n \in 0..m : d[n] \in Nat
  BY <1>3
<1>5. d = F(d)
  <2>1. \A n \in 0..m : d[n] = IF n = 0 THEN 0 ELSE d[n - 1] + s[n]
    <3>1. \A n \in 0..m : n = 0 \/ n \in 1..m
      BY <1>2
    <3>2. \A n \in 1..m : n # 0
      OBVIOUS
    <3> QED
      BY <1>3, <3>1, <3>2 DEF Sums
  <2>2. d = [n \in 0..m |-> d[n]]
    BY <1>3
  <2> QED
    BY <2>1, <2>2
<1>6. c = F(c)
  BY <1>5
<1> HIDE DEF c
<1>7. Sums(c, s, m)
  <2> DEFINE h == F(c)
  <2>1. h[0] = 0 /\ \A n \in 1..m : h[n] = c[n - 1] + s[n]
    BY <1>2
  <2>2. c = h
    BY <1>6
  <2> HIDE DEF h
  <2> QED
    BY <2>1, <2>2 DEF Sums
<1>8. \A n \in 0..m : d[n] = c[n]
  BY <1>2, <1>3, <1>7, SumsAgree
<1>9. \A n \in 0..m : c[n] \in Nat
  BY <1>4, <1>8
<1> QED
  BY <1>1, <1>7, <1>9 DEF m

\* A sum is at least each of its terms.
LEMMA SumBounds ==
    ASSUME NEW s \in Seq(Nat)
    PROVE  /\ SumOf(s) \in Nat /\ Len(s) \in Nat
           /\ \A i \in 1..Len(s) : SumOf(s) >= s[i]
           /\ SumOf(s) # 0 => Len(s) # 0
<1> DEFINE m == Len(s)
<1>1. m \in Nat /\ \A i \in 1..m : s[i] \in Nat
  OBVIOUS
<1>2. PICK f : Sums(f, s, m) /\ SumOf(s) = f[m] /\ \A n \in 0..m : f[n] \in Nat
  BY SumIs
<1> HIDE DEF m
<1>3. SumOf(s) \in Nat /\ (SumOf(s) # 0 => m # 0)
  <2>1. m \in 0..m
    BY <1>1
  <2> QED
    BY <1>2, <2>1 DEF Sums
<1>4. ASSUME NEW i \in 1..m PROVE SumOf(s) >= s[i]
  <2> DEFINE Bad == {n \in i..m : ~(f[n] >= s[i])}
  <2>1. Bad = {}
    <3> SUFFICES ASSUME Bad # {} PROVE FALSE
      OBVIOUS
    <3>1. PICK n \in Bad : \A j \in Bad : n <= j
      <4>1. Bad \in SUBSET Nat
        BY <1>1
      <4> QED
        BY <4>1, LeastExists
    <3>2. /\ n \in 1..m /\ n \in 0..m /\ n - 1 \in 0..m /\ n >= i /\ ~(n <= n - 1) /\ n \in Int
          /\ ~(f[n] >= s[i])
      BY <1>1, <3>1
    <3>3. f[n] = f[n - 1] + s[n] /\ f[n] \in Nat /\ f[n - 1] \in Nat /\ s[n] \in Nat /\ s[i] \in Nat
      BY <1>1, <1>2, <3>2 DEF Sums
    <3>4. CASE n = i
      BY <3>2, <3>3, <3>4
    <3>5. CASE n # i
      <4>1. n - 1 \in i..m
        BY <1>1, <3>2, <3>5
      <4>2. n - 1 \notin Bad
        BY <3>1, <3>2
      <4>3. f[n - 1] >= s[i]
        BY <4>1, <4>2
      <4> HIDE DEF Bad
      <4> QED
        BY <3>2, <3>3, <4>3
    <3> QED
      BY <3>4, <3>5
  <2>2. m \in i..m
    BY <1>1
  <2>3. f[m] >= s[i]
    BY <2>1, <2>2
  <2> QED
    BY <1>2, <2>3
<1> QED
  BY <1>1, <1>3, <1>4 DEF m

\* Sums of as many terms, none of them greater than its like.
LEMMA SumGrows ==
    ASSUME NEW s \in Seq(Nat), NEW t \in Seq(Nat), Len(s) = Len(t),
           \A i \in 1..Len(s) : s[i] <= t[i]
    PROVE  SumOf(s) <= SumOf(t)
<1> DEFINE m == Len(s)
<1>1. m \in Nat /\ (\A i \in 1..m : s[i] \in Nat) /\ (\A i \in 1..m : t[i] \in Nat)
  OBVIOUS
<1>2. PICK f : Sums(f, s, m) /\ SumOf(s) = f[m] /\ \A n \in 0..m : f[n] \in Nat
  BY SumIs
<1>3. PICK g : Sums(g, t, m) /\ SumOf(t) = g[m] /\ \A n \in 0..m : g[n] \in Nat
  BY SumIs
<1>4. \A i \in 1..m : s[i] <= t[i]
  OBVIOUS
<1> HIDE DEF m
<1> DEFINE Bad == {n \in 0..m : ~(f[n] <= g[n])}
<1>5. Bad = {}
  <2> SUFFICES ASSUME Bad # {} PROVE FALSE
    OBVIOUS
  <2>1. PICK n \in Bad : \A j \in Bad : n <= j
    <3>1. Bad \in SUBSET Nat
      OBVIOUS
    <3> QED
      BY <3>1, LeastExists
  <2>2. n \in 0..m /\ ~(f[n] <= g[n])
    BY <2>1
  <2>3. n # 0
    <3>1. f[0] = 0 /\ g[0] = 0
      BY <1>2, <1>3 DEF Sums
    <3> QED
      BY <2>2, <3>1
  <2>4. n \in 1..m /\ n - 1 \in 0..m /\ ~(n <= n - 1)
    BY <1>1, <2>2, <2>3
  <2>5. f[n - 1] <= g[n - 1]
    BY <2>1, <2>4
  <2>6. f[n] = f[n - 1] + s[n] /\ g[n] = g[n - 1] + t[n]
    BY <1>2, <1>3, <2>4 DEF Sums
  <2>7. /\ f[n - 1] \in Nat /\ g[n - 1] \in Nat /\ s[n] \in Nat /\ t[n] \in Nat
        /\ s[n] <= t[n]
    BY <1>1, <1>2, <1>3, <1>4, <2>4
  <2> HIDE DEF Bad
  <2> QED
    BY <2>2, <2>5, <2>6, <2>7
<1>6. m \in 0..m
  BY <1>1
<1>7. f[m] <= g[m]
  BY <1>5, <1>6
<1> QED
  BY <1>2, <1>3, <1>7

-----------------------------------------------------------------------------
(* The gauges.                                                             *)

\* What GaugesAreFair says of an object and its gauge.
Fair(o, g) ==
    g.used # Missing =>
        /\ g.used <= SumOf(o.usage)
        /\ "absent" \notin Range(o.answer) => g.used = SumOf(o.usage)
        /\ g.basis = "limit" /\ WithinLimits(o) => g.used <= g.limit

\* The usage of the containers that the answer lists.
Listed(o) == [i \in DOMAIN o.usage |-> IF o.answer[i] = "absent" THEN 0 ELSE o.usage[i]]

LEMMA ListedIsPart ==
    ASSUME NEW o, o.usage \in Seq(Nat)
    PROVE  /\ Listed(o) \in Seq(Nat) /\ Len(Listed(o)) = Len(o.usage)
           /\ \A i \in 1..Len(o.usage) :
                 Listed(o)[i] = IF o.answer[i] = "absent" THEN 0 ELSE o.usage[i]
<1> DEFINE n == Len(o.usage)
           V(i) == IF o.answer[i] = "absent" THEN 0 ELSE o.usage[i]
<1>1. n \in Nat /\ DOMAIN o.usage = 1..n /\ \A i \in 1..n : o.usage[i] \in Nat
  OBVIOUS
<1>2. Listed(o) = [i \in 1..n |-> V(i)]
  BY <1>1 DEF Listed
<1> HIDE DEF n
<1>3. \A i \in 1..n : V(i) \in Nat
  BY <1>1
<1> HIDE DEF V
<1>4. [i \in 1..n |-> V(i)] \in Seq(Nat) /\ Len([i \in 1..n |-> V(i)]) = n
  BY <1>1, <1>3
<1>5. \A i \in 1..n : Listed(o)[i] = V(i)
  BY <1>2
<1> QED
  BY <1>2, <1>4, <1>5 DEF n, V

\* What is shown is part of what is used, and all of it when all is listed.
LEMMA UsedIsPart ==
    ASSUME NEW o \in MetricsKind, Len(o.answer) = Len(o.usage), Used(o) # Missing
    PROVE  /\ Used(o) = SumOf(Listed(o)) /\ Used(o) <= SumOf(o.usage)
           /\ "absent" \notin Range(o.answer) => Used(o) = SumOf(o.usage)
<1>1. o.usage \in Seq(Nat) /\ o.answer \in Seq({"listed", "partial", "absent"})
  BY DEF MetricsKind
<1>2. PICK u, a, w : u = o.usage /\ a = o.answer /\ w = Listed(o)
  OBVIOUS
<1>3. /\ u \in Seq(Nat) /\ w \in Seq(Nat) /\ Len(w) = Len(u) /\ Len(a) = Len(u)
      /\ DOMAIN u = 1..Len(u) /\ DOMAIN w = 1..Len(u) /\ DOMAIN a = 1..Len(u)
      /\ \A i \in 1..Len(u) : u[i] \in Nat /\ w[i] = IF a[i] = "absent" THEN 0 ELSE u[i]
  <2>1. /\ w \in Seq(Nat) /\ Len(w) = Len(u)
        /\ \A i \in 1..Len(u) : w[i] = IF a[i] = "absent" THEN 0 ELSE u[i]
    BY <1>1, <1>2, ListedIsPart
  <2>2. u \in Seq(Nat) /\ DOMAIN u = 1..Len(u) /\ \A i \in 1..Len(u) : u[i] \in Nat
    BY <1>1, <1>2
  <2>3. DOMAIN a = 1..Len(a) /\ Len(a) = Len(u)
    BY <1>1, <1>2
  <2> QED
    BY <2>1, <2>2, <2>3
<1>4. Used(o) = SumOf(w)
  BY <1>2 DEF Used, Listed
<1>5. SumOf(w) <= SumOf(u)
  <2>1. \A i \in 1..Len(w) : w[i] <= u[i]
    BY <1>3
  <2> QED
    BY <1>3, <2>1, SumGrows
<1>6. ASSUME "absent" \notin Range(a) PROVE w = u
  <2>1. \A i \in 1..Len(u) : a[i] # "absent"
    BY <1>3, <1>6 DEF Range
  <2>2. \A i \in 1..Len(u) : w[i] = u[i]
    BY <1>3, <2>1
  <2> QED
    BY <1>3, <2>2
<1> QED
  BY <1>2, <1>4, <1>5, <1>6

\* The limit of a gauge bounds the usage of a pod within its limits.
LEMMA LimitBounds ==
    ASSUME NEW o \in MetricsKind, Len(o.limits) = Len(o.usage), PodLimit(o) > 0, WithinLimits(o)
    PROVE  SumOf(o.usage) <= PodLimit(o)
<1>1. o.usage \in Seq(Nat) /\ o.limits \in Seq(Nat) /\ o.podLimit \in Nat
  BY DEF MetricsKind
<1>2. PICK u, s, p : u = o.usage /\ s = o.limits /\ p = o.podLimit
  OBVIOUS
<1>3. /\ u \in Seq(Nat) /\ s \in Seq(Nat) /\ p \in Nat /\ Len(s) = Len(u)
      /\ DOMAIN u = 1..Len(u) /\ DOMAIN s = 1..Len(u)
  BY <1>1, <1>2
<1>4. PodLimit(o) = IF p > 0 THEN p ELSE IF \E i \in DOMAIN s : s[i] <= 0 THEN 0 ELSE SumOf(s)
  BY <1>2 DEF PodLimit
<1>5. IF p > 0 THEN SumOf(u) <= p ELSE \A i \in DOMAIN u : s[i] > 0 => u[i] <= s[i]
  BY <1>2 DEF WithinLimits
<1>6. CASE p > 0
  BY <1>2, <1>4, <1>5, <1>6
<1>7. CASE ~(p > 0)
  <2>1. ~(\E i \in DOMAIN s : s[i] <= 0) /\ PodLimit(o) = SumOf(s)
    <3>1. PodLimit(o) = 0 => FALSE
      OBVIOUS
    <3> QED
      BY <1>4, <1>7, <3>1
  <2>2. \A i \in 1..Len(u) : s[i] \in Nat /\ s[i] > 0
    <3>1. \A i \in 1..Len(s) : s[i] \in Nat
      BY <1>3
    <3>2. \A i \in 1..Len(s) : ~(s[i] <= 0)
      BY <1>3, <2>1
    <3> QED
      BY <1>3, <3>1, <3>2
  <2>3. \A i \in 1..Len(u) : u[i] <= s[i]
    BY <1>3, <1>5, <1>7, <2>2
  <2>4. SumOf(u) <= SumOf(s)
    BY <1>3, <2>3, SumGrows
  <2> QED
    BY <1>2, <2>1, <2>4
<1> QED
  BY <1>6, <1>7

LEMMA GaugeFair ==
    ASSUME NEW o \in MetricsKind, Len(o.limits) = Len(o.usage), Len(o.answer) = Len(o.usage)
    PROVE  Fair(o, loadPodMetrics(o))
<1> DEFINE g == loadPodMetrics(o)
           limit == PodLimit(o)
<1>1. /\ g.used = Used(o)
      /\ g.limit = IF limit > 0 THEN limit ELSE o.capacity
      /\ g.basis = IF Used(o) # Missing /\ limit <= 0 /\ o.capacity <= 0
                   THEN "no capacity available"
                   ELSE IF limit > 0 THEN "limit" ELSE "node capacity"
  BY DEF loadPodMetrics
<1>2. g.basis = "limit" => limit > 0 /\ g.limit = limit
  BY <1>1
<1> HIDE DEF g
<1> SUFFICES ASSUME g.used # Missing
             PROVE  /\ g.used <= SumOf(o.usage)
                    /\ "absent" \notin Range(o.answer) => g.used = SumOf(o.usage)
                    /\ g.basis = "limit" /\ WithinLimits(o) => g.used <= g.limit
  BY DEF Fair, g
<1>3. /\ g.used = SumOf(Listed(o)) /\ g.used <= SumOf(o.usage)
      /\ "absent" \notin Range(o.answer) => g.used = SumOf(o.usage)
  BY <1>1, UsedIsPart
<1>4. ASSUME g.basis = "limit", WithinLimits(o) PROVE g.used <= g.limit
  <2>1. limit > 0 /\ g.limit = limit
    BY <1>2, <1>4
  <2>2. SumOf(o.usage) <= limit
    BY <1>4, <2>1, LimitBounds
  <2>3. SumOf(o.usage) \in Nat /\ SumOf(Listed(o)) \in Nat
    <3>1. o.usage \in Seq(Nat)
      BY DEF MetricsKind
    <3>2. Listed(o) \in Seq(Nat)
      BY <3>1, ListedIsPart
    <3> QED
      BY <3>1, <3>2, SumBounds
  <2>4. limit \in Int
    <3>1. o.limits \in Seq(Nat) /\ o.podLimit \in Nat
      BY DEF MetricsKind
    <3>2. SumOf(o.limits) \in Nat
      BY <3>1, SumBounds
    <3> QED
      BY <3>1, <3>2 DEF PodLimit
  <2> HIDE DEF limit
  <2> QED
    BY <1>3, <2>1, <2>2, <2>3, <2>4
<1> QED
  BY <1>3, <1>4

-----------------------------------------------------------------------------
(* A row is unread, or what its object gives.                              *)

StatusInv == object \in Objects /\ (row = Unread \/ row = record(object))

LEMMA StatusInitial == StatusInit => StatusInv
BY DEF StatusInit, StatusInv

LEMMA StatusSteps == StatusInv /\ [StatusNext]_statusVars => StatusInv'
<1> SUFFICES ASSUME StatusInv, [StatusNext]_statusVars PROVE StatusInv'
  OBVIOUS
<1>1. CASE decodeSnapshot
  <2>1. row' = record(object) /\ object' = object
    BY <1>1 DEF decodeSnapshot
  <2> QED
    BY <2>1 DEF StatusInv
<1>2. CASE UNCHANGED statusVars
  BY <1>2 DEF statusVars, StatusInv
<1> QED
  BY <1>1, <1>2 DEF StatusNext

LEMMA StatusHolds == StatusInv => QuietRowsAreHealthy /\ GaugesAreFair
<1> SUFFICES ASSUME StatusInv PROVE QuietRowsAreHealthy /\ GaugesAreFair
  OBVIOUS
<1>1. QuietRowsAreHealthy
  <2> SUFFICES ASSUME row # Unread, object.kind # "PodMetrics", row.tone = ""
               PROVE  \/ Healthy(object)
                      \/ /\ object.kind = "Pod" /\ row.state = "Completed"
                         /\ CompletedSeen(object)
    BY DEF QuietRowsAreHealthy
  <2>1. object \in Objects /\ row = record(object)
    BY DEF StatusInv
  <2>2. Quiet(record(object))
    BY <2>1 DEF Quiet
  <2> QED
    BY <2>1, <2>2, QuietRecord
<1>2. GaugesAreFair
  <2> SUFFICES ASSUME row # Unread, object.kind = "PodMetrics"
               PROVE  Fair(object, row)
    BY DEF GaugesAreFair, Fair
  <2>1. object \in Objects /\ row = loadPodMetrics(object)
    BY RecordOfMetrics DEF StatusInv
  <2>2. object \in MetricsKind
    <3>1. object \in PodKind => object.kind = "Pod"
      BY DEF PodKind
    <3>2. object \in WorkloadKind => object.kind \in {"Deployment", "StatefulSet", "DaemonSet"}
      BY DEF WorkloadKind
    <3>3. object \in OtherKind => object.kind \in {"Job", "CronJob", "PersistentVolumeClaim", "Event", "Node"}
      BY DEF OtherKind
    <3> QED
      BY <2>1, <3>1, <3>2, <3>3, StatusAssumption
  <2>3. Len(object.limits) = Len(object.usage) /\ Len(object.answer) = Len(object.usage)
    BY <2>1, StatusAssumption
  <2> QED
    BY <2>1, <2>2, <2>3, GaugeFair
<1> QED
  BY <1>1, <1>2

(* Whatever objects a list returns, a row without a tone is the row of an  *)
(* object that is well, or of a pod that says Completed and has a container *)
(* that has: object.record (src/src/kube.go) hides no unfinished rollout,  *)
(* no node under pressure and no other pod whose containers are not ready. *)
THEOREM QuietIsWell == StatusSpec => []QuietRowsAreHealthy
<1> QED
  BY StatusInitial, StatusSteps, StatusHolds, PTL DEF StatusSpec

(* Whatever the limits and the usage of the containers of a pod and        *)
(* whatever metrics.k8s.io leaves out, its gauge never shows more than the *)
(* pod uses, all of it when every container is listed, and never a pod     *)
(* within its limits above its limit (src/src/pod_metrics.go:              *)
(* loadPodMetrics; src/src/kube.go: object.record).                        *)
THEOREM GaugesNeverAlarm == StatusSpec => []GaugesAreFair
<1> QED
  BY StatusInitial, StatusSteps, StatusHolds, PTL DEF StatusSpec
=============================================================================
