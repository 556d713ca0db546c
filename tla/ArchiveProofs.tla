--------------------------- MODULE ArchiveProofs ----------------------------
(***************************************************************************)
(* The archive's safety properties, for every number of callers, every     *)
(* set of records and every size of the queue and of a batch.  The last    *)
(* part shows that the queue, the writer and the transactions implement    *)
(* DurableLog.                                                             *)
(***************************************************************************)
EXTENDS Archive, SequenceTheorems, WellFoundedInduction, TLAPS

-----------------------------------------------------------------------------
(* What the operators of Archive compute: the cursors one transaction      *)
(* leaves behind, and why a file written in two transactions is the file   *)
(* written in one.                                                         *)

\* A non-empty set of naturals with an upper bound has a largest member.
LEMMA MaxExists ==
    ASSUME NEW n \in Nat, NEW S \in SUBSET (0..n), S # {}
    PROVE  \E m \in S : \A x \in S : x <= m
<1> DEFINE T    == {n - x : x \in S}
           Less == {p \in Nat \X Nat : p[1] < p[2]}
<1>1. /\ T \subseteq Nat
      /\ T # {}
  <2>1. \A u \in T : u \in Nat
    OBVIOUS
  <2>2. PICK x \in S : TRUE
    OBVIOUS
  <2>3. n - x \in T
    OBVIOUS
  <2> QED
    BY <2>1, <2>3
<1>2. PICK t \in T : \A u \in T : ~ (<<u, t>> \in Less)
  <2>1. IsWellFoundedOn(Less, Nat)
    BY NatLessThanWellFounded DEF OpToRel
  <2> HIDE DEF T, Less
  <2> QED
    BY <1>1, <2>1, WFMin
<1>3. \A u \in T : t <= u
  <2> HIDE DEF T
  <2> SUFFICES ASSUME NEW u \in T PROVE t <= u
    OBVIOUS
  <2>1. t \in Nat /\ u \in Nat
    BY <1>1
  <2>2. u < t => <<u, t>> \in Less
    BY <2>1
  <2> QED
    BY <1>2, <2>1, <2>2
<1>4. PICK m \in S : t = n - m
  BY <1>2
<1>5. \A x \in S : x <= m
  <2> TAKE x \in S
  <2>1. n - x \in T
    OBVIOUS
  <2>2. t <= n - x
    BY <1>3, <2>1
  <2> QED
    BY <1>4, <2>2
<1> QED
  BY <1>5

\* A carrier is a position of the sequence, its cursor a legal one.
LEMMA CarriersType ==
    ASSUME NEW recs \in Seq(Records), NEW s \in Sources
    PROVE  /\ Carriers(recs, s) \in SUBSET (1..Len(recs))
           /\ \A i \in Carriers(recs, s) : recs[i].cursor \in 1..MaxCursor
BY RecordsAssumption DEF Carriers

\* LastCursor is the cursor of the last carrier.
LEMMA LastCursorSpec ==
    ASSUME NEW recs \in Seq(Records), NEW s \in Sources,
           NEW i \in Carriers(recs, s), \A j \in Carriers(recs, s) : j <= i
    PROVE  LastCursor(recs, s) = recs[i].cursor
<1> DEFINE last == CHOOSE k \in Carriers(recs, s) : \A j \in Carriers(recs, s) : j <= k
<1>1. /\ last \in Carriers(recs, s)
      /\ \A j \in Carriers(recs, s) : j <= last
  OBVIOUS
<1>2. last <= i /\ i <= last
  BY <1>1
<1>3. last = i
  BY <1>1, <1>2, CarriersType
<1> QED
  BY <1>3 DEF LastCursor

\* There is a last carrier unless there is none.
LEMMA LastCarrier ==
    ASSUME NEW recs \in Seq(Records), NEW s \in Sources, Carriers(recs, s) # {}
    PROVE  \E i \in Carriers(recs, s) : \A j \in Carriers(recs, s) : j <= i
<1>1. Len(recs) \in Nat /\ Carriers(recs, s) \subseteq 0..Len(recs)
  BY CarriersType
<1> QED
  BY <1>1, MaxExists

\* HighCursor is the largest of the old cursor and the carriers' ones ...
LEMMA HighCursorSpec ==
    ASSUME NEW recs \in Seq(Records), NEW s \in Sources, NEW old \in 0..MaxCursor
    PROVE  /\ HighCursor(recs, s, old) \in
                 {old} \cup {recs[i].cursor : i \in Carriers(recs, s)}
           /\ HighCursor(recs, s, old) \in 0..MaxCursor
           /\ HighCursor(recs, s, old) >= old
           /\ \A i \in Carriers(recs, s) : HighCursor(recs, s, old) >= recs[i].cursor
<1> DEFINE C == {old} \cup {recs[i].cursor : i \in Carriers(recs, s)}
           P(c) == c >= old /\ \A i \in Carriers(recs, s) : c >= recs[i].cursor
<1>1. C \subseteq 0..MaxCursor /\ C # {}
  BY CarriersType, CapsAssumption
<1>2. PICK m \in C : \A x \in C : x <= m
  BY <1>1, MaxExists, CapsAssumption
<1>3. P(m)
  BY <1>1, <1>2
<1>4. HighCursor(recs, s, old) = CHOOSE c \in C : P(c)
  BY DEF HighCursor
<1>5. HighCursor(recs, s, old) \in C /\ P(HighCursor(recs, s, old))
  <2> HIDE DEF C, P
  <2> QED
    BY <1>2, <1>3, <1>4
<1> QED
  BY <1>1, <1>5

\* ... and nothing else is.
LEMMA HighCursorUnique ==
    ASSUME NEW recs \in Seq(Records), NEW s \in Sources, NEW old \in 0..MaxCursor,
           NEW c \in {old} \cup {recs[i].cursor : i \in Carriers(recs, s)},
           c >= old, \A i \in Carriers(recs, s) : c >= recs[i].cursor
    PROVE  HighCursor(recs, s, old) = c
<1> DEFINE h == HighCursor(recs, s, old)
<1>1. c \in 0..MaxCursor
  BY CarriersType, CapsAssumption
<1>2. h \in 0..MaxCursor /\ h >= c
  BY HighCursorSpec
<1>3. c >= h
  BY HighCursorSpec
<1> QED
  BY <1>1, <1>2, <1>3

-----------------------------------------------------------------------------
(* Two transactions in a row.                                              *)

\* The carriers of a concatenation are those of its parts.
LEMMA CarriersConcat ==
    ASSUME NEW a \in Seq(Records), NEW b \in Seq(Records), NEW s \in Sources
    PROVE  /\ a \o b \in Seq(Records)
           /\ \A i \in Carriers(a, s) : i \in Carriers(a \o b, s) /\ (a \o b)[i] = a[i]
           /\ \A i \in Carriers(b, s) : /\ Len(a) + i \in Carriers(a \o b, s)
                                        /\ (a \o b)[Len(a) + i] = b[i]
           /\ \A i \in Carriers(a \o b, s) :
                 \/ i \in Carriers(a, s)
                 \/ i > Len(a) /\ i - Len(a) \in Carriers(b, s)
<1>1. /\ a \o b \in Seq(Records)
      /\ Len(a \o b) = Len(a) + Len(b)
      /\ \A i \in 1..(Len(a) + Len(b)) :
            (a \o b)[i] = IF i <= Len(a) THEN a[i] ELSE b[i - Len(a)]
  BY ConcatProperties
<1>2. /\ Len(a) \in Nat /\ DOMAIN a = 1..Len(a)
      /\ Len(b) \in Nat /\ DOMAIN b = 1..Len(b)
      /\ DOMAIN (a \o b) = 1..(Len(a) + Len(b))
  BY <1>1, LenProperties
<1> DEFINE ab == a \o b
<1> HIDE DEF ab
<1>3. \A i \in Carriers(a, s) : i \in Carriers(ab, s) /\ ab[i] = a[i]
  BY <1>1, <1>2 DEF Carriers, ab
<1>4. \A i \in Carriers(b, s) : Len(a) + i \in Carriers(ab, s) /\ ab[Len(a) + i] = b[i]
  BY <1>1, <1>2 DEF Carriers, ab
<1>5. \A i \in Carriers(ab, s) : \/ i \in Carriers(a, s)
                                 \/ i > Len(a) /\ i - Len(a) \in Carriers(b, s)
  BY <1>1, <1>2 DEF Carriers, ab
<1> QED
  BY <1>1, <1>3, <1>4, <1>5 DEF ab

\* Keys inserted twice are keys inserted once.
LEMMA KeysConcat ==
    ASSUME NEW a \in Seq(Records), NEW b \in Seq(Records)
    PROVE  KeysOf(a \o b) = KeysOf(a) \cup KeysOf(b)
<1> DEFINE ab == a \o b
<1>1. /\ Len(ab) = Len(a) + Len(b)
      /\ \A i \in 1..(Len(a) + Len(b)) :
            ab[i] = IF i <= Len(a) THEN a[i] ELSE b[i - Len(a)]
  BY ConcatProperties
<1>2. /\ Len(a) \in Nat /\ DOMAIN a = 1..Len(a)
      /\ Len(b) \in Nat /\ DOMAIN b = 1..Len(b)
      /\ DOMAIN ab = 1..(Len(a) + Len(b))
  BY <1>1, ConcatProperties, LenProperties
<1> HIDE DEF ab
<1>3. ASSUME NEW k \in KeysOf(ab) PROVE k \in KeysOf(a) \cup KeysOf(b)
  <2>1. PICK i \in 1..(Len(a) + Len(b)) : k = ab[i].key
    BY <1>2, <1>3 DEF KeysOf
  <2>2. CASE i <= Len(a)
    BY <1>1, <1>2, <1>3, <2>1, <2>2 DEF KeysOf
  <2>3. CASE i > Len(a)
    <3>1. i - Len(a) \in 1..Len(b) /\ ab[i] = b[i - Len(a)]
      BY <1>1, <1>2, <2>3
    <3> QED
      BY <1>2, <1>3, <2>1, <3>1 DEF KeysOf
  <2> QED
    BY <1>2, <2>2, <2>3
<1>4. ASSUME NEW k \in KeysOf(a) PROVE k \in KeysOf(ab)
  BY <1>1, <1>2, <1>4 DEF KeysOf
<1>5. ASSUME NEW k \in KeysOf(b) PROVE k \in KeysOf(ab)
  <2>1. PICK i \in 1..Len(b) : k = b[i].key
    BY <1>2, <1>5 DEF KeysOf
  <2>2. Len(a) + i \in 1..(Len(a) + Len(b)) /\ ab[Len(a) + i] = b[i]
    BY <1>1, <1>2
  <2> QED
    BY <1>2, <1>5, <2>1, <2>2 DEF KeysOf
<1>6. KeysOf(ab) = KeysOf(a) \cup KeysOf(b)
  BY <1>3, <1>4, <1>5
<1> QED
  BY <1>6 DEF ab

\* A cursor moved by two transactions is the cursor moved by one that holds
\* the records of both, in their order.
LEMMA UpsertConcat ==
    ASSUME NEW a \in Seq(Records), NEW b \in Seq(Records), NEW s \in Sources,
           NEW old \in 0..MaxCursor
    PROVE  Upsert(Upsert(old, a, s), b, s) = Upsert(old, a \o b, s)
<1> DEFINE ab == a \o b
<1>1. /\ ab \in Seq(Records)
      /\ \A i \in Carriers(a, s) : i \in Carriers(ab, s) /\ ab[i] = a[i]
      /\ \A i \in Carriers(b, s) : Len(a) + i \in Carriers(ab, s) /\ ab[Len(a) + i] = b[i]
      /\ \A i \in Carriers(ab, s) : \/ i \in Carriers(a, s)
                                    \/ i > Len(a) /\ i - Len(a) \in Carriers(b, s)
  BY CarriersConcat
<1>2. Len(a) \in Nat /\ Len(b) \in Nat
  BY LenProperties
<1> HIDE DEF ab
<1>3. Carriers(a, s) \subseteq 1..Len(a) /\ Carriers(b, s) \subseteq 1..Len(b)
  BY CarriersType
<1>4. CASE Carriers(a, s) = {} /\ Carriers(b, s) = {}
  BY <1>1, <1>4 DEF Upsert, ab
<1>5. CASE s \in LogSources /\ ~(Carriers(a, s) = {} /\ Carriers(b, s) = {})
  <2> DEFINE h == IF Carriers(a, s) = {} THEN old ELSE HighCursor(a, s, old)
             g == IF Carriers(b, s) = {} THEN h ELSE HighCursor(b, s, h)
  <2>1. /\ h \in 0..MaxCursor /\ h >= old
        /\ h \in {old} \cup {a[i].cursor : i \in Carriers(a, s)}
        /\ \A i \in Carriers(a, s) : h >= a[i].cursor
    BY HighCursorSpec
  <2> HIDE DEF h
  <2>2. /\ g \in 0..MaxCursor /\ g >= h
        /\ g \in {h} \cup {b[i].cursor : i \in Carriers(b, s)}
        /\ \A i \in Carriers(b, s) : g >= b[i].cursor
    BY <2>1, HighCursorSpec
  <2> HIDE DEF g
  <2>3. g \in {old} \cup {ab[i].cursor : i \in Carriers(ab, s)}
    BY <1>1, <2>1, <2>2
  <2>4. \A i \in Carriers(ab, s) : g >= ab[i].cursor
    <3> SUFFICES ASSUME NEW i \in Carriers(ab, s) PROVE g >= ab[i].cursor
      OBVIOUS
    <3>0. /\ ab[i].cursor \in 1..MaxCursor
          /\ i \in Int
      BY <1>1, CarriersType
    <3>1. CASE i \in Carriers(a, s)
      <4>1. h >= ab[i].cursor
        BY <1>1, <2>1, <3>1
      <4> QED
        BY <2>1, <2>2, <3>0, <4>1, CapsAssumption
    <3>2. CASE i > Len(a) /\ i - Len(a) \in Carriers(b, s)
      <4>1. Len(a) + (i - Len(a)) = i
        BY <1>2, <3>0
      <4>2. ab[i] = b[i - Len(a)]
        BY <1>1, <3>2, <4>1
      <4> QED
        BY <2>2, <3>2, <4>2
    <3> QED
      BY <1>1, <3>1, <3>2
  <2>5. g >= old
    BY <2>1, <2>2, CapsAssumption
  <2>6. HighCursor(ab, s, old) = g
    BY <1>1, <2>3, <2>4, <2>5, HighCursorUnique
  <2>7. Carriers(ab, s) # {}
    BY <1>1, <1>5
  <2>8. Upsert(old, ab, s) = g
    BY <1>5, <2>6, <2>7 DEF Upsert
  <2>9. Upsert(old, a, s) = h
    BY <1>5 DEF Upsert, h
  <2>10. Upsert(h, b, s) = g
    BY <1>5 DEF Upsert, g
  <2> QED
    BY <2>8, <2>9, <2>10 DEF ab
<1>6. CASE s \notin LogSources /\ Carriers(b, s) # {}
  <2>1. PICK i \in Carriers(b, s) : \A j \in Carriers(b, s) : j <= i
    BY <1>6, LastCarrier
  <2>2. /\ Len(a) + i \in Carriers(ab, s)
        /\ ab[Len(a) + i] = b[i]
    BY <1>1
  <2>3. \A j \in Carriers(ab, s) : j <= Len(a) + i
    <3> SUFFICES ASSUME NEW j \in Carriers(ab, s) PROVE j <= Len(a) + i
      OBVIOUS
    <3>1. j \in Int
      BY <1>1, CarriersType
    <3> QED
      BY <1>1, <1>2, <1>3, <2>1, <3>1
  <2>4. LastCursor(ab, s) = ab[Len(a) + i].cursor
    BY <1>1, <2>2, <2>3, LastCursorSpec
  <2>5. LastCursor(b, s) = b[i].cursor
    BY <2>1, LastCursorSpec
  <2> QED
    BY <1>6, <2>2, <2>4, <2>5 DEF Upsert, ab
<1>7. CASE s \notin LogSources /\ Carriers(b, s) = {} /\ Carriers(a, s) # {}
  <2>1. PICK i \in Carriers(a, s) : \A j \in Carriers(a, s) : j <= i
    BY <1>7, LastCarrier
  <2>2. /\ i \in Carriers(ab, s)
        /\ ab[i] = a[i]
    BY <1>1
  <2>3. \A j \in Carriers(ab, s) : j <= i
    BY <1>1, <1>7, <2>1
  <2>4. LastCursor(ab, s) = ab[i].cursor
    BY <1>1, <2>2, <2>3, LastCursorSpec
  <2>5. LastCursor(a, s) = a[i].cursor
    BY <2>1, LastCursorSpec
  <2> QED
    BY <1>7, <2>2, <2>4, <2>5 DEF Upsert, ab
<1> QED
  BY <1>4, <1>5, <1>6, <1>7

\* The cursor a transaction leaves is a legal one.
LEMMA UpsertType ==
    ASSUME NEW recs \in Seq(Records), NEW s \in Sources, NEW old \in 0..MaxCursor
    PROVE  Upsert(old, recs, s) \in 0..MaxCursor
<1>1. CASE s \in LogSources
  BY <1>1, HighCursorSpec DEF Upsert
<1>2. CASE s \notin LogSources /\ Carriers(recs, s) # {}
  <2>1. PICK i \in Carriers(recs, s) : \A j \in Carriers(recs, s) : j <= i
    BY <1>2, LastCarrier
  <2>2. LastCursor(recs, s) \in 1..MaxCursor
    BY <2>1, LastCursorSpec, CarriersType
  <2> QED
    BY <1>2, <2>2, CapsAssumption DEF Upsert
<1>3. CASE Carriers(recs, s) = {}
  BY <1>3 DEF Upsert
<1> QED
  BY <1>1, <1>2, <1>3

Files == [keys : SUBSET Keys, cursors : [Sources -> 0..MaxCursor]]

\* A transaction turns a file into a file.
LEMMA WriteBatchType ==
    ASSUME NEW d \in Files, NEW recs \in Seq(Records)
    PROVE  writeBatch(d, recs) \in Files
<1>1. KeysOf(recs) \subseteq Keys
  BY LenProperties, RecordsAssumption DEF KeysOf
<1>2. \A s \in Sources : Upsert(d.cursors[s], recs, s) \in 0..MaxCursor
  BY UpsertType DEF Files
<1> QED
  BY <1>1, <1>2 DEF Files, writeBatch

\* Cutting the records into batches does not change the file.
LEMMA WriteBatchConcat ==
    ASSUME NEW d \in Files, NEW a \in Seq(Records), NEW b \in Seq(Records)
    PROVE  writeBatch(writeBatch(d, a), b) = writeBatch(d, a \o b)
<1>1. KeysOf(a \o b) = KeysOf(a) \cup KeysOf(b)
  BY KeysConcat
<1>2. \A s \in Sources : Upsert(Upsert(d.cursors[s], a, s), b, s)
                            = Upsert(d.cursors[s], a \o b, s)
  BY UpsertConcat DEF Files
<1> QED
  BY <1>1, <1>2 DEF writeBatch

-----------------------------------------------------------------------------
(* The inductive invariant: how the writer's position, its flags and the   *)
(* life of the archive go together.                                        *)

\* The position of the writer tells the flags, and a writer that has gone
\* without a failure has gone from a closed and empty channel.
WriterState ==
    /\ writer = "flush" => batch # <<>>
    /\ writer \in {"select", "flush"} => ~err
    /\ writer = "failed" => err
    /\ committed => writer # "select"
    /\ Opened => (done <=> writer = "exited")
    /\ ~Opened => writer = "exited"
    /\ Opened /\ writer = "exited" /\ ~err =>
          phase = "closing" /\ queue = <<>> /\ batch = <<>>

\* Nobody is inside add once the channel is closed.
CallersJoined == phase # "open" => \A p \in Producers : adding[p] = None

IInv == TypeOK /\ WriterState /\ CallersJoined

-----------------------------------------------------------------------------
LEMMA InitType == Init => TypeOK
<1> SUFFICES ASSUME Init PROVE TypeOK
  OBVIOUS
<1>1. <<>> \in Seq(Records)
  BY EmptySeq
<1>2. db \in [keys : SUBSET Keys, cursors : [Sources -> 0..MaxCursor]]
  BY CapsAssumption DEF Init, EmptyDb
<1>3. /\ adding \in [Producers -> Records \cup {None}]
      /\ ret \in [Producers -> Outcomes]
  BY DEF Init, Outcomes
<1> QED
  BY <1>1, <1>2, <1>3 DEF Init, TypeOK

LEMMA NextType == TypeOK /\ [Next]_vars => TypeOK'
<1> SUFFICES ASSUME TypeOK, [Next]_vars PROVE TypeOK'
  OBVIOUS
<1> USE DEF TypeOK, writerVars, callerVars, diskVars
<1>1. ASSUME NEW p \in Producers, NEW r \in Records, AddCheck(p, r) PROVE TypeOK'
  <2>1. adding' \in [Producers -> Records \cup {None}]
    BY <1>1 DEF AddCheck
  <2>2. ret' \in [Producers -> Outcomes]
    BY <1>1 DEF AddCheck, Outcomes
  <2>3. adds' \in Nat
    BY <1>1 DEF AddCheck
  <2> QED
    BY <1>1, <2>1, <2>2, <2>3 DEF AddCheck
<1>2. ASSUME NEW p \in Producers, AddSend(p) PROVE TypeOK'
  <2>1. adding[p] \in Records
    BY <1>2 DEF AddSend, Return
  <2>2. queue' \in Seq(Records)
    BY <1>2, <2>1, AppendProperties DEF AddSend
  <2> QED
    BY <1>2, <2>2 DEF AddSend, Return, Outcomes
<1>3. ASSUME NEW p \in Producers, AddCancelled(p) PROVE TypeOK'
  BY <1>3 DEF AddCancelled, Return, Outcomes
<1>4. ASSUME NEW p \in Producers, AddDone(p) PROVE TypeOK'
  BY <1>4 DEF AddDone, Return, Outcomes
<1>5. CASE Receive
  <2>1. Head(queue) \in Records /\ Tail(queue) \in Seq(Records)
    BY <1>5, HeadTailProperties DEF Receive
  <2>2. batch' \in Seq(Records)
    BY <1>5, <2>1, AppendProperties DEF Receive
  <2>3. size' \in Nat
    BY <1>5, <2>1, RecordsAssumption DEF Receive
  <2> QED
    BY <1>5, <2>1, <2>2, <2>3 DEF Receive
<1>6. CASE Tick
  BY <1>6 DEF Tick
<1>7. CASE Drained
  BY <1>7 DEF Drained
<1>8. CASE Commit
  <2>1. db' \in Files
    BY <1>8, WriteBatchType DEF Commit, Files
  <2>2. log' \in Seq(Records)
    BY <1>8, ConcatProperties DEF Commit
  <2> QED
    BY <1>8, <2>1, <2>2 DEF Commit, Files
<1>9. CASE Flushed
  BY <1>9, EmptySeq DEF Flushed
<1>10. CASE WriteFails
  BY <1>10 DEF WriteFails
<1>11. CASE WriterExits
  BY <1>11 DEF WriterExits
<1>12. CASE Cancel
  BY <1>12 DEF Cancel
<1>13. CASE CloseQueue
  BY <1>13 DEF CloseQueue
<1>14. CASE CloseReturns
  BY <1>14 DEF CloseReturns
<1>15. CASE Crash
  <2>1. <<>> \in Seq(Records)
    BY EmptySeq
  <2>2. /\ adding' \in [Producers -> Records \cup {None}]
        /\ ret' \in [Producers -> Outcomes]
    BY <1>15 DEF Crash, Outcomes
  <2>3. crashes' \in Nat
    BY <1>15 DEF Crash
  <2> QED
    BY <1>15, <2>1, <2>2, <2>3 DEF Crash
<1>16. CASE openArchive
  BY <1>16, EmptySeq DEF openArchive, Outcomes
<1>17. CASE UNCHANGED vars
  BY <1>17 DEF vars
<1> QED
  BY <1>1, <1>2, <1>3, <1>4, <1>5, <1>6, <1>7, <1>8, <1>9, <1>10, <1>11, <1>12,
     <1>13, <1>14, <1>15, <1>16, <1>17 DEF Next, Add, Write, Shutdown

\* Every variable keeps its type: the queue and the batch hold records, the
\* cursors on disk stay within their width.
THEOREM TypeCorrect == Safety => []TypeOK
<1>1. Init => TypeOK
  BY InitType
<1>2. TypeOK /\ [Next]_vars => TypeOK'
  BY NextType
<1> QED
  BY <1>1, <1>2, PTL DEF Safety

-----------------------------------------------------------------------------
LEMMA InitWriter == Init => WriterState /\ CallersJoined
BY DEF Init, WriterState, CallersJoined, Opened

LEMMA NextCallers ==
    ASSUME TypeOK, CallersJoined, [Next]_vars
    PROVE  CallersJoined'
<1> USE DEF CallersJoined
<1>1. ASSUME NEW p \in Producers, NEW r \in Records, AddCheck(p, r)
      PROVE  CallersJoined'
  BY <1>1 DEF AddCheck
<1>2. ASSUME NEW p \in Producers, AddSend(p) \/ AddCancelled(p) \/ AddDone(p)
      PROVE  CallersJoined'
  BY <1>2 DEF AddSend, AddCancelled, AddDone, Return
<1>3. CASE Write
  BY <1>3 DEF Write, Receive, Tick, Drained, Commit, Flushed, WriteFails,
     WriterExits, callerVars
<1>4. CASE Cancel \/ CloseQueue \/ CloseReturns
  BY <1>4 DEF Cancel, CloseQueue, CloseReturns, callerVars
<1>5. CASE Crash
  BY <1>5 DEF Crash
<1>6. CASE openArchive
  BY <1>6 DEF openArchive
<1>7. CASE UNCHANGED vars
  BY <1>7 DEF vars
<1> QED
  BY <1>1, <1>2, <1>3, <1>4, <1>5, <1>6, <1>7 DEF Next, Add, Shutdown

LEMMA NextWriter ==
    ASSUME IInv, [Next]_vars
    PROVE  WriterState'
<1> USE DEF IInv, WriterState, Opened, writerVars, callerVars, diskVars
<1>1. ASSUME NEW p \in Producers, NEW r \in Records, AddCheck(p, r)
      PROVE  WriterState'
  BY <1>1 DEF AddCheck
<1>2. ASSUME NEW p \in Producers, AddSend(p)
      PROVE  WriterState'
  \* Only the queue changes, and nobody sends on a closed channel.
  <2>1. phase = "open"
    BY <1>2 DEF AddSend, Return, CallersJoined
  <2> QED
    BY <1>2, <2>1 DEF AddSend, Return
<1>3. ASSUME NEW p \in Producers, AddCancelled(p) \/ AddDone(p)
      PROVE  WriterState'
  BY <1>3 DEF AddCancelled, AddDone, Return
<1>4. CASE Receive
  <2>1. Head(queue) \in Records
    BY <1>4, HeadTailProperties DEF Receive, TypeOK
  <2>2. batch' # <<>>
    BY <1>4, <2>1, AppendProperties DEF Receive, TypeOK
  <2> QED
    BY <1>4, <2>2 DEF Receive
<1>5. CASE Tick
  BY <1>5 DEF Tick
<1>6. CASE Drained
  BY <1>6 DEF Drained
<1>7. CASE Commit
  BY <1>7 DEF Commit
<1>8. CASE Flushed
  BY <1>8 DEF Flushed
<1>9. CASE WriteFails
  BY <1>9 DEF WriteFails
<1>10. CASE WriterExits
  BY <1>10 DEF WriterExits
<1>11. CASE Cancel
  BY <1>11 DEF Cancel
<1>12. CASE CloseQueue
  BY <1>12 DEF CloseQueue
<1>13. CASE CloseReturns
  BY <1>13 DEF CloseReturns
<1>14. CASE Crash
  BY <1>14 DEF Crash
<1>15. CASE openArchive
  BY <1>15 DEF openArchive
<1>16. CASE UNCHANGED vars
  BY <1>16 DEF vars
<1> QED
  BY <1>1, <1>2, <1>3, <1>4, <1>5, <1>6, <1>7, <1>8, <1>9, <1>10, <1>11, <1>12,
     <1>13, <1>14, <1>15, <1>16 DEF Next, Add, Write, Shutdown

LEMMA Inductive == Safety => []IInv
<1>1. Init => IInv
  BY InitType, InitWriter DEF IInv
<1>2. IInv /\ [Next]_vars => IInv'
  BY NextType, NextCallers, NextWriter DEF IInv
<1> QED
  BY <1>1, <1>2, PTL DEF Safety

-----------------------------------------------------------------------------
\* A writer that stops with accepted records in hand has raised the failure
\* that add and close report.
THEOREM NothingIsAbandoned == Safety => []NothingAbandoned
<1>1. IInv => NothingAbandoned
  <2> SUFFICES ASSUME IInv, Opened, done, ~err
               PROVE  phase = "closing" /\ Pending = <<>>
    BY DEF NothingAbandoned
  <2>1. writer = "exited"
    BY DEF IInv, WriterState
  <2>2. phase = "closing" /\ queue = <<>> /\ batch = <<>>
    BY <2>1 DEF IInv, WriterState
  <2>3. batch \o queue = <<>>
    BY <2>2, EmptySeq, ConcatEmptySeq DEF IInv, TypeOK
  <2> QED
    BY <2>2, <2>3 DEF Pending
<1> QED
  BY <1>1, Inductive, PTL

\* The file is the one a single transaction with every committed record
\* would have left, wherever the writer cut its batches.
THEOREM FileIsReplay == Safety => []StoreIsReplay
<1>1. Init => StoreIsReplay
  <2> SUFFICES ASSUME Init PROVE EmptyDb = writeBatch(EmptyDb, <<>>)
    BY DEF Init, StoreIsReplay
  <2>1. KeysOf(<<>>) = {}
    BY DEF KeysOf
  <2>2. \A s \in Sources : Carriers(<<>>, s) = {}
    BY DEF Carriers
  <2>3. \A s \in Sources : Upsert(0, <<>>, s) = 0
    BY <2>2 DEF Upsert
  <2> QED
    BY <2>1, <2>3 DEF EmptyDb, writeBatch
<1>2. TypeOK /\ StoreIsReplay /\ [Next]_vars => StoreIsReplay'
  <2> SUFFICES ASSUME TypeOK, StoreIsReplay, [Next]_vars PROVE StoreIsReplay'
    OBVIOUS
  <2>1. CASE Commit
    <3>1. EmptyDb \in Files
      BY CapsAssumption DEF EmptyDb, Files
    <3>2. writeBatch(writeBatch(EmptyDb, log), batch) = writeBatch(EmptyDb, log \o batch)
      BY <3>1, WriteBatchConcat DEF TypeOK
    <3> QED
      BY <2>1, <3>2 DEF Commit, StoreIsReplay
  <2>2. CASE UNCHANGED <<db, log>>
    BY <2>2 DEF StoreIsReplay
  <2>3. Commit \/ UNCHANGED <<db, log>>
    BY DEF Next, Add, AddCheck, AddSend, AddDone, AddCancelled, Return, Write,
       Receive, Tick, Drained, Flushed, WriteFails, WriterExits, Shutdown, Cancel,
       CloseQueue, CloseReturns, Crash, openArchive, vars, diskVars
  <2> QED
    BY <2>1, <2>2, <2>3
<1> QED
  BY <1>1, <1>2, TypeCorrect, PTL DEF Safety

\* The cursor of a log stream never moves back.
THEOREM LogCursorsNeverFall == Safety => LogCursorsGrow
<1>1. TypeOK /\ [Next]_vars => [\A s \in LogSources : db'.cursors[s] >= db.cursors[s]]_vars
  <2> SUFFICES ASSUME TypeOK, [Next]_vars, NEW s \in LogSources
               PROVE  db'.cursors[s] >= db.cursors[s]
    OBVIOUS
  <2>0. s \in Sources /\ db.cursors[s] \in 0..MaxCursor
    BY DEF TypeOK, Sources
  <2>1. CASE Commit
    <3>1. db'.cursors[s] = Upsert(db.cursors[s], batch, s)
      BY <2>0, <2>1 DEF Commit, writeBatch
    <3>2. Upsert(db.cursors[s], batch, s) >= db.cursors[s]
      <4>1. batch \in Seq(Records)
        BY DEF TypeOK
      <4>2. HighCursor(batch, s, db.cursors[s]) >= db.cursors[s]
        BY <2>0, <4>1, HighCursorSpec
      <4>3. db.cursors[s] >= db.cursors[s]
        BY <2>0
      <4> QED
        BY <4>2, <4>3 DEF Upsert
    <3> QED
      BY <3>1, <3>2
  <2>2. CASE UNCHANGED db
    BY <2>0, <2>2
  <2>3. Commit \/ UNCHANGED db
    BY DEF Next, Add, AddCheck, AddSend, AddDone, AddCancelled, Return, Write,
       Receive, Tick, Drained, Flushed, WriteFails, WriterExits, Shutdown, Cancel,
       CloseQueue, CloseReturns, Crash, openArchive, vars, diskVars
  <2> QED
    BY <2>1, <2>2, <2>3
<1> QED
  BY <1>1, TypeCorrect, PTL DEF Safety, LogCursorsGrow

\* A nil from add is a place on the queue.
THEOREM NilIsQueued == Safety => NilMeansQueued
<1> DEFINE Step == \A p \in Producers :
                (adding[p] # None /\ adding'[p] = None /\ ret'[p] = "ok")
                   => queue' = Append(queue, adding[p])
<1>1. IInv /\ [Next]_vars => [Step]_vars
  <2> SUFFICES ASSUME IInv, Next, NEW p \in Producers,
                      adding[p] # None, adding'[p] = None, ret'[p] = "ok"
               PROVE  queue' = Append(queue, adding[p])
    BY DEF Step
  <2> USE DEF IInv, TypeOK
  <2>1. ASSUME NEW q \in Producers, NEW r \in Records, AddCheck(q, r) PROVE FALSE
    BY <2>1, NoneAssumption DEF AddCheck
  <2>2. ASSUME NEW q \in Producers, AddSend(q) PROVE queue' = Append(queue, adding[p])
    BY <2>2 DEF AddSend, Return
  <2>3. ASSUME NEW q \in Producers, AddCancelled(q) PROVE FALSE
    BY <2>3 DEF AddCancelled, Return
  <2>4. ASSUME NEW q \in Producers, AddDone(q) PROVE FALSE
    \* A done writer without a failure has seen the channel closed, when
    \* nobody is inside add any more.
    <3>1. p = q /\ ~err /\ done
      BY <2>4 DEF AddDone, Return
    <3>2. phase = "open"
      BY DEF CallersJoined
    <3> QED
      BY <3>1, <3>2 DEF WriterState, Opened
  <2>5. CASE Write
    BY <2>5 DEF Write, Receive, Tick, Drained, Commit, Flushed, WriteFails,
       WriterExits, callerVars
  <2>6. CASE Shutdown
    BY <2>6 DEF Shutdown, Cancel, CloseQueue, CloseReturns, callerVars
  <2>7. CASE Crash
    BY <2>7 DEF Crash
  <2>8. CASE openArchive
    BY <2>8 DEF openArchive
  <2> QED
    BY <2>1, <2>2, <2>3, <2>4, <2>5, <2>6, <2>7, <2>8 DEF Next, Add
<1> QED
  BY <1>1, Inductive, PTL DEF Safety, NilMeansQueued

-----------------------------------------------------------------------------
(* Refinement of DurableLog.                                               *)

\* Committing the batch is committing a run of the oldest pending records.
LEMMA CommitRefines ==
    ASSUME IInv, Commit
    PROVE  DL!Commit
<1> USE DEF IInv, TypeOK
<1> DEFINE n == Len(batch)
<1>1. /\ Opened /\ ~err /\ ~committed /\ batch # <<>>
      BY DEF Commit, WriterState
<1>2. n \in Nat \ {0} /\ Len(queue) \in Nat
  BY <1>1, EmptySeq, LenProperties
<1>3. /\ batch \o queue \in Seq(Records)
      /\ Len(batch \o queue) = n + Len(queue)
      /\ \A i \in 1..(n + Len(queue)) :
            (batch \o queue)[i] = IF i <= n THEN batch[i] ELSE queue[i - n]
  BY ConcatProperties
<1>4. Pending = batch \o queue
  BY <1>1 DEF Pending
<1>5. Pending' = queue
  BY <1>1 DEF Pending, Opened, Commit, diskVars, callerVars
<1>6. SubSeq(batch \o queue, 1, n) = batch
  <2> DEFINE t == SubSeq(batch \o queue, 1, n)
  <2>1. \A i \in 1..n : (batch \o queue)[i] \in Records
    BY <1>2, <1>3, ElementOfSeq
  <2>2. /\ t \in Seq(Records)
        /\ Len(t) = n
        /\ \A i \in 1..n : t[i] = (batch \o queue)[i]
    BY <1>2, <2>1, SubSeqProperties
  <2> HIDE DEF t
  <2>3. \A i \in 1..n : t[i] = batch[i]
    BY <1>2, <1>3, <2>2
  <2> QED
    BY <2>2, <2>3, SeqEqual DEF t
<1>7. SubSeq(batch \o queue, n + 1, Len(batch \o queue)) = queue
  <2> DEFINE m == Len(batch \o queue)
             t == SubSeq(batch \o queue, n + 1, m)
  <2>0. m = n + Len(queue)
    BY <1>3
  <2> HIDE DEF m
  <2>1. \A i \in (n + 1)..m : (batch \o queue)[i] \in Records
    BY <1>2, <1>3, <2>0, ElementOfSeq
  <2>2. /\ t \in Seq(Records)
        /\ Len(t) = IF n + 1 <= m THEN m - (n + 1) + 1 ELSE 0
        /\ \A i \in 1..(m - (n + 1) + 1) : t[i] = (batch \o queue)[n + 1 + i - 1]
    BY <1>2, <2>0, <2>1, SubSeqProperties
  <2> HIDE DEF t
  <2>3. Len(t) = Len(queue)
    BY <1>2, <2>0, <2>2
  <2>4. \A i \in 1..Len(queue) : t[i] = queue[i]
    <3> SUFFICES ASSUME NEW i \in 1..Len(queue) PROVE t[i] = queue[i]
      OBVIOUS
    <3>1. /\ i \in 1..(m - (n + 1) + 1)
          /\ n + 1 + i - 1 = n + i
          /\ n + i \in 1..(n + Len(queue))
          /\ ~(n + i <= n) /\ n + i - n = i
      BY <1>2, <2>0
    <3>2. t[i] = (batch \o queue)[n + i]
      BY <2>2, <3>1
    <3>3. (batch \o queue)[n + i] = queue[n + i - n]
      BY <1>3, <3>1
    <3> QED
      BY <3>1, <3>2, <3>3
  <2> QED
    BY <2>2, <2>3, <2>4, SeqEqual DEF t, m
<1>8. n \in 1..Len(Pending)
  BY <1>2, <1>3, <1>4
<1>9. /\ log' = log \o SubSeq(Pending, 1, n)
      /\ Pending' = SubSeq(Pending, n + 1, Len(Pending))
  BY <1>4, <1>5, <1>6, <1>7 DEF Commit
<1>10. UNCHANGED <<err, Opened>>
  BY DEF Commit, Opened, callerVars
<1> QED
  BY <1>1, <1>8, <1>9, <1>10 DEF DL!Commit

\* Moving a record from the queue to the batch is invisible.
LEMMA ReceiveStutters ==
    ASSUME IInv, Receive
    PROVE  UNCHANGED DL!vars
<1> USE DEF IInv, TypeOK
<1>1. ~committed /\ queue # <<>>
  BY DEF Receive, WriterState
<1>2. Head(queue) \in Records /\ Tail(queue) \in Seq(Records)
  BY <1>1, HeadTailProperties
<1>3. queue = <<Head(queue)>> \o Tail(queue)
  BY <1>1
<1>4. batch' = batch \o <<Head(queue)>>
  BY <1>2, AppendIsConcat DEF Receive
<1>5. batch' \o queue' = batch \o queue
  <2>1. <<Head(queue)>> \in Seq(Records)
    BY <1>2
  <2>2. (batch \o <<Head(queue)>>) \o Tail(queue)
          = batch \o (<<Head(queue)>> \o Tail(queue))
    BY <1>2, <2>1, ConcatAssociative
  <2>3. queue' = Tail(queue)
    BY DEF Receive
  <2> QED
    BY <1>3, <1>4, <2>2, <2>3
<1>6. UNCHANGED <<phase, committed, err, log>>
  BY DEF Receive, diskVars
<1> QED
  BY <1>1, <1>5, <1>6 DEF DL!vars, Pending, Opened

\* A record that add has put on the queue is accepted.
LEMMA SendRefines ==
    ASSUME IInv, NEW p \in Producers, AddSend(p)
    PROVE  DL!Accept
<1> USE DEF IInv, TypeOK
<1>1. Opened
  BY DEF AddSend, Return, CallersJoined, Opened
<1>2. adding[p] \in Records
  BY DEF AddSend, Return
<1>3. /\ queue' = Append(queue, adding[p])
      /\ UNCHANGED <<phase, batch, committed, err, log>>
  BY DEF AddSend, Return, writerVars, diskVars
<1>4. batch \o Append(queue, adding[p]) = Append(batch \o queue, adding[p])
  <2> DEFINE r == <<adding[p]>>
  <2>1. r \in Seq(Records)
    BY <1>2
  <2>2. (batch \o queue) \o r = batch \o (queue \o r)
    BY <2>1, ConcatAssociative
  <2>3. Append(queue, adding[p]) = queue \o r
    BY <1>2, AppendIsConcat
  <2>4. Append(batch \o queue, adding[p]) = (batch \o queue) \o r
    BY <1>2, ConcatProperties, AppendIsConcat
  <2> QED
    BY <2>2, <2>3, <2>4
<1>5. Pending' = Append(Pending, adding[p])
  BY <1>1, <1>3, <1>4 DEF Pending, Opened
<1> QED
  BY <1>1, <1>2, <1>3, <1>5 DEF DL!Accept, Opened

\* A transaction whose marker was read had left the pending records before.
LEMMA FlushedStutters ==
    ASSUME IInv, Flushed
    PROVE  UNCHANGED DL!vars
<1>1. /\ committed /\ ~committed' /\ batch' = <<>>
      /\ UNCHANGED <<phase, queue, err, log>>
  BY DEF Flushed, diskVars
<1>2. <<>> \o queue = queue
  BY ConcatEmptySeq DEF IInv, TypeOK
<1> QED
  BY <1>1, <1>2 DEF DL!vars, Pending, Opened

\* The queue, the writer goroutine and the transactions implement the
\* durable log: accepted records become durable in order, a run at a time,
\* and only a crash or a failure that everyone can see gives them up.
THEOREM RefinesDurableLog == Safety => DL!Safety
<1>1. Init => DL!Init
  <2> SUFFICES ASSUME Init PROVE DL!Init
    OBVIOUS
  <2>1. <<>> \o <<>> = <<>>
    BY EmptySeq, ConcatEmptySeq
  <2> QED
    BY <2>1 DEF Init, DL!Init, Pending, Opened
<1>2. IInv /\ [Next]_vars => [DL!Next]_(DL!vars)
  <2> SUFFICES ASSUME IInv, [Next]_vars PROVE DL!Next \/ UNCHANGED DL!vars
    OBVIOUS
  <2>1. ASSUME NEW p \in Producers, AddSend(p) PROVE DL!Next
    BY <2>1, SendRefines DEF DL!Next
  <2>2. ASSUME NEW p \in Producers, NEW r \in Records, AddCheck(p, r)
        PROVE  UNCHANGED DL!vars
    BY <2>2 DEF AddCheck, DL!vars, Pending, Opened, writerVars, diskVars
  <2>3. ASSUME NEW p \in Producers, AddCancelled(p) \/ AddDone(p)
        PROVE  UNCHANGED DL!vars
    BY <2>3 DEF AddCancelled, AddDone, Return, DL!vars, Pending, Opened,
       writerVars, diskVars
  <2>4. CASE Receive
    BY <2>4, ReceiveStutters
  <2>5. CASE Tick \/ Drained \/ WriterExits
    BY <2>5 DEF Tick, Drained, WriterExits, DL!vars, Pending, Opened,
       callerVars, diskVars
  <2>6. CASE Commit
    BY <2>6, CommitRefines DEF DL!Next
  <2>7. CASE Flushed
    BY <2>7, FlushedStutters
  <2>8. CASE WriteFails
    <3>1. Opened
      BY <2>8 DEF IInv, WriterState, WriteFails
    <3> QED
      BY <2>8, <3>1 DEF WriteFails, DL!Next, DL!Fail, Pending, Opened, diskVars
  <2>9. CASE Cancel \/ CloseQueue
    BY <2>9 DEF Cancel, CloseQueue, DL!vars, Pending, Opened, writerVars, diskVars
  <2>10. CASE CloseReturns
    <3>1. err \/ Pending = <<>>
      <4> SUFFICES ASSUME ~err PROVE Pending = <<>>
        OBVIOUS
      <4>1. queue = <<>> /\ batch = <<>>
        BY <2>10 DEF CloseReturns, IInv, WriterState, Opened
      <4>2. batch \o queue = <<>>
        BY <4>1, EmptySeq, ConcatEmptySeq
      <4> QED
        BY <4>1, <4>2 DEF Pending
    <3> QED
      BY <2>10, <3>1 DEF CloseReturns, DL!Next, DL!Close, Pending, Opened,
         writerVars, diskVars
  <2>11. CASE Crash
    BY <2>11 DEF Crash, DL!Next, DL!Crash, Pending, Opened, diskVars
  <2>12. CASE openArchive
    <3>1. <<>> \o <<>> = <<>>
      BY EmptySeq, ConcatEmptySeq
    <3> QED
      BY <2>12, <3>1 DEF openArchive, DL!Next, DL!Reopen, Pending, Opened, diskVars
  <2>13. CASE UNCHANGED vars
    BY <2>13 DEF vars, DL!vars, Pending, Opened
  <2> QED
    BY <2>1, <2>2, <2>3, <2>4, <2>5, <2>6, <2>7, <2>8, <2>9, <2>10, <2>11,
       <2>12, <2>13 DEF Next, Add, Write, Shutdown
<1> QED
  BY <1>1, <1>2, Inductive, PTL DEF Safety, DL!Safety

-----------------------------------------------------------------------------
\* The writer has a step to take: a record to receive, a batch to flush, a closed
\* channel to drain or a failure to leave with.
WriterMoves ==
    \/ writer = "select" /\ (queue # <<>> \/ phase = "closing")
    \/ writer \in {"flush", "failed"}

\* Where a caller of add or close has no case of its own that is ready, the
\* writer has a step to take.
NobodyIsStuck ==
    /\ \A p \in Producers : adding[p] # None => Len(queue) < QueueCap \/ done \/ WriterMoves
    /\ phase = "closing" => done \/ WriterMoves

\* add and close wait for a writer that is there: no full queue outlives the
\* goroutine that empties it without done being closed, whatever stopped that
\* goroutine, a failed transaction in the last flush included.  (That the writer's
\* steps are taken is the fairness AddReturns and CloseEnds add.)
THEOREM WaitersHaveAWriter == Safety => []NobodyIsStuck
<1>1. IInv => NobodyIsStuck
  <2> SUFFICES ASSUME IInv PROVE NobodyIsStuck
    OBVIOUS
  <2>1. Opened => done \/ writer \in {"select", "flush", "failed"}
    BY DEF IInv, WriterState, TypeOK
  <2>2. ASSUME NEW p \in Producers, adding[p] # None
        PROVE  Len(queue) < QueueCap \/ done \/ WriterMoves
    <3>1. Opened
      BY <2>2 DEF IInv, CallersJoined, Opened
    <3>2. queue = <<>> => Len(queue) < QueueCap
      BY CapsAssumption
    <3> QED
      BY <2>1, <3>1, <3>2 DEF WriterMoves
  <2>3. phase = "closing" => done \/ WriterMoves
    BY <2>1 DEF Opened, WriterMoves
  <2> QED
    BY <2>2, <2>3 DEF NobodyIsStuck
<1> QED
  BY <1>1, Inductive, PTL
=============================================================================
