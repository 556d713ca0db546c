-------------------------- MODULE LogStreamProofs ---------------------------
(***************************************************************************)
(* The recording of logs, for any scripts, restarts, faults, slots and     *)
(* sizes of the queue.  The invariant follows a line from the kubelet to   *)
(* the file: whatever a reader skips or has passed is archived, or waits   *)
(* before everything that could move the cursor past it.                   *)
(***************************************************************************)
EXTENDS LogStream, SequenceTheorems, FiniteSetTheorems, WellFoundedInduction, TLAPS

Line   == [stamp : Nat \ {0}, text : STRING]
Keys   == [src : Runs, stamp : Nat \ {0}, text : STRING, ordinal : Nat]
LineId == [run : Runs, n : Nat]
Record == [key : Keys, line : LineId, cursor : Nat \ {0}]
Reader == [at : {"free", "queued", "request", "read", "ended"},
           cancelled : BOOLEAN, terminated : BOOLEAN,
           since : Int, target : Runs, pos : Nat]

Typed ==
    /\ script \in Scripts
    /\ written \in [Runs -> Nat]
    /\ \A run \in Runs : written[run] <= Len(script[run])
    /\ restart \in Runs
    /\ state \in {"waiting", "running", "terminated", "deleted"}
    /\ reader \in [Readers -> Reader]
    /\ \A r \in Readers :
          reader[r].at = "read" => reader[r].pos <= written[reader[r].target]
    /\ pending \in Seq(Record)
    /\ Len(pending) <= QueueCap
    /\ db \in [keys : SUBSET Keys, filed : SUBSET [key : Keys, line : LineId],
               cursor : [Runs -> Nat]]
    /\ faults \in 0..MaxFaults

-----------------------------------------------------------------------------
(* The parts of the invariant.  A source is clean while the file has no    *)
(* line of another run under it.                                           *)

Stamp(run, i)  == script[run][i].stamp
Clean(run)     == Foreign(run) = {}
Queued(run, i) == \E n \in DOMAIN pending : pending[n].key = LineKey(run, i)

\* A record, on its way or on disk, is a line of a run under its ordinal.
IsLine(k) == \E run \in Runs : [k EXCEPT !.src = run] \in KeysOf(run)

\* More: a record has the key that its own line has in the whole log.
OwnLine(x) ==
    /\ x.line.n \in 1..written[x.line.run]
    /\ [x.key EXCEPT !.src = x.line.run] = LineKey(x.line.run, x.line.n)

Lines == /\ \A k \in db.keys : IsLine(k)
         /\ \A n \in DOMAIN pending : /\ IsLine(pending[n].key)
                                      /\ pending[n].cursor = pending[n].key.stamp

Filed == /\ \A k \in db.keys : \E f \in db.filed : f.key = k
         /\ \A f \in db.filed : OwnLine(f)
         /\ \A n \in DOMAIN pending : OwnLine(pending[n])

\* The cursor of a clean source is the stamp of one of its lines.
Anchored(run, since) == since = 0 \/ \E j \in 1..written[run] : since = Stamp(run, j) - Second

Cursors == \A run \in Runs : Clean(run) => Anchored(run, Since(db.cursor[run]))

\* A record that waits moves the cursor past no line but those before it.
Queue == \A n \in DOMAIN pending : \A run \in Runs : \A j \in 1..written[run] :
    Clean(run) /\ pending[n].key = LineKey(run, j) =>
        \A i \in 1..(j - 1) :
            \/ Archived(run, i)
            \/ \E m \in 1..(n - 1) : pending[m].key = LineKey(run, i)
            \/ Stamp(run, i) >= Stamp(run, j) - Second

\* What a reader does not ask for is archived; what it has passed is archived
\* or waits.
Skips(r) ==
    Clean(Source(r)) /\ reader[r].at \in {"request", "read"} =>
        /\ Anchored(Source(r), reader[r].since)
        /\ \A i \in 1..written[Source(r)] :
              Stamp(Source(r), i) >= reader[r].since \/ Archived(Source(r), i)

Passed(r) ==
    Clean(Source(r)) /\ reader[r].at = "read" /\ reader[r].target = Source(r) =>
        \A i \in 1..reader[r].pos : Archived(Source(r), i) \/ Queued(Source(r), i)

ReadersKeep == \A r \in Readers : Skips(r) /\ Passed(r)

IInv == Typed /\ Lines /\ Filed /\ Cursors /\ Queue /\ ReadersKeep /\ UnarchivedInReach

-----------------------------------------------------------------------------
(* Lines and ordinals.                                                     *)

Less == OpToRel(<, Nat)

LEMMA LeastExists ==
    ASSUME NEW S \in SUBSET Nat, S # {}
    PROVE  \E m \in S : \A i \in S : m <= i
<1>1. PICK m \in S : \A i \in S : <<i, m>> \notin Less
  BY NatLessThanWellFounded, WFMin DEF Less
<1>2. ASSUME NEW i \in S PROVE m <= i
  <2>1. <<i, m>> \in Nat \X Nat /\ <<i, m>>[1] = i /\ <<i, m>>[2] = m
    OBVIOUS
  <2>2. ~(i < m)
    BY <1>1, <2>1 DEF Less, OpToRel
  <2> QED
    BY <2>2
<1> QED
  BY <1>2

LEMMA LineFacts ==
    ASSUME Typed, NEW run \in Runs
    PROVE  /\ script[run] \in Seq(Line)
           /\ DOMAIN script[run] = 1..Len(script[run]) /\ Len(script[run]) \in Nat
           /\ written[run] \in Nat /\ written[run] <= Len(script[run])
           /\ \A i \in 1..Len(script[run]) :
                 /\ i \in DOMAIN script[run]
                 /\ script[run][i] \in Line
                 /\ Stamp(run, i) \in Nat \ {0}
                 /\ script[run][i].text \in STRING
<1>1. script \in [Runs -> Seq([stamp : Nat \ {0}, text : STRING])]
  BY LogAssumption DEF Typed
<1>2. script[run] \in Seq(Line)
  BY <1>1 DEF Line
<1>3. \A i \in 1..Len(script[run]) : script[run][i] \in Line
  BY <1>2
<1> QED
  BY <1>2, <1>3 DEF Typed, Line, Stamp

\* The clock: a line is not further back than the overlap before an earlier one.
LEMMA Clock ==
    ASSUME Typed, NEW run \in Runs, NEW i \in 1..Len(script[run]), NEW j \in 1..Len(script[run]), i < j
    PROVE  /\ Stamp(run, i) - Second <= Stamp(run, j)
           /\ script[run][i] = script[run][j] =>
                 \A m \in i..j : Stamp(run, m) = Stamp(run, i)
<1>1. script \in Scripts /\ i \in DOMAIN script[run] /\ j \in DOMAIN script[run]
  BY LineFacts DEF Typed
<1>2. /\ script[run][i].stamp - Second <= script[run][j].stamp
      /\ script[run][i] = script[run][j] =>
            \A m \in i..j : script[run][m].stamp = script[run][i].stamp
  BY <1>1, ClockAssumption
<1> QED
  BY <1>2 DEF Stamp

LEMMA OrdinalType ==
    ASSUME NEW n \in Nat, NEW D \in SUBSET (1..n), NEW lines, NEW i
    PROVE  Ordinal(lines, D, i) \in Nat
<1> DEFINE T == {j \in D : /\ j < i /\ lines[j].text = lines[i].text
                           /\ \A m \in D : j <= m /\ m <= i => lines[m].stamp = lines[i].stamp}
<1>1. IsFiniteSet(1..n)
  BY FS_Interval
<1>2. T \in SUBSET (1..n)
  OBVIOUS
<1> HIDE DEF T
<1>3. IsFiniteSet(T)
  BY <1>1, <1>2, FS_Subset
<1>4. Cardinality(T) \in Nat
  BY <1>3, FS_CardinalityType
<1> QED
  BY <1>4 DEF Ordinal, T

\* A request that leaves out earlier lines gives the ordinal of the whole log.
LEMMA OrdinalOfPart ==
    ASSUME Typed, NEW run \in Runs, NEW i \in 1..Len(script[run]), NEW since \in Int,
           Stamp(run, i) >= since
    PROVE  LET D == {n \in 1..i : script[run][n].stamp >= since}
           IN  Ordinal(script[run], D, i) = Ordinal(script[run], 1..i, i)
<1> DEFINE s == script[run]
           D == {n \in 1..i : s[n].stamp >= since}
           Count(E) == {j \in E : /\ j < i /\ s[j].text = s[i].text
                                  /\ \A m \in E : j <= m /\ m <= i => s[m].stamp = s[i].stamp}
<1>1. \A m \in 1..i : m \in 1..Len(s) /\ s[m] \in Line /\ s[m].stamp \in Nat
  BY LineFacts DEF Line
<1>2. ASSUME NEW j \in Count(D) PROVE j \in Count(1..i)
  <2>1. j \in D /\ j < i /\ s[j].text = s[i].text /\ s[j].stamp = s[i].stamp
    BY <1>1, <1>2
  <2>2. s[j] = s[i]
    BY <1>1, <2>1 DEF Line
  <2>3. \A m \in j..i : s[m].stamp = s[j].stamp
    BY <1>1, <2>1, <2>2, Clock DEF Stamp
  <2> QED
    BY <1>1, <2>1, <2>3
<1>3. ASSUME NEW j \in Count(1..i) PROVE j \in Count(D)
  <2>1. j \in 1..i /\ j < i /\ s[j].text = s[i].text /\ s[j].stamp = s[i].stamp
    BY <1>3
  <2>2. s[i].stamp >= since
    BY DEF Stamp
  <2>3. j \in D
    BY <2>1, <2>2
  <2> QED
    BY <1>3, <2>3
<1>4. Count(D) = Count(1..i)
  BY <1>2, <1>3
<1> QED
  BY <1>4 DEF Ordinal

LEMMA KeyFields ==
    ASSUME NEW src, NEW lines, NEW D, NEW i
    PROVE  /\ Key(src, lines, D, i).src = src
           /\ Key(src, lines, D, i).stamp = lines[i].stamp
           /\ Key(src, lines, D, i).text = lines[i].text
           /\ \A other : [Key(src, lines, D, i) EXCEPT !.src = other] = Key(other, lines, D, i)
BY DEF Key

\* No two runs have a line in common.
LEMMA RunOfLine ==
    ASSUME Typed, NEW run \in Runs, NEW other \in Runs,
           NEW i \in 1..Len(script[run]), NEW j \in 1..Len(script[other]),
           Stamp(run, i) = Stamp(other, j), script[run][i].text = script[other][j].text
    PROVE  run = other
<1>1. script[run][i] \in Line /\ script[other][j] \in Line
  BY LineFacts
<1>2. script[run][i] = script[other][j]
  BY <1>1 DEF Line, Stamp
<1>3. i \in DOMAIN script[run] /\ j \in DOMAIN script[other] /\ script \in Scripts
  BY LineFacts DEF Typed
<1> QED
  BY <1>2, <1>3, RunsDiffer

\* Two lines of one key in a run: what lies behind the first is in the reach of
\* the second.
LEMMA SameKeyReach ==
    ASSUME Typed, NEW run \in Runs, NEW j \in 1..Len(script[run]), NEW k \in 1..Len(script[run]),
           LineKey(run, j) = LineKey(run, k), NEW i \in j..(k - 1)
    PROVE  Stamp(run, i) >= Stamp(run, k) - Second
<1>1. Stamp(run, j) = Stamp(run, k)
  BY KeyFields DEF LineKey, Stamp
<1>2. i \in 1..Len(script[run])
  BY LineFacts
<1>3. Stamp(run, i) \in Nat /\ Stamp(run, j) \in Nat /\ Second \in Nat
  BY <1>2, LineFacts, LogAssumption
<1>4. CASE i = j
  BY <1>1, <1>3, <1>4
<1>5. CASE j < i
  BY <1>1, <1>2, <1>3, <1>5, Clock
<1> QED
  BY <1>4, <1>5

-----------------------------------------------------------------------------
(* Steps of readers.                                                       *)

LEMMA ReaderFacts ==
    ASSUME Typed, NEW r \in Readers
    PROVE  /\ Source(r) \in Runs /\ r[1] \in Tasks /\ r[1].previous \in BOOLEAN
           /\ r[1].previous => r[1].src < MaxRestarts
           /\ reader[r] \in Reader
           /\ reader[r].at = "read" => reader[r].pos <= written[reader[r].target]
           /\ DOMAIN reader = Readers
<1>1. r \in Tasks \X Generations
  BY DEF Readers
<1> QED
  BY <1>1 DEF Typed, Tasks, Source

LEMMA LinesStay ==
    ASSUME UNCHANGED script
    PROVE  \A run, i : LineKey(run, i)' = LineKey(run, i) /\ Stamp(run, i)' = Stamp(run, i)
BY DEF LineKey, Key, Ordinal, Stamp

LEMMA HistoryStays ==
    ASSUME UNCHANGED <<script, written, db>>
    PROVE  /\ \A run : KeysOf(run)' = KeysOf(run) /\ Foreign(run)' = Foreign(run)
           /\ \A run : Clean(run)' = Clean(run)
           /\ \A run, i : Archived(run, i)' = Archived(run, i)
           /\ \A run, since : Anchored(run, since)' = Anchored(run, since)
           /\ UnarchivedInReach' = UnarchivedInReach
           /\ \A k : IsLine(k)' = IsLine(k)
           /\ \A x : OwnLine(x)' = OwnLine(x)
<1>1. \A run : KeysOf(run)' = KeysOf(run)
  BY LinesStay DEF KeysOf
<1>2. \A run : Foreign(run)' = Foreign(run)
  BY <1>1 DEF Foreign
<1>3. \A run, i : Archived(run, i)' = Archived(run, i)
  BY LinesStay DEF Archived
<1>4. \A run, since : Anchored(run, since)' = Anchored(run, since)
  BY LinesStay DEF Anchored
<1>5. UnarchivedInReach' = UnarchivedInReach
  BY <1>2, <1>3 DEF UnarchivedInReach, InReach
<1>6. \A k : IsLine(k)' = IsLine(k)
  BY <1>1 DEF IsLine
<1>7. \A x : OwnLine(x)' = OwnLine(x)
  BY LinesStay DEF OwnLine
<1> QED
  BY <1>1, <1>2, <1>3, <1>4, <1>5, <1>6, <1>7 DEF Clean

\* What a step of the kubelet, the watch or a reader does to a reader.
Idles(r)   == reader'[r].at \notin {"request", "read"}
Asks(r)    == reader'[r].at = "request" /\ reader'[r].since = Since(db.cursor[Source(r)])
Answers(r) == /\ reader[r].at = "request" /\ reader'[r].at = "read"
              /\ reader'[r].since = reader[r].since /\ reader'[r].pos = 0
Stays(r)   == /\ reader'[r].at = reader[r].at /\ reader'[r].since = reader[r].since
              /\ reader'[r].target = reader[r].target /\ reader'[r].pos = reader[r].pos

Steps == \A r \in Readers : Idles(r) \/ Asks(r) \/ Answers(r) \/ Stays(r)

\* The cursor on disk leaves nothing behind: a reader may start from it.
LEMMA CursorIsSafe ==
    ASSUME IInv, NEW run \in Runs, Clean(run)
    PROVE  /\ Anchored(run, Since(db.cursor[run]))
           /\ \A i \in 1..written[run] :
                 Stamp(run, i) >= Since(db.cursor[run]) \/ Archived(run, i)
BY DEF IInv, Cursors, UnarchivedInReach, Clean, InReach, Stamp

LEMMA StepsKeep ==
    ASSUME IInv, Steps, Typed', UNCHANGED <<script, written, pending, db>>
    PROVE  IInv'
<1>1. Lines' /\ Filed' /\ Cursors' /\ UnarchivedInReach'
  BY HistoryStays DEF IInv, Lines, Filed, Cursors
<1>2. Queue'
  BY HistoryStays, LinesStay DEF IInv, Queue
<1>3. ASSUME NEW r \in Readers PROVE Skips(r)' /\ Passed(r)'
  <2>1. Source(r) \in Runs /\ Source(r)' = Source(r)
    BY ReaderFacts DEF IInv, Source
  <2>2. Skips(r) /\ Passed(r)
    BY DEF IInv, ReadersKeep
  <2>3. \A i : Queued(Source(r), i)' = Queued(Source(r), i)
    BY LinesStay, <2>1 DEF Queued
  <2>4. CASE Idles(r)
    BY <2>4 DEF Idles, Skips, Passed
  <2>5. CASE Asks(r)
    BY <2>1, <2>5, HistoryStays, LinesStay, CursorIsSafe DEF Asks, Skips, Passed
  <2>6. CASE Answers(r)
    BY <2>1, <2>2, <2>6, HistoryStays, LinesStay DEF Answers, Skips, Passed
  <2>7. CASE Stays(r)
    BY <2>1, <2>2, <2>3, <2>7, HistoryStays, LinesStay DEF Stays, Skips, Passed
  <2> QED
    BY <2>4, <2>5, <2>6, <2>7 DEF Steps
<1> QED
  BY <1>1, <1>2, <1>3 DEF IInv, ReadersKeep

\* One reader moves and the others stay.
LEMMA OneMoves ==
    ASSUME Typed, NEW r \in Readers, NEW x \in Reader,
           reader' = [reader EXCEPT ![r] = x],
           UNCHANGED <<script, written, restart, state, pending, db>>, faults' \in 0..MaxFaults,
           x.at = "read" => x.pos <= written[x.target],
           Idles(r) \/ Asks(r) \/ Answers(r) \/ Stays(r)
    PROVE  Typed' /\ Steps
<1>1. /\ reader' \in [Readers -> Reader]
      /\ reader'[r] = x /\ \A q \in Readers : q # r => reader'[q] = reader[q]
  BY DEF Typed
<1>2. \A q \in Readers : q # r => Stays(q)
  BY <1>1 DEF Stays
<1>3. \A q \in Readers : reader'[q].at = "read" => reader'[q].pos <= written'[reader'[q].target]
  BY <1>1 DEF Typed
<1> QED
  BY <1>1, <1>2, <1>3 DEF Typed, Steps

LEMMA FreeIsReader == Free \in Reader /\ Free.at = "free"
BY LogAssumption DEF Free, Reader, Runs

LEMMA DisruptType ==
    ASSUME Typed
    PROVE  Disrupt => faults' \in 0..MaxFaults
BY LogAssumption DEF Typed, Disrupt

LEMMA MoveSteps ==
    ASSUME Typed, NEW r \in Readers, NEW where \in {"ended", "queued"}, Move(r, where),
           UNCHANGED <<kubelet, pending, db>>, faults' \in 0..MaxFaults
    PROVE  Typed' /\ Steps
<1> DEFINE x == [Free EXCEPT !.at = where, !.terminated = reader[r].terminated]
<1>1. x \in Reader /\ x.at = where
  <2>1. reader[r].terminated \in BOOLEAN
    BY ReaderFacts DEF Reader
  <2> QED
    BY <2>1, FreeIsReader DEF Reader
<1>2. reader' = [reader EXCEPT ![r] = x]
  BY DEF Move
<1> HIDE DEF x
<1>3. Idles(r)
  BY <1>1, <1>2, ReaderFacts DEF Idles
<1> QED
  BY <1>1, <1>2, <1>3, OneMoves DEF kubelet

LEMMA ReaderSteps ==
    ASSUME IInv, NEW r \in Readers,
           TakeSlot(r) \/ GetLog(r) \/ EndOfLog(r) \/ Rotate(r) \/ PreviousGone(r)
           \/ RequestFails(r) \/ Quit(r)
    PROVE  Typed' /\ Steps /\ UNCHANGED <<script, written, pending, db>>
<1>0. Typed
  BY DEF IInv
<1>1. Typed /\ reader[r] \in Reader /\ Source(r) \in Runs
  BY <1>0, ReaderFacts
<1>2. CASE TakeSlot(r)
  <2> DEFINE x == [reader[r] EXCEPT !.at = "request", !.since = Since(db.cursor[Source(r)])]
  <2>1. Since(db.cursor[Source(r)]) \in Int
    BY <1>1, LogAssumption DEF Typed, Since
  <2>2. /\ x \in Reader /\ x.at = "request" /\ x.since = Since(db.cursor[Source(r)])
        /\ reader' = [reader EXCEPT ![r] = x]
    BY <1>1, <1>2, <2>1 DEF TakeSlot, Reader
  <2> HIDE DEF x
  <2>3. Asks(r)
    BY <1>1, <2>2, ReaderFacts DEF Asks
  <2> QED
    BY <1>1, <1>2, <2>2, <2>3, OneMoves DEF TakeSlot, kubelet, Typed
<1>3. CASE GetLog(r)
  <2> DEFINE t == IF r[1].previous THEN restart - 1 ELSE restart
             x == [reader[r] EXCEPT !.at = "read", !.pos = 0, !.target = t]
  <2>1. t \in Runs
    BY <1>1, <1>3, LogAssumption DEF GetLog, Typed, Runs
  <2>2. /\ x \in Reader /\ x.at = "read" /\ x.since = reader[r].since /\ x.pos = 0 /\ x.target = t
        /\ reader' = [reader EXCEPT ![r] = x]
    BY <1>1, <1>3, <2>1 DEF GetLog, Reader
  <2>3. written[t] \in Nat
    BY <1>1, <2>1 DEF Typed
  <2> HIDE DEF x
  <2>4. Answers(r)
    BY <1>1, <1>3, <2>2, ReaderFacts DEF Answers, GetLog, At
  <2>5. x.pos <= written[x.target]
    BY <2>2, <2>3
  <2>6. UNCHANGED <<script, written, restart, state, pending, db>> /\ faults' \in 0..MaxFaults
    BY <1>1, <1>3 DEF GetLog, kubelet, Typed
  <2> QED
    BY <1>1, <2>2, <2>4, <2>5, <2>6, OneMoves
<1>4. CASE EndOfLog(r) \/ Rotate(r) \/ PreviousGone(r) \/ RequestFails(r)
  <2>1. /\ UNCHANGED <<kubelet, pending, db>> /\ faults' \in 0..MaxFaults
        /\ \E where \in {"ended", "queued"} : Move(r, where)
    <3>1. CASE EndOfLog(r) \/ Rotate(r)
      BY <1>1, <3>1, DisruptType DEF EndOfLog, Rotate, Finish, Typed
    <3>2. CASE PreviousGone(r) \/ RequestFails(r)
      BY <1>1, <3>2, DisruptType DEF PreviousGone, RequestFails, Typed
    <3> QED
      BY <1>4, <3>1, <3>2
  <2> QED
    BY <1>1, <2>1, MoveSteps DEF kubelet
<1>5. CASE Quit(r)
  <2>1. reader' = [reader EXCEPT ![r] = Free] /\ Idles(r)
    BY <1>1, <1>5, FreeIsReader, ReaderFacts DEF Quit, Idles
  <2> QED
    BY <1>1, <1>5, <2>1, FreeIsReader, OneMoves DEF Quit, kubelet, Typed
<1> QED
  BY <1>2, <1>3, <1>4, <1>5

\* The watch of the pod launches and cancels; the kubelet moves on.
LEMMA WatchSteps ==
    ASSUME IInv, Transition \/ Delete \/ podChanged \/ reset
    PROVE  Typed' /\ Steps /\ UNCHANGED <<script, written, pending, db>>
<1>0. Typed
  BY DEF IInv
<1>1. Typed /\ \A r \in Readers : reader[r] \in Reader
  BY <1>0, ReaderFacts
<1>2. CASE Transition \/ Delete
  <2>1. UNCHANGED <<script, written, reader, pending, db>> /\ faults' \in 0..MaxFaults
    BY <1>1, <1>2, DisruptType DEF Transition, Delete, Typed
  <2>2. restart' \in Runs /\ state' \in {"waiting", "running", "terminated", "deleted"}
    <3>1. restart \in 0..MaxRestarts /\ MaxRestarts \in Nat /\ state \in {"waiting", "running", "terminated", "deleted"}
      BY <1>1, LogAssumption DEF Typed, Runs
    <3>2. CASE Transition
      BY <3>1, <3>2 DEF Transition, Runs
    <3>3. CASE Delete
      BY <3>1, <3>3 DEF Delete, Runs
    <3> QED
      BY <1>2, <3>2, <3>3
  <2> QED
    BY <1>1, <2>1, <2>2 DEF Typed, Steps, Stays
<1>3. CASE podChanged \/ reset
  <2> DEFINE Fresh(r)     == reader'[r] = [Free EXCEPT !.at = "queued",
                                             !.terminated = (state = "terminated")]
             Cancelled(r) == reader'[r] = [reader[r] EXCEPT !.cancelled = TRUE]
  <2>1. /\ UNCHANGED <<kubelet, pending, db>> /\ faults' \in 0..MaxFaults
        /\ reader' = [r \in Readers |-> reader'[r]]
        /\ \A r \in Readers : Fresh(r) \/ Cancelled(r) \/ reader'[r] = reader[r]
    <3>1. CASE podChanged
      BY <1>1, <3>1 DEF podChanged, Typed
    <3>2. CASE reset
      BY <1>1, <3>2, DisruptType DEF reset, Typed
    <3> QED
      BY <1>3, <3>1, <3>2
  <2>2. ASSUME NEW r \in Readers
        PROVE  /\ reader'[r] \in Reader
               /\ Idles(r) \/ Stays(r)
    <3>1. CASE Fresh(r)
      <4>1. [Free EXCEPT !.at = "queued", !.terminated = (state = "terminated")] \in Reader
        BY FreeIsReader DEF Reader
      <4>2. [Free EXCEPT !.at = "queued", !.terminated = (state = "terminated")].at = "queued"
        BY DEF Free
      <4> QED
        BY <3>1, <4>1, <4>2 DEF Idles
    <3>2. CASE Cancelled(r)
      BY <1>1, <3>2 DEF Reader, Stays
    <3>3. CASE reader'[r] = reader[r]
      BY <1>1, <3>3 DEF Stays
    <3> QED
      BY <2>1, <3>1, <3>2, <3>3
  <2>3. reader' \in [Readers -> Reader]
    BY <2>1, <2>2
  <2>4. \A r \in Readers : reader'[r].at = "read" => reader'[r].pos <= written'[reader'[r].target]
    BY <1>1, <2>1, <2>2 DEF Idles, Stays, Typed, kubelet
  <2> QED
    BY <1>1, <2>1, <2>2, <2>3, <2>4 DEF Typed, Steps, kubelet
<1> QED
  BY <1>2, <1>3

-----------------------------------------------------------------------------
(* A line is read, a line is written, a record is committed.               *)

\* The line a reader is given next, and what it has left out before it.
LEMMA NextServed ==
    ASSUME Typed, NEW r \in Readers, reader[r].at = "read", Served(r) # {},
           NEW i, i = CHOOSE n \in Served(r) : \A m \in Served(r) : n <= m
    PROVE  /\ reader[r].target \in Runs
           /\ i \in 1..written[reader[r].target] /\ reader[r].pos < i
           /\ Stamp(reader[r].target, i) >= reader[r].since
           /\ \A m \in 1..(i - 1) : m <= reader[r].pos \/ ~(Stamp(reader[r].target, m) >= reader[r].since)
<1> DEFINE T == reader[r].target
<1>1. reader[r] \in Reader
  BY ReaderFacts
<1>2. T \in Runs /\ reader[r].pos \in Nat /\ reader[r].since \in Int
  BY <1>1 DEF Reader
<1>3. written[T] \in Nat
  BY <1>2, LineFacts
<1>4. Served(r) \in SUBSET Nat
  BY <1>2, <1>3 DEF Served
<1>5. i \in Served(r) /\ \A m \in Served(r) : i <= m
  BY <1>4, LeastExists
<1>6. i \in (reader[r].pos + 1)..written[T] /\ Stamp(T, i) >= reader[r].since
  BY <1>5 DEF Served, Stamp
<1>7. ASSUME NEW m \in 1..(i - 1), ~(m <= reader[r].pos), Stamp(T, m) >= reader[r].since
      PROVE  FALSE
  <2>1. m \in (reader[r].pos + 1)..written[T]
    BY <1>2, <1>3, <1>6, <1>7
  <2>2. m \in Served(r)
    BY <1>7, <2>1 DEF Served, Stamp
  <2>3. i <= m /\ m < i
    BY <1>2, <1>3, <1>5, <1>6, <1>7, <2>2
  <2> QED
    BY <1>2, <1>3, <1>6, <1>7, <2>3
<1> QED
  BY <1>2, <1>3, <1>6, <1>7

\* Everything before that line is archived or waits.
LEMMA BehindReader ==
    ASSUME IInv, NEW r \in Readers, reader[r].at = "read", Served(r) # {},
           reader[r].target = Source(r), Clean(Source(r)),
           NEW i, i = CHOOSE n \in Served(r) : \A m \in Served(r) : n <= m,
           NEW x \in 1..(i - 1)
    PROVE  Archived(Source(r), x) \/ Queued(Source(r), x)
<1>1. Typed /\ Skips(r) /\ Passed(r)
  BY DEF IInv, ReadersKeep
<1>2. /\ Source(r) \in Runs /\ i \in 1..written[Source(r)]
      /\ x <= reader[r].pos \/ ~(Stamp(Source(r), x) >= reader[r].since)
  BY <1>1, NextServed
<1>3. /\ written[Source(r)] \in Nat
      /\ reader[r].pos \in Nat
  BY <1>1, <1>2, LineFacts, ReaderFacts DEF Reader
<1>4. x \in 1..written[Source(r)]
  BY <1>2, <1>3
<1>5. CASE x <= reader[r].pos
  BY <1>1, <1>3, <1>5 DEF Passed
<1>6. CASE ~(Stamp(Source(r), x) >= reader[r].since)
  BY <1>1, <1>4, <1>6 DEF Skips
<1> QED
  BY <1>2, <1>5, <1>6

LEMMA ReadLineKeeps ==
    ASSUME IInv, NEW r \in Readers, ReadLine(r)
    PROVE  IInv'
<1> DEFINE T == reader[r].target
           L == Len(pending)
           i == CHOOSE n \in Served(r) : \A m \in Served(r) : n <= m
           D == {n \in 1..i : script[T][n].stamp >= reader[r].since}
           e == [key |-> Key(Source(r), script[T], D, i), line |-> [run |-> T, n |-> i],
                 cursor |-> script[T][i].stamp]
<1>1. /\ reader[r].at = "read" /\ L < QueueCap /\ Served(r) # {}
      /\ pending' = Append(pending, e)
      /\ reader' = [reader EXCEPT ![r].pos = i]
      /\ UNCHANGED <<script, written, restart, state, db, faults>>
  BY DEF ReadLine, kubelet
<1>2. /\ Typed /\ Source(r) \in Runs /\ reader[r] \in Reader
  BY ReaderFacts DEF IInv
<1>3. /\ T \in Runs /\ i \in 1..written[T] /\ reader[r].pos < i
      /\ Stamp(T, i) >= reader[r].since
  BY <1>1, <1>2, NextServed
<1>4. \A x \in 1..(i - 1) : T = Source(r) /\ Clean(Source(r)) =>
         Archived(Source(r), x) \/ Queued(Source(r), x)
  BY <1>1, BehindReader
<1>5. /\ i \in 1..Len(script[T]) /\ script[T][i] \in Line /\ Stamp(T, i) \in Nat \ {0}
      /\ written[T] \in Nat
  BY <1>2, <1>3, LineFacts
<1> HIDE DEF i
<1>6. e.key = Key(Source(r), script[T], 1..i, i)
  <2>1. reader[r].since \in Int
    BY <1>2 DEF Reader
  <2>2. Ordinal(script[T], D, i) = Ordinal(script[T], 1..i, i)
    BY <1>2, <1>3, <1>5, <2>1, OrdinalOfPart
  <2> QED
    BY <2>2 DEF Key
<1>7. e \in Record /\ e.cursor = e.key.stamp /\ e.line = [run |-> T, n |-> i]
  <2>1. Ordinal(script[T], D, i) \in Nat
    BY <1>3, <1>5, OrdinalType
  <2>2. Key(Source(r), script[T], D, i) \in Keys
    BY <1>2, <1>5, <2>1 DEF Keys, Key, Line, Stamp
  <2>3. [run |-> T, n |-> i] \in LineId
    BY <1>3, <1>5 DEF LineId
  <2>4. script[T][i].stamp \in Nat \ {0} /\ Key(Source(r), script[T], D, i).stamp = script[T][i].stamp
    BY <1>5, KeyFields DEF Stamp
  <2> QED
    BY <2>2, <2>3, <2>4 DEF Record
<1> HIDE DEF e
<1>8. /\ pending' \in Seq(Record) /\ Len(pending') = L + 1 /\ L \in Nat
      /\ DOMAIN pending' = 1..(L + 1) /\ DOMAIN pending = 1..L
      /\ \A n \in 1..L : pending'[n] = pending[n]
      /\ pending'[L + 1] = e
  BY <1>1, <1>2, <1>7 DEF Typed
<1>9. /\ reader' \in [Readers -> Reader]
      /\ \A q \in Readers : q # r => reader'[q] = reader[q]
      /\ reader'[r].at = "read" /\ reader'[r].since = reader[r].since
      /\ reader'[r].target = T /\ reader'[r].pos = i
  <2>1. i \in Nat
    BY <1>3, <1>5
  <2>2. reader' = [reader EXCEPT ![r] = [reader[r] EXCEPT !.pos = i]]
    BY <1>1
  <2>3. [reader[r] EXCEPT !.pos = i] \in Reader
    BY <1>2, <2>1 DEF Reader
  <2> QED
    BY <1>1, <1>2, <2>2, <2>3 DEF Typed, Reader
<1>10. Typed'
  <2>1. \A q \in Readers : reader'[q].at = "read" => reader'[q].pos <= written'[reader'[q].target]
    BY <1>1, <1>2, <1>3, <1>5, <1>9 DEF Typed
  <2>2. L + 1 <= QueueCap
    BY <1>1, <1>8, LogAssumption
  <2> QED
    BY <1>1, <1>2, <1>8, <1>9, <2>1, <2>2 DEF Typed
<1>11. Lines' /\ Filed' /\ Cursors' /\ UnarchivedInReach'
  <2>1. IsLine(e.key)
    <3>1. [e.key EXCEPT !.src = T] = LineKey(T, i)
      BY <1>6, KeyFields DEF LineKey
    <3> QED
      BY <1>3, <3>1 DEF IsLine, KeysOf
  <2>2. \A n \in DOMAIN pending' : IsLine(pending'[n].key) /\ pending'[n].cursor = pending'[n].key.stamp
    BY <1>7, <1>8, <2>1 DEF IInv, Lines
  <2>3. OwnLine(e)
    BY <1>3, <1>6, <1>7, KeyFields DEF OwnLine, LineKey
  <2>4. \A n \in DOMAIN pending' : OwnLine(pending'[n])
    BY <1>8, <2>3 DEF IInv, Filed
  <2> QED
    BY <1>1, <2>2, <2>4, HistoryStays DEF IInv, Lines, Filed, Cursors
<1>12. \A run, x : Queued(run, x) => Queued(run, x)'
  BY <1>1, <1>8, LinesStay DEF Queued
<1>13. Queue'
  <2> SUFFICES ASSUME NEW n \in 1..(L + 1), NEW run \in Runs, NEW j \in 1..written[run],
                      Clean(run), pending'[n].key = LineKey(run, j), NEW x \in 1..(j - 1)
               PROVE  \/ Archived(run, x)
                      \/ \E m \in 1..(n - 1) : pending'[m].key = LineKey(run, x)
                      \/ Stamp(run, x) >= Stamp(run, j) - Second
    BY <1>1, <1>8, HistoryStays, LinesStay DEF Queue
  <2>1. CASE n \in 1..L
    <3>1. \/ Archived(run, x)
          \/ \E m \in 1..(n - 1) : pending[m].key = LineKey(run, x)
          \/ Stamp(run, x) >= Stamp(run, j) - Second
      BY <1>8, <2>1 DEF IInv, Queue
    <3>2. \A m \in 1..(n - 1) : pending'[m] = pending[m]
      BY <1>8, <2>1
    <3> QED
      BY <3>1, <3>2
  <2>2. CASE n = L + 1
    <3>1. j \in 1..Len(script[run]) /\ written[run] \in Nat
      BY <1>2, LineFacts
    <3>2. Key(Source(r), script[T], 1..i, i) = LineKey(run, j)
      BY <1>6, <1>8, <2>2
    <3>3. /\ Source(r) = run /\ Stamp(T, i) = Stamp(run, j)
          /\ script[T][i].text = script[run][j].text
      BY <3>2, KeyFields DEF LineKey, Stamp
    <3>4. T = run
      BY <1>2, <1>3, <1>5, <3>1, <3>3, RunOfLine
    <3>5. CASE x < i
      <4>1. x \in 1..(i - 1)
        BY <1>3, <1>5, <3>1, <3>5
      <4>2. Archived(run, x) \/ \E m \in 1..L : pending[m].key = LineKey(run, x)
        BY <1>4, <1>8, <3>3, <3>4, <4>1 DEF Queued
      <4>3. (L + 1) - 1 = L
        BY <1>8
      <4> QED
        BY <1>8, <2>2, <4>2, <4>3
    <3>6. CASE i <= x
      <4>1. x \in i..(j - 1)
        BY <1>3, <1>5, <3>1, <3>6
      <4>2. LineKey(run, i) = LineKey(run, j)
        BY <3>2, <3>3, <3>4 DEF LineKey
      <4> QED
        BY <1>2, <1>5, <3>1, <3>4, <4>1, <4>2, SameKeyReach
    <3> QED
      BY <1>3, <1>5, <3>1, <3>5, <3>6
  <2> QED
    BY <1>8, <2>1, <2>2
<1>14. ASSUME NEW q \in Readers PROVE Skips(q)' /\ Passed(q)'
  <2>1. Skips(q) /\ Passed(q) /\ Source(q) \in Runs /\ Source(q)' = Source(q)
    BY <1>2, ReaderFacts DEF IInv, ReadersKeep, Source
  <2>2. Skips(q)'
    BY <1>1, <1>9, <2>1, HistoryStays, LinesStay DEF Skips
  <2>3. CASE q # r
    BY <1>1, <1>9, <1>12, <2>1, <2>2, <2>3, HistoryStays DEF Passed
  <2>4. CASE q = r
    <3> SUFFICES ASSUME Clean(Source(r)), T = Source(r), NEW x \in 1..i
                 PROVE  Archived(Source(r), x) \/ Queued(Source(r), x)'
      BY <1>1, <1>9, <2>1, <2>2, <2>4, HistoryStays DEF Passed
    <3>1. CASE x = i
      <4>1. pending'[L + 1].key = LineKey(Source(r), x)
        BY <1>6, <1>8, <3>1 DEF LineKey
      <4>2. L + 1 \in DOMAIN pending'
        BY <1>8
      <4> QED
        BY <1>1, <4>1, <4>2, LinesStay DEF Queued
    <3>2. CASE x # i
      <4>1. x \in 1..(i - 1)
        BY <1>3, <1>5, <3>2
      <4> QED
        BY <1>4, <1>12, <4>1
    <3> QED
      BY <3>1, <3>2
  <2> QED
    BY <2>2, <2>3, <2>4
<1> QED
  BY <1>10, <1>11, <1>13, <1>14 DEF IInv, ReadersKeep

\* A line that follows one of the log is in the reach of what began at that one.
LEMMA AnchoredReach ==
    ASSUME Typed, NEW run \in Runs, NEW since, Anchored(run, since),
           NEW i \in 1..Len(script[run]), written[run] < i
    PROVE  Stamp(run, i) >= since
<1>1. written[run] \in Nat /\ Stamp(run, i) \in Nat
  BY LineFacts
<1>2. CASE since = 0
  BY <1>1, <1>2
<1>3. CASE \E j \in 1..written[run] : since = Stamp(run, j) - Second
  <2>1. PICK j \in 1..written[run] : since = Stamp(run, j) - Second
    BY <1>3
  <2>2. j \in 1..Len(script[run]) /\ j < i
    BY <1>1, <2>1, LineFacts
  <2>3. Stamp(run, j) \in Nat /\ Second \in Nat
    BY <2>2, LineFacts, LogAssumption
  <2> QED
    BY <1>1, <2>1, <2>2, <2>3, Clock
<1> QED
  BY <1>2, <1>3 DEF Anchored

\* Records and lines of the same key belong to the same run.
LEMMA KeyOfRun ==
    ASSUME Typed, NEW run \in Runs, NEW i \in 1..Len(script[run]), IsLine(LineKey(run, i))
    PROVE  LineKey(run, i) \in KeysOf(run)
<1>1. PICK other \in Runs : [LineKey(run, i) EXCEPT !.src = other] \in KeysOf(other)
  BY DEF IsLine
<1>2. PICK j \in 1..written[other] : [LineKey(run, i) EXCEPT !.src = other] = LineKey(other, j)
  BY <1>1 DEF KeysOf
<1>3. Key(other, script[run], 1..i, i) = Key(other, script[other], 1..j, j)
  BY <1>2, KeyFields DEF LineKey
<1>4. Stamp(run, i) = Stamp(other, j) /\ script[run][i].text = script[other][j].text
  BY <1>3, KeyFields DEF Stamp
<1>5. j \in 1..Len(script[other])
  BY LineFacts
<1>6. run = other
  BY <1>4, <1>5, RunOfLine
<1> QED
  BY <1>2, <1>3, <1>6 DEF LineKey, KeysOf

LEMMA WriteKeeps ==
    ASSUME IInv, Write
    PROVE  IInv'
<1> DEFINE W == written[restart]
<1>1. /\ W < Len(script[restart]) /\ written' = [written EXCEPT ![restart] = W + 1]
      /\ UNCHANGED <<script, restart, state, reader, pending, db, faults>>
  BY DEF Write
<1>2. Typed /\ restart \in Runs /\ W \in Nat /\ DOMAIN written = Runs
  BY LineFacts DEF IInv, Typed
<1>3. /\ \A run \in Runs : written[run] \in Nat /\ Len(script[run]) \in Nat
      /\ \A run \in Runs : 1..written[run] \subseteq 1..Len(script[run])
  BY <1>2, LineFacts
<1>4. /\ \A run \in Runs : run # restart => written'[run] = written[run]
      /\ written'[restart] = W + 1 /\ written' \in [Runs -> Nat]
      /\ \A run \in Runs : 1..written[run] \subseteq 1..written'[run]
  BY <1>1, <1>2, <1>3 DEF Typed
<1>5. /\ \A run, i : LineKey(run, i)' = LineKey(run, i) /\ Stamp(run, i)' = Stamp(run, i)
      /\ \A run, i : Archived(run, i)' = Archived(run, i)
      /\ \A run, i : Queued(run, i)' = Queued(run, i)
  BY <1>1, LinesStay DEF Archived, Queued
<1>6. \A run \in Runs : KeysOf(run) \subseteq KeysOf(run)'
  BY <1>4, <1>5 DEF KeysOf
<1>7. ASSUME NEW run \in Runs, Clean(run)' PROVE Clean(run)
  <2> SUFFICES ASSUME NEW k \in db.keys, k.src = run, k \notin KeysOf(run) PROVE FALSE
    BY DEF Clean, Foreign
  <2>1. k \in KeysOf(run)'
    BY <1>1, <1>7 DEF Clean, Foreign
  <2>2. PICK i \in 1..written'[run] : k = LineKey(run, i)
    BY <1>5, <2>1 DEF KeysOf
  <2>3. i \in 1..Len(script[run])
    BY <1>1, <1>2, <1>3, <1>4
  <2>4. IsLine(k)
    BY DEF IInv, Lines
  <2> QED
    BY <1>2, <2>2, <2>3, <2>4, KeyOfRun
<1>8. \A run \in Runs : \A since : Anchored(run, since) => Anchored(run, since)'
  BY <1>4, <1>5 DEF Anchored
<1>9. \A since : Anchored(restart, since) => Stamp(restart, W + 1) >= since
  <2>1. W + 1 \in 1..Len(script[restart]) /\ W < W + 1
    BY <1>1, <1>2, <1>3
  <2> QED
    BY <1>2, <2>1, AnchoredReach
<1>10. \A run \in Runs : \A i \in 1..written'[run] :
          i \in 1..written[run] \/ (run = restart /\ i = W + 1)
  BY <1>2, <1>3, <1>4
<1>11. Typed'
  <2>1. \A run \in Runs : written'[run] <= Len(script[run])
    <3> SUFFICES ASSUME NEW run \in Runs PROVE written'[run] <= Len(script[run])
      OBVIOUS
    <3>1. CASE run = restart
      BY <1>1, <1>2, <1>3, <1>4, <3>1
    <3>2. CASE run # restart
      BY <1>2, <1>4, <3>2 DEF Typed
    <3> QED
      BY <3>1, <3>2
  <2>2. \A r \in Readers : reader[r].at = "read" => reader[r].pos <= written'[reader[r].target]
    <3> SUFFICES ASSUME NEW r \in Readers, reader[r].at = "read"
                 PROVE  reader[r].pos <= written'[reader[r].target]
      OBVIOUS
    <3>1. /\ reader[r].pos \in Nat /\ reader[r].target \in Runs
          /\ reader[r].pos <= written[reader[r].target]
      BY <1>2 DEF Typed, Reader
    <3>2. \A run \in Runs : written[run] <= written'[run] /\ written[run] \in Nat /\ written'[run] \in Nat
      <4> SUFFICES ASSUME NEW run \in Runs
                   PROVE  written[run] <= written'[run] /\ written[run] \in Nat /\ written'[run] \in Nat
        OBVIOUS
      <4>1. written[run] \in Nat
        BY <1>3
      <4>2. CASE run = restart
        BY <1>4, <4>1, <4>2
      <4>3. CASE run # restart
        BY <1>4, <4>1, <4>3
      <4> QED
        BY <4>2, <4>3
    <3> HIDE DEF W
    <3>3. PICK p, lo, hi : p = reader[r].pos /\ lo = written[reader[r].target]
                           /\ hi = written'[reader[r].target]
      OBVIOUS
    <3>4. p \in Nat /\ lo \in Nat /\ hi \in Nat /\ p <= lo /\ lo <= hi
      BY <3>1, <3>2, <3>3
    <3> QED
      BY <3>3, <3>4
  <2> QED
    BY <1>1, <1>2, <1>4, <2>1, <2>2 DEF Typed
<1>12. Lines' /\ Filed'
  <2>1. \A k : IsLine(k) => IsLine(k)'
    BY <1>6 DEF IsLine
  <2>2. Lines /\ Filed
    BY DEF IInv
  <2>3. ASSUME NEW x, x.line \in LineId, OwnLine(x) PROVE OwnLine(x)'
    BY <1>4, <1>5, <2>3 DEF OwnLine, LineId
  <2>4. /\ \A f \in db.filed : f.line \in LineId
        /\ \A n \in DOMAIN pending : pending[n].line \in LineId
    <3>1. db.filed \in SUBSET [key : Keys, line : LineId] /\ pending \in Seq(Record)
      BY <1>2 DEF Typed
    <3>2. \A n \in DOMAIN pending : pending[n] \in Record
      BY <3>1
    <3>3. \A n \in DOMAIN pending : pending[n].line \in LineId
      BY <3>2 DEF Record
    <3> QED
      BY <3>1, <3>3
  <2>5. Lines'
    BY <1>1, <2>1, <2>2 DEF Lines
  <2>6. Filed'
    BY <1>1, <2>2, <2>3, <2>4 DEF Filed
  <2> QED
    BY <2>5, <2>6
<1>13. Cursors'
  BY <1>1, <1>7, <1>8 DEF IInv, Cursors, Since
<1>14. UnarchivedInReach'
  <2> SUFFICES ASSUME NEW run \in Runs, Clean(run)', NEW i \in 1..written'[run]
               PROVE  Archived(run, i) \/ Stamp(run, i) >= Since(db.cursor[run])
    BY <1>1, <1>5 DEF UnarchivedInReach, Clean, InReach, Stamp, Since
  <2>1. CASE i \in 1..written[run]
    BY <1>7, <2>1, CursorIsSafe
  <2>2. CASE run = restart /\ i = W + 1
    BY <1>7, <1>9, <2>2, CursorIsSafe
  <2> QED
    BY <1>10, <2>1, <2>2
<1>15. Queue'
  <2> SUFFICES ASSUME NEW n \in DOMAIN pending, NEW run \in Runs, NEW j \in 1..written'[run],
                      Clean(run)', pending[n].key = LineKey(run, j), NEW x \in 1..(j - 1)
               PROVE  \/ Archived(run, x)
                      \/ \E m \in 1..(n - 1) : pending[m].key = LineKey(run, x)
                      \/ Stamp(run, x) >= Stamp(run, j) - Second
    BY <1>1, <1>5 DEF Queue
  <2>0. j \in 1..Len(script[run])
    BY <1>1, <1>2, <1>3, <1>4
  <2>1. IsLine(LineKey(run, j))
    BY DEF IInv, Lines
  <2>2. PICK k \in 1..written[run] : LineKey(run, j) = LineKey(run, k)
    BY <1>2, <2>0, <2>1, KeyOfRun DEF KeysOf
  <2>3. Stamp(run, j) = Stamp(run, k) /\ k \in 1..Len(script[run])
    BY <1>3, <2>2, KeyFields DEF LineKey, Stamp
  <2>4. CASE x < k
    <3>1. x \in 1..(k - 1)
      BY <1>3, <2>0, <2>4
    <3>2. pending[n].key = LineKey(run, k) /\ Clean(run)
      BY <1>7, <2>2
    <3> QED
      BY <2>3, <3>1, <3>2 DEF IInv, Queue
  <2>5. CASE k <= x
    <3>1. x \in k..(j - 1)
      BY <1>3, <2>0, <2>5
    <3> QED
      BY <1>2, <2>0, <2>2, <2>3, <3>1, SameKeyReach
  <2> QED
    BY <1>3, <2>0, <2>4, <2>5
<1>16. ASSUME NEW q \in Readers PROVE Skips(q)' /\ Passed(q)'
  <2>1. Skips(q) /\ Passed(q) /\ Source(q) \in Runs /\ Source(q)' = Source(q)
    BY <1>2, ReaderFacts DEF IInv, ReadersKeep, Source
  <2>2. Passed(q)'
    BY <1>1, <1>5, <1>7, <2>1 DEF Passed
  <2>3. ASSUME Clean(Source(q))', reader[q].at \in {"request", "read"}
        PROVE  /\ Anchored(Source(q), reader[q].since)'
               /\ \A i \in 1..written'[Source(q)] :
                     Stamp(Source(q), i) >= reader[q].since \/ Archived(Source(q), i)
    <3>1. /\ Anchored(Source(q), reader[q].since)
          /\ \A i \in 1..written[Source(q)] :
                Stamp(Source(q), i) >= reader[q].since \/ Archived(Source(q), i)
      BY <1>7, <2>1, <2>3 DEF Skips
    <3>2. Anchored(Source(q), reader[q].since)'
      BY <1>1, <1>5, <1>4, <2>1, <3>1 DEF Anchored
    <3> QED
      BY <1>9, <1>10, <2>1, <3>1, <3>2
  <2>4. Skips(q)'
    BY <1>1, <1>5, <2>1, <2>3 DEF Skips
  <2> QED
    BY <2>2, <2>4
<1> QED
  BY <1>11, <1>12, <1>13, <1>14, <1>15, <1>16 DEF IInv, ReadersKeep

LEMMA CommitKeeps ==
    ASSUME IInv, Commit
    PROVE  IInv'
<1> DEFINE e == Head(pending)
           src == e.key.src
           L == Len(pending)
<1>1. /\ pending # <<>> /\ pending' = Tail(pending)
      /\ db' = [keys |-> db.keys \cup {e.key},
                filed |-> db.filed \cup {[key |-> e.key, line |-> e.line]},
                cursor |-> [db.cursor EXCEPT ![src] = IF e.cursor > @ THEN e.cursor ELSE @]]
      /\ UNCHANGED <<script, written, restart, state, reader, faults>>
  BY DEF Commit, kubelet
<1>2. Typed /\ pending \in Seq(Record) /\ L \in Nat /\ L <= QueueCap
  BY DEF IInv, Typed
<1>3. /\ e = pending[1] /\ 1 \in DOMAIN pending /\ e \in Record /\ L >= 1
      /\ DOMAIN pending = 1..L
      /\ pending' \in Seq(Record) /\ Len(pending') = L - 1 /\ DOMAIN pending' = 1..(L - 1)
      /\ \A n \in 1..(L - 1) : pending'[n] = pending[n + 1]
  BY <1>1, <1>2
<1>4. /\ src \in Runs /\ e.cursor \in Nat \ {0} /\ e.cursor = e.key.stamp
      /\ e.key \in Keys /\ e.line \in LineId
      /\ IsLine(e.key) /\ OwnLine(e)
  BY <1>3 DEF Record, Keys, IInv, Lines, Filed
<1> HIDE DEF e, L
<1>5. /\ db'.keys = db.keys \cup {e.key}
      /\ db'.filed = db.filed \cup {[key |-> e.key, line |-> e.line]}
      /\ \A run \in Runs : run # src => db'.cursor[run] = db.cursor[run]
      /\ db'.cursor[src] = (IF e.cursor > db.cursor[src] THEN e.cursor ELSE db.cursor[src])
      /\ db'.cursor \in [Runs -> Nat] /\ db.cursor[src] \in Nat
      /\ db' \in [keys : SUBSET Keys, filed : SUBSET [key : Keys, line : LineId],
                  cursor : [Runs -> Nat]]
  BY <1>1, <1>2, <1>4 DEF Typed
<1>6. /\ \A run, i : LineKey(run, i)' = LineKey(run, i) /\ Stamp(run, i)' = Stamp(run, i)
      /\ \A run : KeysOf(run)' = KeysOf(run)
      /\ \A k : IsLine(k)' = IsLine(k)
      /\ \A x : OwnLine(x)' = OwnLine(x)
      /\ \A run, since : Anchored(run, since)' = Anchored(run, since)
  BY <1>1, LinesStay DEF KeysOf, IsLine, OwnLine, Anchored
<1>7. \A run, i : Archived(run, i) => Archived(run, i)'
  BY <1>5, <1>6 DEF Archived
<1>8. \A run \in Runs : Clean(run)' => Clean(run)
  BY <1>5, <1>6 DEF Clean, Foreign
<1>9. \A run, i : pending[1].key = LineKey(run, i) => Archived(run, i)'
  BY <1>3, <1>5, <1>6 DEF Archived
<1>10. \A run, i : Queued(run, i) => Archived(run, i)' \/ Queued(run, i)'
  <2> SUFFICES ASSUME NEW run, NEW i, NEW n \in 1..L, pending[n].key = LineKey(run, i)
               PROVE  Archived(run, i)' \/ Queued(run, i)'
    BY <1>3 DEF Queued
  <2>1. CASE n = 1
    BY <1>9, <2>1
  <2>2. CASE n # 1
    <3>1. n - 1 \in 1..(L - 1) /\ pending'[n - 1] = pending[n]
      BY <1>2, <1>3, <2>2
    <3> QED
      BY <1>3, <1>6, <3>1 DEF Queued
  <2> QED
    BY <2>1, <2>2
<1>11. Typed'
  <2>1. L - 1 <= QueueCap
    BY <1>2, <1>3, LogAssumption
  <2> QED
    BY <1>1, <1>2, <1>3, <1>5, <2>1 DEF Typed
<1>12. Lines' /\ Filed'
  <2>1. \A k \in db'.keys : IsLine(k)
    BY <1>4, <1>5 DEF IInv, Lines
  <2>2. \A n \in 1..(L - 1) : n + 1 \in 1..L
    BY <1>2
  <2>3. \A n \in DOMAIN pending' :
           /\ IsLine(pending'[n].key) /\ pending'[n].cursor = pending'[n].key.stamp
           /\ OwnLine(pending'[n])
    BY <1>3, <2>2 DEF IInv, Lines, Filed
  <2>4. OwnLine([key |-> e.key, line |-> e.line])
    BY <1>4 DEF OwnLine
  <2>5. \A f \in db'.filed : OwnLine(f)
    BY <1>5, <2>4 DEF IInv, Filed
  <2>6. \A k \in db'.keys : \E f \in db'.filed : f.key = k
    BY <1>5 DEF IInv, Filed
  <2> QED
    BY <1>6, <2>1, <2>3, <2>5, <2>6 DEF Lines, Filed
\* What a clean source commits is a line of its run, and moves the cursor to it.
<1>13. ASSUME NEW run \in Runs, Clean(run)', run = src
       PROVE  \E j \in 1..written[src] :
                 /\ e.key = LineKey(src, j) /\ e.cursor = Stamp(src, j)
                 /\ j \in 1..Len(script[src])
  <2>1. e.key \in KeysOf(src)
    BY <1>5, <1>6, <1>13 DEF Clean, Foreign
  <2>2. PICK j \in 1..written[src] : e.key = LineKey(src, j)
    BY <2>1 DEF KeysOf
  <2> QED
    BY <1>2, <1>4, <2>2, KeyFields, LineFacts DEF LineKey, Stamp
<1>14. Cursors'
  <2> SUFFICES ASSUME NEW run \in Runs, Clean(run)'
               PROVE  Anchored(run, Since(db'.cursor[run]))
    BY <1>6 DEF Cursors, Since
  <2>1. Anchored(run, Since(db.cursor[run]))
    BY <1>8, CursorIsSafe
  <2>2. CASE db'.cursor[run] = db.cursor[run]
    BY <2>1, <2>2
  <2>3. CASE run = src /\ db'.cursor[run] = e.cursor
    <3>1. PICK j \in 1..written[src] : e.cursor = Stamp(src, j)
      BY <1>13, <2>3
    <3>2. Since(e.cursor) = Stamp(src, j) - Second
      BY <1>4, <3>1 DEF Since
    <3> QED
      BY <2>3, <3>2 DEF Anchored
  <2> QED
    BY <1>5, <2>2, <2>3
<1>15. UnarchivedInReach'
  <2> SUFFICES ASSUME NEW run \in Runs, Clean(run)', NEW i \in 1..written[run], ~Archived(run, i)'
               PROVE  Stamp(run, i) >= Since(db'.cursor[run])
    BY <1>1 DEF UnarchivedInReach, Clean, InReach, Stamp, Since
  <2>1. Stamp(run, i) >= Since(db.cursor[run])
    BY <1>7, <1>8, CursorIsSafe
  <2>2. CASE db'.cursor[run] = db.cursor[run]
    BY <2>1, <2>2
  <2>3. CASE run = src /\ db'.cursor[run] = e.cursor
    <3>1. PICK j \in 1..written[src] :
             e.key = LineKey(src, j) /\ e.cursor = Stamp(src, j) /\ j \in 1..Len(script[src])
      BY <1>13, <2>3
    <3>2. Since(e.cursor) = Stamp(run, j) - Second
      BY <1>4, <2>3, <3>1 DEF Since
    <3>3. i \in 1..Len(script[run]) /\ written[run] \in Nat
      BY <1>2, LineFacts
    <3>4. Stamp(run, i) \in Nat /\ Second \in Nat
      BY <1>2, <3>3, LineFacts, LogAssumption
    <3>5. CASE i = j
      BY <1>3, <1>9, <2>3, <3>1, <3>5
    <3>6. CASE j < i
      BY <1>2, <2>3, <3>1, <3>2, <3>3, <3>6, Clock
    <3>7. CASE i < j
      <4>1. i \in 1..(j - 1) /\ 1..(1 - 1) = {}
        BY <3>3, <3>7
      <4>2. ~Archived(run, i)
        BY <1>7
      <4>3. Clean(run) /\ pending[1].key = LineKey(run, j) /\ j \in 1..written[run]
        BY <1>3, <1>8, <2>3, <3>1
      <4>4. Stamp(run, i) >= Stamp(run, j) - Second
        BY <1>3, <4>1, <4>2, <4>3 DEF IInv, Queue
      <4> QED
        BY <2>3, <3>2, <4>4
    <3> QED
      BY <2>3, <3>3, <3>5, <3>6, <3>7
  <2> QED
    BY <1>5, <2>2, <2>3
<1>16. Queue'
  <2> SUFFICES ASSUME NEW n \in 1..(L - 1), NEW run \in Runs, NEW j \in 1..written[run],
                      Clean(run)', pending'[n].key = LineKey(run, j), NEW x \in 1..(j - 1)
               PROVE  \/ Archived(run, x)'
                      \/ \E m \in 1..(n - 1) : pending'[m].key = LineKey(run, x)
                      \/ Stamp(run, x) >= Stamp(run, j) - Second
    <3>1. UNCHANGED written
      BY <1>1
    <3> QED
      BY <3>1, <1>3, <1>6 DEF Queue
  <2>1. n + 1 \in 1..L /\ pending[n + 1].key = LineKey(run, j) /\ (n + 1) - 1 = n
    BY <1>2, <1>3
  <2>2. \/ Archived(run, x)
        \/ \E m \in 1..n : pending[m].key = LineKey(run, x)
        \/ Stamp(run, x) >= Stamp(run, j) - Second
    BY <1>3, <1>8, <2>1 DEF IInv, Queue
  <2>3. ASSUME NEW m \in 1..n, pending[m].key = LineKey(run, x)
        PROVE  Archived(run, x)' \/ \E k \in 1..(n - 1) : pending'[k].key = LineKey(run, x)
    <3>1. CASE m = 1
      BY <1>9, <2>3, <3>1
    <3>2. CASE m # 1
      <4>1. m - 1 \in 1..(n - 1) /\ m - 1 \in 1..(L - 1) /\ (m - 1) + 1 = m
        BY <1>2, <3>2
      <4>2. pending'[m - 1] = pending[m]
        BY <1>3, <4>1
      <4> QED
        BY <2>3, <4>1, <4>2
    <3> QED
      BY <3>1, <3>2
  <2> QED
    BY <1>7, <2>2, <2>3
<1>17. ASSUME NEW q \in Readers PROVE Skips(q)' /\ Passed(q)'
  <2>1. Skips(q) /\ Passed(q) /\ Source(q) \in Runs /\ Source(q)' = Source(q)
    BY <1>2, ReaderFacts DEF IInv, ReadersKeep, Source
  <2>2. Skips(q)'
    BY <1>1, <1>6, <1>7, <1>8, <2>1 DEF Skips
  <2>3. Passed(q)'
    BY <1>1, <1>7, <1>8, <1>10, <2>1 DEF Passed
  <2> QED
    BY <2>2, <2>3
<1> QED
  BY <1>11, <1>12, <1>14, <1>15, <1>16, <1>17 DEF IInv, ReadersKeep

\* What waits is lost, and so are the readers: the file is what it was.
LEMMA CrashKeeps ==
    ASSUME IInv, Crash
    PROVE  IInv'
<1>1. /\ pending' = <<>> /\ reader' = [r \in Readers |-> Free]
      /\ UNCHANGED <<script, written, restart, state, db>> /\ faults' \in 0..MaxFaults
  BY DisruptType DEF Crash, kubelet, IInv
<1>2. Typed'
  <2>1. \A r \in Readers : reader'[r] = Free /\ reader'[r].at = "free"
    BY <1>1, FreeIsReader
  <2> QED
    BY <1>1, <2>1, FreeIsReader, LogAssumption DEF IInv, Typed
<1>3. Lines' /\ Filed' /\ Cursors' /\ UnarchivedInReach' /\ Queue'
  BY <1>1, HistoryStays DEF IInv, Lines, Filed, Cursors, Queue
<1>4. ReadersKeep'
  BY <1>1, FreeIsReader DEF ReadersKeep, Skips, Passed
<1> QED
  BY <1>2, <1>3, <1>4 DEF IInv

LEMMA InitHolds == Init => IInv
<1> SUFFICES ASSUME Init PROVE IInv
  OBVIOUS
<1>1. \A run \in Runs : script[run] \in Seq([stamp : Nat \ {0}, text : STRING])
  BY LogAssumption DEF Init
<1>2. Typed
  BY <1>1, FreeIsReader, LogAssumption DEF Init, Typed, Runs
<1>3. \A run \in Runs : 1..written[run] = {} /\ Since(db.cursor[run]) = 0
  BY DEF Init, Since
<1>4. Lines /\ Filed /\ Cursors /\ Queue /\ UnarchivedInReach
  BY <1>3 DEF Init, Lines, Filed, Cursors, Anchored, Queue, UnarchivedInReach
<1>5. ReadersKeep
  BY FreeIsReader DEF Init, ReadersKeep, Skips, Passed
<1> QED
  BY <1>2, <1>4, <1>5 DEF IInv

LEMMA NextKeeps == IInv /\ [Next]_vars => IInv'
<1> SUFFICES ASSUME IInv, [Next]_vars PROVE IInv'
  OBVIOUS
<1>1. CASE Write \/ Commit \/ Crash
  BY <1>1, WriteKeeps, CommitKeeps, CrashKeeps
<1>2. CASE Transition \/ Delete \/ podChanged \/ reset
  BY <1>2, WatchSteps, StepsKeep
<1>3. ASSUME NEW r \in Readers, captureLogs(r) PROVE IInv'
  <2>1. CASE ReadLine(r)
    BY <2>1, ReadLineKeeps
  <2>2. CASE TakeSlot(r) \/ GetLog(r) \/ EndOfLog(r) \/ Rotate(r) \/ PreviousGone(r)
             \/ RequestFails(r) \/ Quit(r)
    BY <2>2, ReaderSteps, StepsKeep
  <2> QED
    BY <1>3, <2>1, <2>2 DEF captureLogs, readLogs
<1>4. CASE UNCHANGED vars
  <2>1. Typed' /\ Steps
    BY <1>4 DEF vars, IInv, Typed, Steps, Stays
  <2> QED
    BY <1>4, <2>1, StepsKeep DEF vars
<1> QED
  BY <1>1, <1>2, <1>3, <1>4 DEF Next

-----------------------------------------------------------------------------
\* Ordinals tell equal lines of a log apart: the earlier of two has counted only
\* lines that the later one has counted, and not itself.
LEMMA OrdinalGrows ==
    ASSUME Typed, NEW run \in Runs, NEW i \in 1..Len(script[run]), NEW j \in 1..Len(script[run]), i < j,
           script[run][i] = script[run][j]
    PROVE  Ordinal(script[run], 1..i, i) < Ordinal(script[run], 1..j, j)
<1> DEFINE s == script[run]
           Count(n) == {x \in 1..n : /\ x < n /\ s[x].text = s[n].text
                                     /\ \A m \in 1..n : x <= m /\ m <= n => s[m].stamp = s[n].stamp}
<1>1. /\ i \in Nat /\ j \in Nat /\ 1..i \subseteq 1..j
      /\ s[i].text = s[j].text /\ s[i].stamp = s[j].stamp
  BY LineFacts
<1>2. \A m \in i..j : s[m].stamp = s[j].stamp
  BY <1>1, Clock DEF Stamp
<1>3. Count(i) \subseteq Count(j)
  <2> SUFFICES ASSUME NEW x \in Count(i), NEW m \in 1..j, x <= m, m <= j
               PROVE  s[m].stamp = s[j].stamp
    BY <1>1
  <2>1. CASE m <= i
    BY <1>1, <2>1
  <2>2. CASE ~(m <= i)
    <3>1. m \in i..j
      BY <1>1, <2>2
    <3> QED
      BY <1>2, <3>1
  <2> QED
    BY <2>1, <2>2
<1>4. i \in Count(j) /\ i \notin Count(i)
  <2>1. \A m \in 1..j : i <= m /\ m <= j => m \in i..j
    BY <1>1
  <2> QED
    BY <1>1, <1>2, <2>1
<1>5. IsFiniteSet(Count(j))
  <2>1. IsFiniteSet(1..j) /\ Count(j) \in SUBSET (1..j)
    BY <1>1, FS_Interval
  <2> HIDE DEF Count
  <2> QED
    BY <2>1, FS_Subset
<1>6. Cardinality(Count(i)) < Cardinality(Count(j))
  <2> HIDE DEF Count
  <2>1. /\ Cardinality(Count(i)) <= Cardinality(Count(j)) /\ IsFiniteSet(Count(i))
        /\ Cardinality(Count(j)) = Cardinality(Count(i)) => Count(j) = Count(i)
    BY <1>3, <1>5, FS_Subset
  <2>2. Cardinality(Count(i)) \in Nat /\ Cardinality(Count(j)) \in Nat
    BY <1>5, <2>1, FS_CardinalityType
  <2> QED
    BY <1>4, <2>1, <2>2
<1> QED
  BY <1>6 DEF Ordinal

LEMMA LineKeysDiffer ==
    ASSUME Typed, NEW run \in Runs, NEW i \in 1..Len(script[run]), NEW j \in 1..Len(script[run]),
           LineKey(run, i) = LineKey(run, j)
    PROVE  i = j
<1>1. /\ script[run][i] \in Line /\ script[run][j] \in Line
      /\ script[run][i].stamp = script[run][j].stamp
      /\ script[run][i].text = script[run][j].text
  BY LineFacts, KeyFields DEF LineKey
<1>2. script[run][i] = script[run][j]
  BY <1>1 DEF Line
<1>3. Ordinal(script[run], 1..i, i) = Ordinal(script[run], 1..j, j)
  BY DEF LineKey, Key
<1>4. Ordinal(script[run], 1..i, i) \in Nat /\ Ordinal(script[run], 1..j, j) \in Nat
  <2>1. i \in Nat /\ j \in Nat /\ 1..i \in SUBSET (1..i) /\ 1..j \in SUBSET (1..j)
    BY LineFacts
  <2> QED
    BY <2>1, OrdinalType
<1>5. ~(i < j)
  BY <1>2, <1>3, <1>4, OrdinalGrows
<1>6. ~(j < i)
  BY <1>2, <1>3, <1>4, OrdinalGrows
<1> QED
  BY <1>5, <1>6

\* Every record on disk was filed for a line the container wrote, and under one
\* source lines and records correspond one to one: replays, rotations and kills
\* neither invent a record, nor file a line twice, nor merge two lines.
THEOREM NoInventedRecords == Spec => []RecordsAreLines
<1>1. IInv => RecordsAreLines
  <2> SUFFICES ASSUME IInv PROVE RecordsAreLines
    OBVIOUS
  <2>1. Typed /\ Filed
    BY DEF IInv
  <2>2. ASSUME NEW f \in db.filed
        PROVE  /\ f.line.run \in Runs /\ f.line.n \in 1..written[f.line.run]
               /\ f.line.n \in 1..Len(script[f.line.run])
               /\ f.line \in LineId /\ f.key \in Keys
               /\ [f.key EXCEPT !.src = f.line.run] = LineKey(f.line.run, f.line.n)
               /\ f.key.stamp = Stamp(f.line.run, f.line.n)
               /\ f.key.text = script[f.line.run][f.line.n].text
    <3>1. f.line \in LineId /\ f.key \in Keys /\ f.line.run \in Runs
      BY <2>1 DEF Typed, LineId
    <3>2. /\ f.line.n \in 1..written[f.line.run]
          /\ [f.key EXCEPT !.src = f.line.run] = LineKey(f.line.run, f.line.n)
      BY <2>1 DEF Filed, OwnLine
    <3>3. f.line.n \in 1..Len(script[f.line.run])
      BY <2>1, <3>1, <3>2, LineFacts
    <3>4. /\ [f.key EXCEPT !.src = f.line.run].stamp = f.key.stamp
          /\ [f.key EXCEPT !.src = f.line.run].text = f.key.text
      BY <3>1 DEF Keys
    <3> DEFINE run == f.line.run
               n == f.line.n
    <3>5. /\ Key(run, script[run], 1..n, n).stamp = script[run][n].stamp
          /\ Key(run, script[run], 1..n, n).text = script[run][n].text
      BY KeyFields
    <3>6. f.key.stamp = Stamp(run, n) /\ f.key.text = script[run][n].text
      BY <3>2, <3>4, <3>5 DEF LineKey, Stamp
    <3> QED
      BY <3>1, <3>2, <3>3, <3>6
  <2>3. ASSUME NEW f \in db.filed, NEW g \in db.filed, f.key.src = g.key.src, f.key = g.key
        PROVE  f.line = g.line
    <3> DEFINE run == f.line.run
               other == g.line.run
               i == f.line.n
               j == g.line.n
    <3>1. /\ run \in Runs /\ other \in Runs
          /\ i \in 1..Len(script[run]) /\ j \in 1..Len(script[other])
      BY <2>2
    <3>2. /\ Stamp(run, i) = Stamp(other, j)
          /\ script[run][i].text = script[other][j].text
      BY <2>2, <2>3
    <3>3. LineKey(run, i) = [f.key EXCEPT !.src = run] /\ LineKey(other, j) = [f.key EXCEPT !.src = other]
      BY <2>2, <2>3
    <3>4. f.line \in [run : Runs, n : Nat] /\ g.line \in [run : Runs, n : Nat]
      BY <2>2 DEF LineId
    <3> HIDE DEF run, other, i, j
    <3>5. run = other
      BY <2>1, <3>1, <3>2, RunOfLine
    <3>6. i = j
      BY <2>1, <3>1, <3>3, <3>5, LineKeysDiffer
    <3> QED
      BY <3>4, <3>5, <3>6 DEF run, other, i, j
  <2>4. ASSUME NEW f \in db.filed, NEW g \in db.filed, f.key.src = g.key.src, f.line = g.line
        PROVE  f.key = g.key
    <3>1. [f.key EXCEPT !.src = f.line.run] = [g.key EXCEPT !.src = f.line.run]
      BY <2>2, <2>4
    <3>2. f.key \in Keys /\ g.key \in Keys
      BY <2>2
    <3> QED
      BY <2>4, <3>1, <3>2 DEF Keys
  <2> QED
    BY <2>1, <2>2, <2>3, <2>4 DEF RecordsAreLines, Filed, Stamp
<1> QED
  BY <1>1, InitHolds, NextKeeps, PTL DEF Spec, Safety

\* The cursor on disk is never more than the overlap past a line that is not
\* archived, as long as its source holds no line of another run.
THEOREM CursorInReach == Spec => []UnarchivedInReach
<1>1. IInv => UnarchivedInReach
  BY DEF IInv
<1> QED
  BY <1>1, InitHolds, NextKeeps, PTL DEF Spec, Safety

\* The types of the recording, for every bound.
THEOREM TypeCorrect == Spec => []TypeOK
<1>1. IInv => TypeOK
  BY LineFacts DEF IInv, Typed, TypeOK, Reader
<1> QED
  BY <1>1, InitHolds, NextKeeps, PTL DEF Spec, Safety

-----------------------------------------------------------------------------
\* c.tasks is a map: a task has one goroutine that nobody has cancelled, so that
\* two readers of one run overlap only while the older one is on its way out.
OneReaderEach ==
    \A r, q \in Readers : InTasks(r) /\ InTasks(q) /\ r[1] = q[1] => r = q

\* Steps that start no goroutine.
LEMMA NoneStarts ==
    ASSUME Typed, [Next]_vars, ~podChanged, NEW r \in Readers, InTasks(r)'
    PROVE  InTasks(r)
<1> USE DEF InTasks
<1>1. reader \in [Readers -> Reader]
  BY DEF Typed
<1>2. CASE Write \/ Transition \/ Delete \/ Commit \/ UNCHANGED vars
  BY <1>2 DEF Write, Transition, Delete, Commit, vars
<1>3. CASE reset
  <2>1. reader'[r] = IF InTasks(r) THEN [reader[r] EXCEPT !.cancelled = TRUE] ELSE reader[r]
    BY <1>3 DEF reset
  <2> QED
    BY <1>1, <2>1 DEF Reader
<1>4. CASE Crash
  BY <1>4, FreeIsReader DEF Crash
<1>5. ASSUME NEW q \in Readers, captureLogs(q) PROVE InTasks(r)
  <2>1. r # q => reader'[r] = reader[r]
    BY <1>1, <1>5 DEF captureLogs, readLogs, TakeSlot, GetLog, ReadLine, EndOfLog, Rotate, Finish,
                      PreviousGone, RequestFails, Move, Quit
  <2>2. CASE r = q
    <3>1. CASE Quit(q)
      BY <1>1, <2>2, <3>1, FreeIsReader DEF Quit
    <3>2. CASE ReadLine(q)
      <4>1. PICK i : reader' = [reader EXCEPT ![q].pos = i]
        BY <3>2 DEF ReadLine
      <4>2. reader'[r].at = reader[r].at /\ reader'[r].cancelled = reader[r].cancelled
        BY <1>1, <2>2, <4>1 DEF Reader
      <4> QED
        BY <4>2
    <3>3. CASE TakeSlot(q) \/ GetLog(q) \/ EndOfLog(q) \/ Rotate(q) \/ PreviousGone(q)
               \/ RequestFails(q)
      BY <2>2, <3>3 DEF TakeSlot, GetLog, EndOfLog, Rotate, PreviousGone, RequestFails, At
    <3> QED
      BY <1>5, <3>1, <3>2, <3>3 DEF captureLogs, readLogs
  <2> QED
    BY <2>1, <2>2
<1> QED
  BY <1>2, <1>3, <1>4, <1>5 DEF Next

\* A pod event starts one goroutine of a task that had none.
LEMMA OneStarts ==
    ASSUME Typed, podChanged, NEW r \in Readers, InTasks(r)'
    PROVE  InTasks(r) \/ (r[1] \notin Started /\ r = Launch(r[1]))
<1> DEFINE fresh == Desired \ Started
           drop  == {x \in Readers : InTasks(x) /\ x[1] \notin Desired}
<1>1. reader'[r] = IF r[1] \in fresh /\ r = Launch(r[1])
                   THEN [Free EXCEPT !.at = "queued", !.terminated = (state = "terminated")]
                   ELSE IF r \in drop THEN [reader[r] EXCEPT !.cancelled = TRUE]
                   ELSE reader[r]
  BY DEF podChanged
<1>2. CASE r[1] \in fresh /\ r = Launch(r[1])
  BY <1>2
<1>3. CASE ~(r[1] \in fresh /\ r = Launch(r[1])) /\ r \in drop
  BY <1>3
<1>4. CASE ~(r[1] \in fresh /\ r = Launch(r[1])) /\ r \notin drop
  <2>1. reader'[r] = reader[r]
    BY <1>1, <1>4
  <2> QED
    BY <2>1 DEF InTasks
<1> QED
  BY <1>2, <1>3, <1>4

\* podChanged and reset (src/src/collect.go) keep a task of a container to one
\* goroutine that works, however pod events, resets, ends of logs and the returns
\* of cancelled goroutines are interleaved.
THEOREM OneReaderPerTask == Spec => []OneReaderEach
<1>1. Init => OneReaderEach
  BY FreeIsReader DEF Init, OneReaderEach, InTasks
<1>2. IInv /\ OneReaderEach /\ [Next]_vars => OneReaderEach'
  <2> SUFFICES ASSUME IInv, OneReaderEach, [Next]_vars, NEW r \in Readers, NEW q \in Readers,
                      InTasks(r)', InTasks(q)', r[1] = q[1]
               PROVE  r = q
    BY DEF OneReaderEach
  <2>1. Typed
    BY DEF IInv
  <2>2. CASE ~podChanged
    BY <2>1, <2>2, NoneStarts DEF OneReaderEach
  <2>3. CASE podChanged
    <3>1. \A x \in {r, q} : InTasks(x) \/ (x[1] \notin Started /\ x = Launch(x[1]))
      BY <2>1, <2>3, OneStarts
    <3>2. \A x \in {r, q} : InTasks(x) => x[1] \in Started
      BY DEF Started
    <3> QED
      BY <3>1, <3>2 DEF OneReaderEach
  <2> QED
    BY <2>2, <2>3
<1> QED
  BY <1>1, <1>2, InitHolds, NextKeeps, PTL DEF Spec, Safety
=============================================================================
