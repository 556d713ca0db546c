---------------------------- MODULE WatchProofs ------------------------------
(***************************************************************************)
(* The watch of a kind, for any number of processes, changes, compactions, *)
(* kills and take-overs.  First the lock: a session collects, or waits for *)
(* its goroutines, only while it holds it.  Then the version on disk:      *)
(* whatever version a process works with, or has on its way to the file,   *)
(* is covered by the file together with the records that the process has   *)
(* accepted before it.  Files only grow and a process commits in order, so *)
(* that no interleaving of two processes that flush into one file can take *)
(* the cover away.                                                         *)
(***************************************************************************)
EXTENDS Watch, TLAPS

Holding == {"collecting", "stopping"}

Shape ==
    /\ phase \in [Processes -> {"down", "up", "collecting", "stopping", "draining"}]
    /\ pc \in [Processes -> {"idle", "read", "list", "items", "get", "stream"}]

Locked ==
    \A p \in Processes :
        /\ phase[p] \in Holding => lock = p
        /\ pc[p] # "idle" => phase[p] \in Holding

LockInv == Shape /\ Locked

-----------------------------------------------------------------------------
\* The watch goroutine moves: it runs before, and the session stays.
Moves(p) ==
    /\ UNCHANGED <<lock, phase>>
    /\ \/ UNCHANGED pc
       \/ pc[p] # "idle" /\ \E to \in {"list", "items", "get", "stream"} : Goto(p, to)
       \/ Forget(p)

LEMMA WatchMoves ==
    ASSUME NEW p \in Processes, Shape, watch(p) \/ Commit(p) \/ ArchiveFails(p)
    PROVE  Moves(p)
<1> USE DEF Moves, still, watcher, At, Adding
<1>1. CASE readCursor(p)
  BY <1>1 DEF readCursor, Goto
<1>2. CASE List(p) \/ GetStarts(p) \/ ListEnds(p)
  BY <1>2 DEF List, GetStarts, ListEnds
<1>3. CASE ListItem(p) \/ Event(p) \/ Bookmark(p)
  BY <1>3 DEF ListItem, Event, Bookmark
<1>4. CASE ListOversize(p) \/ EventOversize(p)
  BY <1>4 DEF ListOversize, EventOversize
<1>5. CASE Expired(p)
  BY <1>5 DEF Expired
<1>6. CASE readCursorFails(p) \/ ListFails(p) \/ RequestFails(p) \/ StreamEnds(p)
  BY <1>6 DEF readCursorFails, ListFails, RequestFails, StreamEnds
<1>7. CASE WatchReturns(p)
  BY <1>7 DEF WatchReturns
<1>8. CASE Commit(p) \/ ArchiveFails(p)
  BY <1>8 DEF Commit, ArchiveFails
<1> QED
  BY <1>1, <1>2, <1>3, <1>4, <1>5, <1>6, <1>7, <1>8 DEF watch, Progress

LEMMA MovesKeepLock ==
    ASSUME NEW p \in Processes, LockInv, Moves(p)
    PROVE  LockInv'
<1> USE DEF LockInv, Shape, Locked
<1>1. CASE UNCHANGED pc
  BY <1>1 DEF Moves
<1>2. CASE pc[p] # "idle" /\ \E to \in {"list", "items", "get", "stream"} : Goto(p, to)
  BY <1>2 DEF Moves, Goto
<1>3. CASE Forget(p)
  BY <1>3 DEF Moves, Forget
<1> QED
  BY <1>1, <1>2, <1>3 DEF Moves

-----------------------------------------------------------------------------
LEMMA InitLock == Init => LockInv
BY DEF Init, LockInv, Shape, Locked, Holding

LEMMA SessionKeepsLock ==
    ASSUME NEW p \in Processes, LockInv, Session(p)
    PROVE  LockInv'
<1> USE DEF LockInv, Shape, Locked, Holding
<1>1. CASE Start(p)
  BY <1>1 DEF Start, watcher
<1>2. CASE startCollector(p)
  <2>1. \A q \in Processes : phase[q] \notin Holding
    BY <1>2, WatchAssumption DEF startCollector
  <2> QED
    BY <1>2, <2>1 DEF startCollector
<1>3. CASE Cancel(p)
  BY <1>3 DEF Cancel, watcher
<1>4. CASE Unlock(p)
  <2>1. \A q \in Processes \ {p} : phase[q] \notin Holding
    BY <1>4 DEF Unlock
  <2> QED
    BY <1>4, <2>1 DEF Unlock, watcher
<1>5. CASE Closed(p)
  BY <1>5 DEF Closed
<1>6. CASE Crash(p)
  BY <1>6 DEF Crash, Forget
<1>7. CASE ArchiveFails(p)
  BY <1>7, WatchMoves, MovesKeepLock
<1> QED
  BY <1>1, <1>2, <1>3, <1>4, <1>5, <1>6, <1>7 DEF Session

LEMMA NextLock == LockInv /\ [Next]_vars => LockInv'
<1> SUFFICES ASSUME LockInv, [Next]_vars PROVE LockInv'
  OBVIOUS
<1>1. CASE Change \/ Compact
  BY <1>1 DEF Change, Compact, watcher, LockInv, Shape, Locked
<1>2. ASSUME NEW p \in Processes, Session(p) PROVE LockInv'
  BY <1>2, SessionKeepsLock
<1>3. ASSUME NEW p \in Processes, watch(p) \/ Commit(p) PROVE LockInv'
  <2>1. Moves(p)
    BY <1>3, WatchMoves DEF LockInv
  <2> QED
    BY <2>1, MovesKeepLock
<1>4. CASE UNCHANGED vars
  BY <1>4 DEF vars, LockInv, Shape, Locked
<1> QED
  BY <1>1, <1>2, <1>3, <1>4 DEF Next

\* One goroutine watches the kind, across all processes on the archive: the
\* lock is taken by one session, and given up only when its goroutine has gone.
THEOREM Exclusive == Safety => []OneWatcher
<1>1. Init => LockInv
  BY InitLock
<1>2. LockInv /\ [Next]_vars => LockInv'
  BY NextLock
<1>3. LockInv => OneWatcher
  BY DEF LockInv, Locked, OneWatcher
<1> QED
  BY <1>1, <1>2, <1>3, PTL DEF Safety

-----------------------------------------------------------------------------
(* A file d and the first k records of a queue s.                          *)

HasKey(d, s, k, x)  == x \in d.keys \/ \E i \in 1..k : s[i].key = x
HasGap(d, s, k, x)  == x \in d.gaps \/ \E i \in 1..k : s[i].issue = "gap" /\ s[i].about = x
HasJump(d, s, k, j) == j \in d.jumps \/ \E i \in 1..k : j \in s[i].jump

\* A change i is archived, or in a relist that says so if it lost anything.
Covered(d, s, k, i) ==
    \/ HasKey(d, s, k, i)
    \/ \E j \in Jumps : /\ HasJump(d, s, k, j) /\ Skipped(i, j)
                        /\ j.from # 0 => HasGap(d, s, k, j.first)

UpTo(h, d, s, k, c) ==
    c <= Len(h) /\ \A i \in 1..c : h[i].obj # Other => Covered(d, s, k, i)

\* What a list at version t saw is archived, or still to be added.
Kept(h, d, s, k, t, left) ==
    \A i \in 1..t : (h[i].obj # Other /\ h[i].live /\ ~HasKey(d, s, k, i) /\ i \notin left)
        => \E m \in (i + 1)..t : h[m].obj = h[i].obj

Forced(h, c, d, s, k, j) ==
    /\ j.to <= Len(h)
    /\ j.from # 0 => j.from < c
    /\ Kept(h, d, s, k, j.to, {})

EntryOK(h, c, d, s, k) ==
    /\ UpTo(h, d, s, k, s[k].cursor)
    /\ \A j \in s[k].jump : Forced(h, c, d, s, k, j)

FileOK(h, c, d) ==
    /\ UpTo(h, d, <<>>, 0, d.cursor)
    /\ \A j \in d.jumps : Forced(h, c, d, <<>>, 0, j)

Change1 == [obj : Objects \cup {Other}, live : BOOLEAN]
File    == [keys : SUBSET Versions, cursor : Versions, gaps : SUBSET Versions,
            issues : SUBSET Problems, jumps : SUBSET Jumps]

After(d, e) ==
    [keys   |-> d.keys \cup ({e.key} \ {0}),
     cursor |-> IF e.cursor = 0 THEN d.cursor ELSE e.cursor,
     gaps   |-> IF e.issue = "gap" THEN d.gaps \cup {e.about} ELSE d.gaps,
     issues |-> d.issues \cup ({e.issue} \ {"none"}),
     jumps  |-> d.jumps \cup e.jump]

-----------------------------------------------------------------------------
(* More of the file and of the queue covers more.                          *)

Grows(d, s, k, e, t, m) ==
    /\ \A x \in Versions : HasKey(d, s, k, x) /\ x # 0 => HasKey(e, t, m, x)
    /\ \A x \in Versions : HasGap(d, s, k, x) => HasGap(e, t, m, x)
    /\ \A j \in Jumps : HasJump(d, s, k, j) => HasJump(e, t, m, j)

LEMMA CoverGrows ==
    ASSUME NEW d, NEW s, NEW k, NEW e, NEW t, NEW m, Grows(d, s, k, e, t, m),
           NEW i \in Versions, i # 0, Covered(d, s, k, i)
    PROVE  Covered(e, t, m, i)
BY DEF Grows, Covered, Jumps

LEMMA UpToGrows ==
    ASSUME NEW d, NEW s, NEW k, NEW e, NEW t, NEW m, Grows(d, s, k, e, t, m),
           NEW h, NEW c \in Versions, UpTo(h, d, s, k, c)
    PROVE  UpTo(h, e, t, m, c)
<1>1. ASSUME NEW i \in 1..c, h[i].obj # Other PROVE Covered(e, t, m, i)
  <2>1. i \in Versions /\ i # 0
    BY WatchAssumption DEF Versions
  <2>2. Covered(d, s, k, i)
    BY <1>1 DEF UpTo
  <2> QED
    BY <2>1, <2>2, CoverGrows
<1> QED
  BY <1>1 DEF UpTo

LEMMA KeptGrows ==
    ASSUME NEW d, NEW s, NEW k, NEW e, NEW t, NEW m, Grows(d, s, k, e, t, m),
           NEW h, NEW c \in Versions, NEW left, Kept(h, d, s, k, c, left)
    PROVE  Kept(h, e, t, m, c, left)
<1>1. \A i \in 1..c : i \in Versions /\ i # 0
  BY WatchAssumption DEF Versions
<1> QED
  BY <1>1 DEF Grows, Kept

LEMMA ForcedGrows ==
    ASSUME NEW d, NEW s, NEW k, NEW e, NEW t, NEW m, Grows(d, s, k, e, t, m),
           NEW h, NEW c, NEW j \in Jumps, Forced(h, c, d, s, k, j)
    PROVE  Forced(h, c, e, t, m, j)
<1>1. j.to \in Versions
  BY DEF Jumps
<1> QED
  BY <1>1, KeptGrows DEF Forced

\* The server's history grows, and what it has forgotten too.
LEMMA UpToLater ==
    ASSUME NEW h \in Seq(Change1), NEW x \in Change1, NEW d, NEW s, NEW k, NEW c \in Nat,
           UpTo(h, d, s, k, c)
    PROVE  UpTo(Append(h, x), d, s, k, c)
<1>1. Len(Append(h, x)) = Len(h) + 1 /\ \A i \in 1..Len(h) : Append(h, x)[i] = h[i]
  OBVIOUS
<1>2. Len(h) \in Nat /\ c <= Len(h)
  BY DEF UpTo
<1> QED
  BY <1>1, <1>2 DEF UpTo

LEMMA KeptLater ==
    ASSUME NEW h \in Seq(Change1), NEW x \in Change1, NEW d, NEW s, NEW k, NEW c \in Nat,
           c <= Len(h), NEW left, Kept(h, d, s, k, c, left)
    PROVE  Kept(Append(h, x), d, s, k, c, left)
<1> DEFINE g == Append(h, x)
<1>1. \A i \in 1..c : g[i] = h[i]
  OBVIOUS
<1>2. \A i \in 1..c : \A m \in (i + 1)..c : m \in 1..c
  OBVIOUS
<1> HIDE DEF g
<1>3. Kept(g, d, s, k, c, left)
  BY <1>1, <1>2 DEF Kept
<1> QED
  BY <1>3 DEF g

LEMMA ForcedLater ==
    ASSUME NEW h \in Seq(Change1), NEW x \in Change1, NEW c, NEW d, NEW s, NEW k,
           NEW j \in Jumps, Forced(h, c, d, s, k, j)
    PROVE  Forced(Append(h, x), c, d, s, k, j)
<1>1. j.to \in Nat /\ Len(Append(h, x)) = Len(h) + 1 /\ Len(h) \in Nat
  BY WatchAssumption DEF Jumps, Versions
<1> QED
  BY <1>1, KeptLater DEF Forced

-----------------------------------------------------------------------------
(* Records are appended to the queue, and go from its head to the file.    *)

LEMMA PrefixGrows ==
    ASSUME NEW d, NEW s, NEW k \in Nat, NEW m \in Nat, k <= m
    PROVE  Grows(d, s, k, d, s, m)
<1>1. \A i \in 1..k : i \in 1..m
  OBVIOUS
<1> QED
  BY <1>1 DEF Grows, HasKey, HasGap, HasJump

LEMMA AppendGrows ==
    ASSUME NEW d, NEW s \in Seq(Entries), NEW e \in Entries, NEW k \in Nat, k <= Len(s)
    PROVE  Grows(d, s, k, d, Append(s, e), k)
<1>1. \A i \in 1..k : Append(s, e)[i] = s[i]
  OBVIOUS
<1> QED
  BY <1>1 DEF Grows, HasKey, HasGap, HasJump

LEMMA FileGrows ==
    ASSUME NEW d, NEW e, NEW s, NEW k
    PROVE  Grows(d, s, k, After(d, e), s, k)
BY DEF Grows, HasKey, HasGap, HasJump, After

LEMMA CommitGrows ==
    ASSUME NEW d, NEW s \in Seq(Entries), s # <<>>, NEW k \in 1..Len(s)
    PROVE  Grows(d, s, k, After(d, Head(s)), Tail(s), k - 1)
<1> DEFINE t == Tail(s)
           e == After(d, Head(s))
<1>1. Head(s) = s[1] /\ \A i \in 2..k : i - 1 \in 1..k - 1 /\ t[i - 1] = s[i]
  OBVIOUS
<1>2. \A i \in 1..k : i = 1 \/ i \in 2..k
  OBVIOUS
<1>3. /\ e.keys = d.keys \cup ({s[1].key} \ {0})
      /\ e.gaps = (IF s[1].issue = "gap" THEN d.gaps \cup {s[1].about} ELSE d.gaps)
      /\ e.jumps = d.jumps \cup s[1].jump
  BY <1>1 DEF After
<1> HIDE DEF t, e
<1>4. \A x \in Versions : HasKey(d, s, k, x) /\ x # 0 => HasKey(e, t, k - 1, x)
  BY <1>1, <1>2, <1>3 DEF HasKey
<1>5. \A x \in Versions : HasGap(d, s, k, x) => HasGap(e, t, k - 1, x)
  BY <1>1, <1>2, <1>3 DEF HasGap
<1>6. \A j \in Jumps : HasJump(d, s, k, j) => HasJump(e, t, k - 1, j)
  BY <1>1, <1>2, <1>3 DEF HasJump
<1> QED
  BY <1>4, <1>5, <1>6 DEF Grows, t, e

\* One more record on the queue.
LEMMA MoreGrows ==
    ASSUME NEW d, NEW s \in Seq(Entries), NEW e \in Entries
    PROVE  Grows(d, s, Len(s), d, Append(s, e), Len(Append(s, e)))
<1> DEFINE t == Append(s, e)
<1>1. Len(t) = Len(s) + 1 /\ \A i \in 1..Len(s) : i \in 1..Len(t) /\ t[i] = s[i]
  OBVIOUS
<1> HIDE DEF t
<1>2. Grows(d, s, Len(s), d, t, Len(t))
  BY <1>1 DEF Grows, HasKey, HasGap, HasJump
<1> QED
  BY <1>2 DEF t

-----------------------------------------------------------------------------
(* The invariant.                                                          *)

Typed ==
    /\ history \in Seq(Change1) /\ Len(history) <= MaxVersion
    /\ compacted \in Versions
    /\ version \in [Processes -> Versions]
    /\ todo \in [Processes -> SUBSET Versions]
    /\ snap \in [Processes -> Versions]
    /\ prob \in [Processes -> Problems]
    /\ lost \in [Processes -> Versions]
    /\ expired \in [Processes -> Versions]
    /\ pending \in [Processes -> Seq(Entries)]
    /\ db \in File

\* Against the file and all that p has accepted.
Now(p, c)        == UpTo(history, db, pending[p], Len(pending[p]), c)
GapNow(p, x)     == HasGap(db, pending[p], Len(pending[p]), x)
KeptNow(p, t, l) == Kept(history, db, pending[p], Len(pending[p]), t, l)

Clean(p) ==
    pc[p] = "idle" => version[p] = 0 /\ snap[p] = 0 /\ prob[p] = "none" /\ expired[p] = 0

Watching(p) ==
    /\ Now(p, version[p])
    /\ Now(p, expired[p])
    /\ expired[p] # 0 => expired[p] < compacted /\ pc[p] \in {"list", "items"}
    /\ (prob[p] = "gap" \/ expired[p] # 0) => GapNow(p, lost[p])
    /\ pc[p] = "items" => snap[p] <= Len(history) /\ KeptNow(p, snap[p], todo[p])

Queue(p) ==
    \A k \in 1..Len(pending[p]) : EntryOK(history, compacted, db, pending[p], k)

IInv ==
    /\ Typed /\ LockInv
    /\ FileOK(history, compacted, db)
    /\ \A p \in Processes : Clean(p) /\ Watching(p) /\ Queue(p)

-----------------------------------------------------------------------------
LEMMA Zero == 0 \in Versions /\ Versions \subseteq Nat
BY WatchAssumption DEF Versions

LEMMA EntryTypes ==
    ASSUME NEW key \in Versions, NEW cursor \in Versions, NEW what \in Problems,
           NEW v \in Versions, NEW J \in SUBSET Jumps
    PROVE  /\ Entry(key, cursor) \in Entries
           /\ [Entry(0, 0) EXCEPT !.issue = what, !.about = v] \in Entries
           /\ [Entry(0, cursor) EXCEPT !.jump = J] \in Entries
BY Zero DEF Entry, Entries, Problems

\* problem leaves the queue, or puts an issue on it that moves no version.
Issue(p, what, v) ==
    pending' = [pending EXCEPT ![p] = Append(pending[p],
                   [Entry(0, 0) EXCEPT !.issue = what, !.about = v])]

LEMMA ProblemAdds ==
    ASSUME Typed, NEW p \in Processes, NEW what \in Problems, NEW v \in Versions,
           problem(p, what, v)
    PROVE  /\ prob' = [prob EXCEPT ![p] = what] /\ prob' \in [Processes -> Problems]
           /\ \/ prob[p] = what /\ UNCHANGED pending
              \/ prob[p] # what /\ Issue(p, what, v)
BY DEF Typed, problem, add, Issue

\* What p has accepted grows by at most one record.
Adds(p) ==
    \/ UNCHANGED pending
    \/ \E e \in Entries : pending' = [pending EXCEPT ![p] = Append(pending[p], e)]

LEMMA AddsTyped ==
    ASSUME Typed, NEW p \in Processes, Adds(p)
    PROVE  pending' \in [Processes -> Seq(Entries)]
<1> DEFINE S == Seq(Entries)
<1>1. pending \in [Processes -> S] /\ pending[p] \in Seq(Entries)
  BY DEF Typed
<1>2. ASSUME NEW e \in Entries, pending' = [pending EXCEPT ![p] = Append(pending[p], e)]
      PROVE  pending' \in [Processes -> S]
  <2>1. Append(pending[p], e) \in S
    BY <1>1
  <2> HIDE DEF S
  <2> QED
    BY <1>1, <1>2, <2>1
<1> QED
  BY <1>1, <1>2 DEF Adds

LEMMA AddsCover ==
    ASSUME Typed, NEW p \in Processes, Adds(p), UNCHANGED <<history, db>>
    PROVE  /\ \A c \in Versions : Now(p, c) => UpTo(history, db, pending'[p], Len(pending'[p]), c)
           /\ \A x \in Versions : GapNow(p, x) => HasGap(db, pending'[p], Len(pending'[p]), x)
           /\ \A t \in Versions : \A l : KeptNow(p, t, l) =>
                 Kept(history, db, pending'[p], Len(pending'[p]), t, l)
<1> DEFINE s == pending[p]
           t == pending'[p]
<1>1. t = s \/ \E e \in Entries : t = Append(s, e)
  BY DEF Adds, Typed
<1>2. s \in Seq(Entries)
  BY DEF Typed
<1>3. Grows(db, s, Len(s), db, t, Len(t))
  <2> HIDE DEF s, t
  <2>1. CASE t = s
    BY <2>1 DEF Grows
  <2>2. ASSUME NEW e \in Entries, t = Append(s, e) PROVE Grows(db, s, Len(s), db, t, Len(t))
    BY <1>2, <2>2, MoreGrows
  <2> QED
    BY <1>1, <2>1, <2>2
<1> HIDE DEF t
<1>4. \A c \in Versions : Now(p, c) => UpTo(history, db, t, Len(t), c)
  BY <1>3, UpToGrows DEF Now
<1>5. \A x \in Versions : GapNow(p, x) => HasGap(db, t, Len(t), x)
  BY <1>3 DEF GapNow, Grows
<1>6. ASSUME NEW c \in Versions, NEW l, KeptNow(p, c, l) PROVE Kept(history, db, t, Len(t), c, l)
  BY <1>3, <1>6, KeptGrows DEF KeptNow
<1> QED
  BY <1>4, <1>5, <1>6 DEF t

-----------------------------------------------------------------------------
(* One process moves, the file stays.                                      *)

Own(p) ==
    /\ UNCHANGED <<history, compacted, db>>
    /\ version' \in [Processes -> Versions] /\ todo' \in [Processes -> SUBSET Versions]
    /\ snap' \in [Processes -> Versions] /\ prob' \in [Processes -> Problems]
    /\ lost' \in [Processes -> Versions] /\ expired' \in [Processes -> Versions]
    /\ pending' \in [Processes -> Seq(Entries)]
    /\ \A q \in Processes : q # p =>
          /\ pc'[q] = pc[q] /\ version'[q] = version[q] /\ todo'[q] = todo[q]
          /\ snap'[q] = snap[q] /\ prob'[q] = prob[q] /\ lost'[q] = lost[q]
          /\ expired'[q] = expired[q] /\ pending'[q] = pending[q]

\* The record put last is as the invariant wants it.
LastOK(p) == EntryOK(history, compacted, db, pending[p], Len(pending[p]))

LEMMA OwnKeeps ==
    ASSUME IInv, NEW p \in Processes, Own(p), LockInv', Clean(p)', Watching(p)',
           \/ pending'[p] = <<>>
           \/ pending'[p] = pending[p]
           \/ /\ \E e \in Entries : pending'[p] = Append(pending[p], e)
              /\ LastOK(p)'
    PROVE  IInv'
<1>1. Typed'
  BY DEF IInv, Typed, Own
<1>2. FileOK(history, compacted, db)'
  BY DEF IInv, Own
<1>3. ASSUME NEW q \in Processes, q # p PROVE (Clean(q) /\ Watching(q) /\ Queue(q))'
  BY <1>3 DEF IInv, Own, Clean, Watching, Queue, Now, GapNow, KeptNow
<1>4. Queue(p)'
  <2>1. CASE pending'[p] = <<>>
    BY <2>1 DEF Queue
  <2>2. CASE pending'[p] = pending[p]
    BY <2>2 DEF IInv, Own, Queue
  <2>3. ASSUME NEW e \in Entries, pending'[p] = Append(pending[p], e), LastOK(p)'
        PROVE  Queue(p)'
    <3> DEFINE s == pending[p]
               t == Append(s, e)
               n == Len(s)
    <3>1. s \in Seq(Entries) /\ n \in Nat
      BY DEF IInv, Typed
    <3>2. Len(t) = n + 1 /\ \A k \in 1..n : t[k] = s[k] /\ s[k] \in Entries
      BY <3>1
    <3>3. ASSUME NEW k \in 1..n PROVE EntryOK(history, compacted, db, t, k)
      <4>1. EntryOK(history, compacted, db, s, k)
        BY DEF IInv, Queue
      <4>2. Grows(db, s, k, db, t, k)
        BY <3>1, AppendGrows
      <4>3. t[k] = s[k] /\ s[k].cursor \in Versions /\ s[k].jump \subseteq Jumps
        BY <3>2 DEF Entries
      <4> HIDE DEF t
      <4> QED
        BY <4>1, <4>2, <4>3, UpToGrows, ForcedGrows DEF EntryOK
    <3>4. EntryOK(history, compacted, db, t, n + 1)
      BY <2>3, <3>2 DEF LastOK, Own
    <3>5. \A k \in 1..n + 1 : k \in 1..n \/ k = n + 1
      BY <3>1
    <3> QED
      BY <2>3, <3>2, <3>3, <3>4, <3>5 DEF Queue, Own
  <2> QED
    BY <2>1, <2>2, <2>3
<1> QED
  BY <1>1, <1>2, <1>3, <1>4 DEF IInv

-----------------------------------------------------------------------------
(* Sessions.                                                               *)

LEMMA NothingNow == Typed => \A p \in Processes : Now(p, 0)
BY Zero DEF Typed, Now, UpTo

\* A process without a goroutine has forgotten its version.
LEMMA IdleWatches ==
    ASSUME Typed, NEW p \in Processes, version[p] = 0, expired[p] = 0, prob[p] = "none",
           pc[p] = "idle"
    PROVE  Watching(p)
BY NothingNow DEF Watching

LEMMA IdleKeeps ==
    ASSUME IInv, NEW p \in Processes, LockInv', Own(p), pc'[p] = "idle",
           version'[p] = 0, expired'[p] = 0, prob'[p] = "none", snap'[p] = 0,
           pending'[p] = <<>> \/ pending'[p] = pending[p]
    PROVE  IInv'
<1>1. Typed'
  BY DEF IInv, Typed, Own
<1>2. Watching(p)'
  <2>1. Now(p, 0)'
    BY <1>1, Zero DEF Typed, Now, UpTo
  <2> QED
    BY <2>1 DEF Watching
<1>3. Clean(p)'
  BY DEF Clean
<1> QED
  BY <1>2, <1>3, OwnKeeps

LEMMA ForgetFrame ==
    ASSUME Typed, NEW p \in Processes, Shape, Forget(p), UNCHANGED <<history, compacted, db>>,
           UNCHANGED pending \/ pending' = [pending EXCEPT ![p] = <<>>]
    PROVE  /\ Own(p) /\ pc'[p] = "idle" /\ version'[p] = 0 /\ expired'[p] = 0
           /\ prob'[p] = "none" /\ snap'[p] = 0
           /\ pending'[p] = <<>> \/ pending'[p] = pending[p]
<1>1. /\ pc'[p] = "idle" /\ version'[p] = 0 /\ expired'[p] = 0
      /\ prob'[p] = "none" /\ snap'[p] = 0
  BY DEF Forget, Typed, Shape
<1>2. /\ version' \in [Processes -> Versions] /\ todo' \in [Processes -> SUBSET Versions]
      /\ snap' \in [Processes -> Versions] /\ lost' \in [Processes -> Versions]
      /\ expired' \in [Processes -> Versions]
  BY Zero DEF Forget, Typed
<1>3. prob' \in [Processes -> Problems]
  BY DEF Forget, Typed, Problems
<1>4. pending' \in [Processes -> Seq(Entries)]
      /\ (pending'[p] = <<>> \/ pending'[p] = pending[p])
      /\ \A q \in Processes : q # p => pending'[q] = pending[q]
  <2> DEFINE S == Seq(Entries)
  <2>1. <<>> \in S /\ pending \in [Processes -> S]
    BY DEF Typed
  <2> HIDE DEF S
  <2>2. pending' \in [Processes -> S]
        /\ (pending'[p] = <<>> \/ pending'[p] = pending[p])
        /\ \A q \in Processes : q # p => pending'[q] = pending[q]
    BY <2>1
  <2> QED
    BY <2>2 DEF S
<1>5. \A q \in Processes : q # p =>
         /\ pc'[q] = pc[q] /\ version'[q] = version[q] /\ todo'[q] = todo[q]
         /\ snap'[q] = snap[q] /\ prob'[q] = prob[q] /\ lost'[q] = lost[q]
         /\ expired'[q] = expired[q]
  BY DEF Forget, Typed, Shape
<1> QED
  BY <1>1, <1>2, <1>3, <1>4, <1>5 DEF Own

LEMMA SessionKeeps ==
    ASSUME IInv, LockInv', NEW p \in Processes, Session(p) \/ WatchReturns(p)
    PROVE  IInv'
<1>1. CASE Start(p) \/ Cancel(p) \/ Unlock(p) \/ ArchiveFails(p)
  <2>1. UNCHANGED <<history, compacted, watcher, db>>
    BY <1>1 DEF Start, Cancel, Unlock, ArchiveFails, server
  <2> QED
    BY <2>1 DEF watcher, IInv, Typed, Clean, Watching, Queue, Now, GapNow, KeptNow
<1>2. CASE startCollector(p)
  <2>1. pc[p] = "idle"
    BY <1>2 DEF startCollector, IInv, LockInv, Locked, Holding
  <2>2. /\ UNCHANGED <<history, compacted, db, version, todo, snap, prob, lost, expired, pending>>
        /\ pc'[p] = "read" /\ \A q \in Processes : q # p => pc'[q] = pc[q]
    BY <1>2 DEF startCollector, server, IInv, LockInv, Shape
  <2>3. Own(p)
    BY <2>2 DEF Own, IInv, Typed
  <2>4. Watching(p)'
    BY <2>1, <2>2 DEF IInv, Clean, Watching, Now
  <2>5. Clean(p)'
    BY <2>2 DEF Clean
  <2> QED
    BY <2>2, <2>3, <2>4, <2>5, OwnKeeps
<1>3. CASE Closed(p)
  <2>1. pc[p] = "idle"
    BY <1>3 DEF Closed, IInv, LockInv, Locked, Holding
  <2>2. /\ UNCHANGED <<history, compacted, db, pc, version, todo, snap, prob, lost, expired>>
        /\ pending' = [pending EXCEPT ![p] = <<>>]
    BY <1>3 DEF Closed, server
  <2>3. Own(p) /\ pending'[p] = <<>>
    BY <2>2 DEF Own, IInv, Typed
  <2> QED
    BY <2>1, <2>2, <2>3, IdleKeeps DEF IInv, Clean
<1>4. CASE Crash(p) \/ WatchReturns(p)
  <2>1. /\ Forget(p) /\ UNCHANGED <<history, compacted, db>>
        /\ UNCHANGED pending \/ pending' = [pending EXCEPT ![p] = <<>>]
    BY <1>4 DEF Crash, WatchReturns, server
  <2> QED
    BY <2>1, ForgetFrame, IdleKeeps DEF IInv, LockInv
<1> QED
  BY <1>1, <1>2, <1>3, <1>4 DEF Session

-----------------------------------------------------------------------------
(* The watch goroutine.                                                    *)

\* At a new version: what is covered with the record that was put last.
LEMMA AddedKeeps ==
    ASSUME IInv, NEW p \in Processes, NEW e \in Entries,
           UNCHANGED <<history, db>>,
           pending' = [pending EXCEPT ![p] = Append(pending[p], e)]
    PROVE  /\ Adds(p) /\ pending'[p] = Append(pending[p], e)
           /\ pending' \in [Processes -> Seq(Entries)]
           /\ \A q \in Processes : q # p => pending'[q] = pending[q]
           /\ Len(pending'[p]) = Len(pending[p]) + 1 /\ pending'[p][Len(pending'[p])] = e
           /\ HasKey(db, pending'[p], Len(pending'[p]), e.key)
           /\ e.issue = "gap" => HasGap(db, pending'[p], Len(pending'[p]), e.about)
           /\ \A j \in e.jump : HasJump(db, pending'[p], Len(pending'[p]), j)
<1>1. Adds(p) /\ pending'[p] = Append(pending[p], e)
      /\ \A q \in Processes : q # p => pending'[q] = pending[q]
  BY DEF Adds, IInv, Typed
<1>2. pending' \in [Processes -> Seq(Entries)]
  BY <1>1, AddsTyped DEF IInv
<1> DEFINE s == pending[p]
           t == pending'[p]
<1>3. Len(t) = Len(s) + 1 /\ t[Len(t)] = e /\ Len(t) \in 1..Len(t)
  <2>1. s \in Seq(Entries)
    BY DEF IInv, Typed
  <2> QED
    BY <1>1, <2>1
<1> HIDE DEF s, t
<1>4. /\ HasKey(db, t, Len(t), e.key)
      /\ e.issue = "gap" => HasGap(db, t, Len(t), e.about)
      /\ \A j \in e.jump : HasJump(db, t, Len(t), j)
  BY <1>3 DEF HasKey, HasGap, HasJump
<1> QED
  BY <1>1, <1>2, <1>3, <1>4 DEF s, t

\* The file covers its version for every process.
LEMMA FileCovers == ASSUME IInv, NEW p \in Processes PROVE Now(p, db.cursor)
<1>1. Grows(db, <<>>, 0, db, pending[p], Len(pending[p]))
  BY DEF Grows, HasKey, HasGap, HasJump
<1>2. db.cursor \in Versions /\ UpTo(history, db, <<>>, 0, db.cursor)
  BY DEF IInv, Typed, File, FileOK
<1> QED
  BY <1>1, <1>2, UpToGrows DEF Now

\* readCursor, the answers that change nothing on the queue.
LEMMA QuietKeeps ==
    ASSUME IInv, LockInv', NEW p \in Processes,
           readCursor(p) \/ List(p) \/ GetStarts(p) \/ StreamEnds(p)
    PROVE  IInv'
<1>1. UNCHANGED <<history, compacted, db, pending>>
  BY DEF readCursor, List, GetStarts, StreamEnds, still, server
<1>2. /\ pc \in [Processes -> {"idle", "read", "list", "items", "get", "stream"}]
      /\ Typed /\ Watching(p)
  BY DEF IInv, LockInv, Shape
<1>3. CASE readCursor(p)
  <2>1. /\ version' = [version EXCEPT ![p] = db.cursor] /\ pc[p] = "read"
        /\ pc' = [pc EXCEPT ![p] = IF db.cursor = 0 THEN "list" ELSE "get"]
        /\ UNCHANGED <<todo, snap, prob, lost, expired>>
    BY <1>3 DEF readCursor, At, Goto
  <2>2. db.cursor \in Versions
    BY <1>2 DEF Typed, File
  <2>3. Own(p)
    BY <1>1, <1>2, <2>1, <2>2 DEF Own, Typed
  <2>4. Watching(p)'
    BY <1>1, <1>2, <2>1, FileCovers DEF Typed, Watching, Now, GapNow
  <2>5. Clean(p)'
    BY <1>2, <2>1 DEF Clean
  <2> QED
    BY <1>1, <2>3, <2>4, <2>5, OwnKeeps
<1>4. CASE List(p)
  <2>1. /\ snap' = [snap EXCEPT ![p] = Len(history)] /\ todo' = [todo EXCEPT ![p] = Listed]
        /\ pc[p] = "list" /\ pc' = [pc EXCEPT ![p] = "items"]
        /\ UNCHANGED <<version, prob, lost, expired>>
    BY <1>4 DEF List, At, Goto, rv
  <2>2. Listed \in SUBSET Versions /\ Len(history) \in Versions
    BY <1>2, WatchAssumption DEF Listed, rv, Typed, Versions
  <2>3. Own(p)
    BY <1>1, <1>2, <2>1, <2>2 DEF Own, Typed
  <2>4. Kept(history, db, pending[p], Len(pending[p]), Len(history), Listed)
    BY DEF Kept, Listed, Mine, rv
  <2>5. Watching(p)'
    BY <1>1, <1>2, <2>1, <2>2, <2>4 DEF Typed, Watching, Now, GapNow, KeptNow
  <2>6. Clean(p)'
    BY <1>2, <2>1 DEF Clean
  <2> QED
    BY <1>1, <2>3, <2>5, <2>6, OwnKeeps
<1>5. CASE GetStarts(p)
  <2>1. /\ prob' = [prob EXCEPT ![p] = "none"] /\ lost' = [lost EXCEPT ![p] = 0]
        /\ pc[p] = "get" /\ pc' = [pc EXCEPT ![p] = "stream"]
        /\ UNCHANGED <<version, todo, snap, expired>>
    BY <1>5 DEF GetStarts, At, Goto
  <2>2. Own(p)
    BY <1>1, <1>2, <2>1, Zero DEF Own, Typed, Problems
  <2>3. expired[p] = 0
    BY <1>2, <2>1 DEF Watching
  <2>4. Watching(p)'
    BY <1>1, <1>2, <2>1, <2>3 DEF Typed, Watching, Now
  <2>5. Clean(p)'
    BY <1>2, <2>1 DEF Clean
  <2> QED
    BY <1>1, <2>2, <2>4, <2>5, OwnKeeps
<1>6. CASE StreamEnds(p)
  <2>1. /\ pc[p] = "stream" /\ pc' = [pc EXCEPT ![p] = "get"]
        /\ UNCHANGED <<version, todo, snap, prob, lost, expired>>
    BY <1>6 DEF StreamEnds, At, Goto
  <2>2. Own(p)
    BY <1>1, <1>2, <2>1 DEF Own, Typed
  <2>3. Watching(p)'
    BY <1>1, <1>2, <2>1 DEF Typed, Watching, Now, GapNow
  <2>4. Clean(p)'
    BY <1>2, <2>1 DEF Clean
  <2> QED
    BY <1>1, <2>2, <2>3, <2>4, OwnKeeps
<1> QED
  BY <1>3, <1>4, <1>5, <1>6

\* A capture issue: no version moves.
LEMMA IssueAdds ==
    ASSUME IInv, NEW p \in Processes, NEW what \in Problems, NEW v \in Versions,
           problem(p, what, v), UNCHANGED <<history, compacted, db>>
    PROVE  /\ Adds(p) /\ pending' \in [Processes -> Seq(Entries)]
           /\ \A q \in Processes : q # p => pending'[q] = pending[q]
           /\ prob'[p] = what /\ \A q \in Processes : q # p => prob'[q] = prob[q]
           /\ prob' \in [Processes -> Problems]
           /\ \/ pending'[p] = pending[p] /\ prob[p] = what
              \/ /\ \E e \in Entries : pending'[p] = Append(pending[p], e)
                 /\ LastOK(p)'
                 /\ what = "gap" => HasGap(db, pending'[p], Len(pending'[p]), v)
                 /\ prob[p] # what
<1>1. Typed /\ prob' = [prob EXCEPT ![p] = what] /\ prob' \in [Processes -> Problems]
  BY ProblemAdds DEF IInv
<1>2. CASE prob[p] = what /\ UNCHANGED pending
  BY <1>1, <1>2 DEF Typed, Adds
<1>3. CASE prob[p] # what /\ Issue(p, what, v)
  <2> DEFINE e == [Entry(0, 0) EXCEPT !.issue = what, !.about = v]
  <2>1. e \in Entries
    BY EntryTypes, Zero
  <2>2. e.cursor = 0 /\ e.jump = {} /\ e.issue = what /\ e.about = v
    BY DEF Entry
  <2>3. pending' = [pending EXCEPT ![p] = Append(pending[p], e)]
    BY <1>3 DEF Issue
  <2> HIDE DEF e
  <2>4. /\ Adds(p) /\ pending'[p] = Append(pending[p], e)
        /\ pending' \in [Processes -> Seq(Entries)]
        /\ \A q \in Processes : q # p => pending'[q] = pending[q]
        /\ pending'[p][Len(pending'[p])] = e
        /\ e.issue = "gap" => HasGap(db, pending'[p], Len(pending'[p]), e.about)
    BY <2>1, <2>3, AddedKeeps
  <2>5. LastOK(p)'
    BY <1>1, <2>2, <2>4 DEF LastOK, EntryOK, UpTo, Typed
  <2>6. what = "gap" => HasGap(db, pending'[p], Len(pending'[p]), v)
    BY <2>2, <2>4
  <2> QED
    BY <1>1, <1>3, <2>1, <2>4, <2>5, <2>6 DEF Typed
<1> QED
  BY <1>2, <1>3, <1>1, ProblemAdds

LEMMA IssueKeeps ==
    ASSUME IInv, LockInv', NEW p \in Processes,
           readCursorFails(p) \/ ListOversize(p) \/ ListFails(p) \/ RequestFails(p)
               \/ EventOversize(p)
    PROVE  IInv'
<1>1. PICK what \in {"request", "oversize"} : problem(p, what, 0)
  BY DEF readCursorFails, ListOversize, ListFails, RequestFails, EventOversize
<1>2. /\ UNCHANGED <<history, compacted, db, version, todo, snap, lost, expired>>
      /\ \A q \in Processes : q # p => pc'[q] = pc[q]
      /\ pc[p] # "idle" /\ pc'[p] \in {"read", "list", "get"}
      /\ pc'[p] = "list" \/ pc[p] \in {"read", "get", "stream"}
  BY DEF readCursorFails, ListOversize, ListFails, RequestFails, EventOversize, still, server,
     At, Goto, IInv, LockInv, Shape
<1>3. what \in Problems /\ what # "gap" /\ Typed /\ Watching(p) /\ 0 \in Versions
  BY Zero DEF Problems, IInv
<1>4. /\ Adds(p) /\ pending' \in [Processes -> Seq(Entries)]
      /\ \A q \in Processes : q # p => pending'[q] = pending[q]
      /\ prob'[p] = what /\ \A q \in Processes : q # p => prob'[q] = prob[q]
      /\ prob' \in [Processes -> Problems]
      /\ \/ pending'[p] = pending[p]
         \/ (\E e \in Entries : pending'[p] = Append(pending[p], e)) /\ LastOK(p)'
  BY <1>1, <1>2, <1>3, IssueAdds
<1>5. Own(p)
  BY <1>2, <1>3, <1>4 DEF Own, Typed
<1>6. expired[p] # 0 => pc'[p] = "list"
  BY <1>2, <1>3 DEF Watching
<1>7. /\ Now(p, version[p]) => Now(p, version[p])'
      /\ Now(p, expired[p]) => Now(p, expired[p])'
      /\ GapNow(p, lost[p]) => GapNow(p, lost[p])'
  BY <1>2, <1>3, <1>4, AddsCover DEF Typed, Now, GapNow
<1>8. Watching(p)'
  BY <1>2, <1>3, <1>4, <1>6, <1>7 DEF Watching
<1>9. Clean(p)'
  BY <1>2 DEF Clean
<1> QED
  BY <1>4, <1>5, <1>8, <1>9, OwnKeeps

LEMMA ExpiredKeeps ==
    ASSUME IInv, LockInv', NEW p \in Processes, Expired(p)
    PROVE  IInv'
<1>1. /\ UNCHANGED <<history, compacted, db, todo, snap>>
      /\ problem(p, "gap", version[p]) /\ version[p] < compacted
      /\ lost' = [lost EXCEPT ![p] = IF prob[p] = "gap" THEN lost[p] ELSE version[p]]
      /\ expired' = [expired EXCEPT ![p] = version[p]]
      /\ version' = [version EXCEPT ![p] = 0]
      /\ pc[p] \in {"get", "stream"} /\ pc' = [pc EXCEPT ![p] = "list"]
  BY DEF Expired, At, Goto, still, server
<1>2. /\ Typed /\ Watching(p) /\ 0 \in Versions /\ "gap" \in Problems /\ version[p] \in Versions
      /\ lost[p] \in Versions
      /\ pc \in [Processes -> {"idle", "read", "list", "items", "get", "stream"}]
  BY Zero DEF Problems, IInv, Typed, LockInv, Shape
<1>3. /\ Adds(p) /\ pending' \in [Processes -> Seq(Entries)]
      /\ \A q \in Processes : q # p => pending'[q] = pending[q]
      /\ prob'[p] = "gap" /\ \A q \in Processes : q # p => prob'[q] = prob[q]
      /\ prob' \in [Processes -> Problems]
      /\ \/ pending'[p] = pending[p] /\ prob[p] = "gap"
         \/ /\ \E e \in Entries : pending'[p] = Append(pending[p], e)
            /\ LastOK(p)'
            /\ HasGap(db, pending'[p], Len(pending'[p]), version[p])
            /\ prob[p] # "gap"
  BY <1>1, <1>2, IssueAdds
<1>4. Own(p)
  BY <1>1, <1>2, <1>3 DEF Own, Typed
<1>5. lost'[p] = (IF prob[p] = "gap" THEN lost[p] ELSE version[p]) /\ expired'[p] = version[p]
      /\ version'[p] = 0 /\ pc'[p] = "list"
  BY <1>1, <1>2 DEF Typed
<1>6. HasGap(db, pending'[p], Len(pending'[p]), lost'[p])
  <2>1. CASE prob[p] = "gap"
    <3>1. GapNow(p, lost[p])
      BY <1>2, <2>1 DEF Watching
    <3> QED
      BY <1>1, <1>2, <1>3, <1>5, <2>1, <3>1, AddsCover
  <2>2. CASE prob[p] # "gap"
    BY <1>3, <1>5, <2>2
  <2> QED
    BY <2>1, <2>2
<1>7. UpTo(history, db, pending'[p], Len(pending'[p]), version[p])
  BY <1>1, <1>2, <1>3, AddsCover DEF Watching
<1>8. Now(p, 0)'
  BY <1>1, <1>2 DEF Now, UpTo, Typed
<1>9. Watching(p)'
  BY <1>1, <1>5, <1>6, <1>7, <1>8 DEF Watching, Now, GapNow
<1>10. Clean(p)'
  BY <1>5 DEF Clean
<1> QED
  BY <1>3, <1>4, <1>9, <1>10, OwnKeeps

LEMMA ListItemKeeps ==
    ASSUME IInv, LockInv', NEW p \in Processes, ListItem(p)
    PROVE  IInv'
<1>1. PICK i \in todo[p] :
         /\ todo' = [todo EXCEPT ![p] = todo[p] \ {i}]
         /\ pending' = [pending EXCEPT ![p] = Append(pending[p], Entry(i, 0))]
  BY DEF ListItem, add
<1>2. /\ UNCHANGED <<history, compacted, db, pc, version, snap, prob, lost, expired>>
      /\ pc[p] = "items"
  BY DEF ListItem, Adding, still, server
<1>3. Typed /\ Watching(p) /\ i \in Versions /\ snap[p] \in Versions
  BY <1>1 DEF IInv, Typed
<1> DEFINE e == Entry(i, 0)
<1>4. e \in Entries /\ e.key = i /\ e.cursor = 0 /\ e.jump = {}
  <2>1. {} \in SUBSET Jumps /\ "none" \in Problems
    BY DEF Problems
  <2> QED
    BY <1>3, <2>1, EntryTypes, Zero DEF Entry
<1> HIDE DEF e
<1>5. /\ Adds(p) /\ pending'[p] = Append(pending[p], e)
      /\ pending' \in [Processes -> Seq(Entries)]
      /\ \A q \in Processes : q # p => pending'[q] = pending[q]
      /\ pending'[p][Len(pending'[p])] = e
      /\ HasKey(db, pending'[p], Len(pending'[p]), i)
  <2>1. pending' = [pending EXCEPT ![p] = Append(pending[p], e)]
    BY <1>1 DEF e
  <2> QED
    BY <1>2, <1>4, <2>1, AddedKeeps
<1>6. Own(p)
  BY <1>1, <1>2, <1>3, <1>5 DEF Own, Typed
<1>7. LastOK(p)'
  BY <1>2, <1>3, <1>4, <1>5 DEF LastOK, EntryOK, UpTo, Typed
<1>8. Now(p, version[p])' /\ Now(p, expired[p])'
      /\ (GapNow(p, lost[p]) => GapNow(p, lost[p])')
  BY <1>2, <1>3, <1>5, AddsCover DEF Watching, Now, GapNow, Typed
<1>9. KeptNow(p, snap[p], todo[p])'
  <2>1. Kept(history, db, pending'[p], Len(pending'[p]), snap[p], todo[p])
    BY <1>2, <1>3, <1>5, AddsCover DEF Watching
  <2>2. todo'[p] = todo[p] \ {i}
    BY <1>1, <1>3 DEF Typed
  <2>3. Kept(history, db, pending'[p], Len(pending'[p]), snap[p], todo'[p])
    BY <1>5, <2>1, <2>2 DEF Kept
  <2> QED
    BY <1>2, <2>3 DEF KeptNow
<1>10. Watching(p)' /\ Clean(p)'
  BY <1>2, <1>3, <1>8, <1>9 DEF Watching, Clean
<1> QED
  BY <1>4, <1>5, <1>6, <1>7, <1>10, OwnKeeps

LEMMA ListEndsKeeps ==
    ASSUME IInv, LockInv', NEW p \in Processes, ListEnds(p)
    PROVE  IInv'
<1> DEFINE c == snap[p]
           j == [from |-> expired[p], first |-> lost[p], to |-> c]
           e == [Entry(0, c) EXCEPT !.jump = {j}]
<1>1. /\ UNCHANGED <<history, compacted, db, todo, prob, lost>>
      /\ pc[p] = "items" /\ todo[p] = {}
      /\ version' = [version EXCEPT ![p] = c] /\ snap' = [snap EXCEPT ![p] = 0]
      /\ expired' = [expired EXCEPT ![p] = 0] /\ pc' = [pc EXCEPT ![p] = "get"]
      /\ pending' = [pending EXCEPT ![p] = Append(pending[p], e)]
  BY DEF ListEnds, Adding, Goto, still, server, add
<1>2. /\ Typed /\ Watching(p) /\ c \in Versions /\ expired[p] \in Versions
      /\ lost[p] \in Versions /\ 0 \in Versions
      /\ pc \in [Processes -> {"idle", "read", "list", "items", "get", "stream"}]
  BY Zero DEF IInv, Typed, LockInv, Shape
<1>3. j \in Jumps /\ j.from = expired[p] /\ j.first = lost[p] /\ j.to = c
  BY <1>2 DEF Jumps
<1> HIDE DEF j
<1>4. e \in Entries /\ e.cursor = c /\ e.jump = {j}
  <2>1. {j} \in SUBSET Jumps /\ "none" \in Problems
    BY <1>3 DEF Problems
  <2> QED
    BY <1>2, <2>1, EntryTypes DEF Entry
<1> HIDE DEF e, c
<1> DEFINE t == pending'[p]
<1>5. /\ Adds(p) /\ t = Append(pending[p], e)
      /\ pending' \in [Processes -> Seq(Entries)]
      /\ \A q \in Processes : q # p => pending'[q] = pending[q]
      /\ t[Len(t)] = e /\ HasJump(db, t, Len(t), j)
  BY <1>1, <1>4, AddedKeeps
<1>6. Own(p)
  BY <1>1, <1>2, <1>5 DEF Own, Typed
<1>7. /\ UpTo(history, db, t, Len(t), expired[p])
      /\ expired[p] # 0 => HasGap(db, t, Len(t), lost[p])
      /\ Kept(history, db, t, Len(t), c, {})
  BY <1>1, <1>2, <1>5, AddsCover DEF Watching, c
<1>8. c <= Len(history)
  BY <1>1, <1>2 DEF Watching, c
<1> HIDE DEF t
<1>9. UpTo(history, db, t, Len(t), c)
  <2>1. ASSUME NEW i \in 1..c, history[i].obj # Other PROVE Covered(db, t, Len(t), i)
    <3>1. CASE i <= expired[p]
      <4>1. i \in 1..expired[p]
        BY <1>2, <3>1, Zero
      <4> QED
        BY <1>7, <2>1, <4>1 DEF UpTo
    <3>2. CASE expired[p] < i
      <4>1. Skipped(i, j)
        BY <1>3, <3>2 DEF Skipped
      <4> QED
        BY <1>3, <1>5, <1>7, <4>1 DEF Covered, t
    <3>3. i \in Nat /\ expired[p] \in Nat
      BY <1>2, WatchAssumption DEF Versions
    <3>4. i <= expired[p] \/ expired[p] < i
      BY <3>3
    <3> QED
      BY <3>1, <3>2, <3>4
  <2> QED
    BY <1>8, <2>1 DEF UpTo
<1>10. Forced(history, compacted, db, t, Len(t), j)
  BY <1>2, <1>3, <1>7, <1>8 DEF Forced, Watching
<1>11. LastOK(p)'
  BY <1>1, <1>4, <1>5, <1>9, <1>10 DEF LastOK, EntryOK, t
<1>12. /\ version'[p] = c /\ expired'[p] = 0 /\ pc'[p] = "get"
  BY <1>1, <1>2 DEF Typed
<1>13. Now(p, version[p])' /\ Now(p, expired[p])'
  BY <1>1, <1>2, <1>9, <1>12 DEF Now, UpTo, Typed, t
<1>14. prob[p] = "gap" => GapNow(p, lost[p])'
  BY <1>1, <1>2, <1>5, AddsCover DEF Watching, GapNow
<1>15. Watching(p)'
  BY <1>1, <1>12, <1>13, <1>14 DEF Watching
<1>16. Clean(p)'
  BY <1>12 DEF Clean
<1> QED
  BY <1>4, <1>5, <1>6, <1>11, <1>15, <1>16, OwnKeeps DEF t

LEMMA StreamKeeps ==
    ASSUME IInv, LockInv', NEW p \in Processes, Event(p) \/ Bookmark(p)
    PROVE  IInv'
<1>1. /\ UNCHANGED <<history, compacted, db, pc, todo, snap, prob, lost, expired>>
      /\ pc[p] = "stream"
  BY DEF Event, Bookmark, Adding, still, server
<1>2. /\ Typed /\ Watching(p) /\ version[p] \in Versions /\ 0 \in Versions
      /\ Len(history) \in Nat /\ Len(history) <= MaxVersion
  BY Zero DEF IInv, Typed
<1>3. PICK b \in (version[p] + 1)..Len(history), key \in Nat :
         /\ key \in {0, b}
         /\ \A i \in (version[p] + 1)..b : history[i].obj # Other => i = key
         /\ version' = [version EXCEPT ![p] = b]
         /\ pending' = [pending EXCEPT ![p] = Append(pending[p], Entry(key, b))]
  <2>1. CASE Event(p)
    <3>1. PICK i \in NextEvent(p) :
             /\ version' = [version EXCEPT ![p] = i]
             /\ pending' = [pending EXCEPT ![p] = Append(pending[p], Entry(i, i))]
      BY <2>1 DEF Event, add
    <3>2. i \in (version[p] + 1)..Len(history)
          /\ \A m \in (version[p] + 1)..(i - 1) : history[m].obj = Other
      BY DEF NextEvent, rv, Mine
    <3>3. version[p] \in Nat
      BY <1>2, Zero
    <3>4. i \in Nat /\ i \in {0, i}
      BY <1>2, <3>2, <3>3
    <3>5. \A m \in (version[p] + 1)..i : m \in (version[p] + 1)..(i - 1) \/ m = i
      BY <3>3, <3>4
    <3>6. \A m \in (version[p] + 1)..i : history[m].obj # Other => m = i
      BY <3>2, <3>5
    <3> QED
      BY <3>1, <3>2, <3>4, <3>6
  <2>2. CASE Bookmark(p)
    BY <2>2 DEF Bookmark, add, Mine, rv
  <2> QED
    BY <2>1, <2>2
<1> DEFINE e == Entry(key, b)
<1>4. b \in Versions /\ key \in Versions /\ b <= Len(history)
  BY <1>2, <1>3, WatchAssumption DEF Versions
<1>5. e \in Entries /\ e.key = key /\ e.cursor = b /\ e.jump = {}
  <2>1. {} \in SUBSET Jumps /\ "none" \in Problems
    BY DEF Problems
  <2> QED
    BY <1>2, <1>4, <2>1, EntryTypes DEF Entry
<1> HIDE DEF e
<1> DEFINE t == pending'[p]
<1>6. /\ Adds(p) /\ t = Append(pending[p], e)
      /\ pending' \in [Processes -> Seq(Entries)]
      /\ \A q \in Processes : q # p => pending'[q] = pending[q]
      /\ t[Len(t)] = e /\ HasKey(db, t, Len(t), key)
  <2>1. pending' = [pending EXCEPT ![p] = Append(pending[p], e)]
    BY <1>3 DEF e
  <2> QED
    BY <1>1, <1>5, <2>1, AddedKeeps
<1>7. Own(p)
  BY <1>1, <1>2, <1>3, <1>4, <1>6 DEF Own, Typed
<1>8. UpTo(history, db, t, Len(t), version[p]) /\ UpTo(history, db, t, Len(t), expired[p])
      /\ (prob[p] = "gap" \/ expired[p] # 0 => HasGap(db, t, Len(t), lost[p]))
  BY <1>1, <1>2, <1>6, AddsCover DEF Watching, Typed
<1> HIDE DEF t
<1>9. UpTo(history, db, t, Len(t), b)
  <2>1. ASSUME NEW i \in 1..b, history[i].obj # Other PROVE Covered(db, t, Len(t), i)
    <3>3. i \in Nat /\ version[p] \in Nat /\ b \in Nat /\ i <= b
      BY <1>2, <1>4, WatchAssumption DEF Versions
    <3>1. CASE i <= version[p]
      <4>1. i \in 1..version[p]
        BY <1>2, <3>1, Zero
      <4> QED
        BY <1>8, <2>1, <4>1 DEF UpTo
    <3>2. CASE version[p] < i
      <4>1. i \in (version[p] + 1)..b
        BY <3>2, <3>3
      <4>2. i = key
        BY <1>3, <2>1, <4>1
      <4> QED
        BY <1>6, <4>2 DEF Covered
    <3>4. i <= version[p] \/ version[p] < i
      BY <3>3
    <3> QED
      BY <3>1, <3>2, <3>4
  <2> QED
    BY <1>4, <2>1 DEF UpTo
<1>10. LastOK(p)'
  BY <1>1, <1>5, <1>6, <1>9 DEF LastOK, EntryOK, t
<1>11. version'[p] = b
  BY <1>2, <1>3 DEF Typed
<1>12. Watching(p)'
  BY <1>1, <1>2, <1>8, <1>9, <1>11 DEF Watching, Now, GapNow, t
<1>13. Clean(p)'
  BY <1>1 DEF Clean
<1> QED
  BY <1>5, <1>6, <1>7, <1>10, <1>12, <1>13, OwnKeeps DEF t

LEMMA WatchKeeps ==
    ASSUME IInv, LockInv', NEW p \in Processes, watch(p) PROVE IInv'
BY QuietKeeps, IssueKeeps, ExpiredKeeps, ListItemKeeps, ListEndsKeeps, StreamKeeps, SessionKeeps
DEF watch, Progress

-----------------------------------------------------------------------------
(* The writer, and the server.                                             *)

LEMMA CommitKeeps ==
    ASSUME IInv, LockInv', NEW p \in Processes, Commit(p)
    PROVE  IInv'
<1> DEFINE s == pending[p]
           e == Head(s)
<1>1. /\ s # <<>> /\ db' = After(db, e) /\ pending' = [pending EXCEPT ![p] = Tail(s)]
      /\ UNCHANGED <<history, compacted, pc, version, todo, snap, prob, lost, expired>>
  BY DEF Commit, After, server
<1>2. Typed /\ s \in Seq(Entries) /\ pending \in [Processes -> Seq(Entries)] /\ db \in File
  BY DEF IInv, Typed
<1>3. /\ e \in Entries /\ Len(s) \in Nat /\ 1 \in 1..Len(s) /\ e = s[1]
      /\ Tail(s) \in Seq(Entries) /\ Len(Tail(s)) = Len(s) - 1
      /\ \A k \in 1..Len(s) - 1 : Tail(s)[k] = s[k + 1] /\ s[k + 1] \in Entries
  <2> DEFINE E == Entries
  <2>1. s \in Seq(E) /\ s # <<>>
    BY <1>1, <1>2
  <2> HIDE DEF E, s
  <2> QED
    BY <2>1 DEF E
<1>4. /\ pending'[p] = Tail(s) /\ \A q \in Processes : q # p => pending'[q] = pending[q]
      /\ pending' \in [Processes -> Seq(Entries)]
  BY <1>1, <1>2, <1>3
<1>5. db' \in File
  <2>1. /\ e.key \in Versions /\ e.cursor \in Versions /\ e.issue \in Problems
        /\ e.about \in Versions /\ e.jump \subseteq Jumps
    BY <1>3 DEF Entries
  <2> QED
    BY <1>1, <1>2, <2>1 DEF After, File
<1>6. Typed'
  BY <1>1, <1>2, <1>4, <1>5 DEF Typed
<1>C. \A k \in 1..Len(s) : Grows(db, s, k, db', Tail(s), k - 1)
  BY <1>1, <1>2, CommitGrows
<1> HIDE DEF e, s
\* In the file now: what was covered by the first record and the file before.
<1>7. FileOK(history, compacted, db')
  <2>1. EntryOK(history, compacted, db, s, 1) /\ FileOK(history, compacted, db)
    BY <1>3 DEF IInv, Queue, s
  <2>2. Grows(db, s, 1, db', <<>>, 0)
    <3>1. Grows(db, s, 1, db', Tail(s), 0)
      BY <1>3, <1>C
    <3> QED
      BY <3>1 DEF Grows, HasKey, HasGap, HasJump
  <2>3. Grows(db, <<>>, 0, db', <<>>, 0)
    BY <1>1, FileGrows
  <2>4. UpTo(history, db', <<>>, 0, db'.cursor)
    <3>1. db'.cursor = IF e.cursor = 0 THEN db.cursor ELSE e.cursor
      BY <1>1 DEF After
    <3>2. CASE e.cursor = 0
      BY <1>2, <2>1, <2>3, <3>1, <3>2, UpToGrows DEF FileOK, File
    <3>3. CASE e.cursor # 0
      <4>1. UpTo(history, db, s, 1, e.cursor) /\ e.cursor \in Versions
        BY <1>3, <2>1 DEF EntryOK, Entries
      <4> QED
        BY <2>2, <3>1, <3>3, <4>1, UpToGrows
    <3> QED
      BY <3>2, <3>3
  <2>5. ASSUME NEW j \in db'.jumps PROVE Forced(history, compacted, db', <<>>, 0, j)
    <3>1. j \in db.jumps \/ j \in e.jump
      BY <1>1, <2>5 DEF After
    <3>2. j \in Jumps
      BY <1>5 DEF File
    <3>3. CASE j \in db.jumps
      BY <2>1, <2>3, <3>2, <3>3, ForcedGrows DEF FileOK
    <3>4. CASE j \in e.jump
      <4>1. Forced(history, compacted, db, s, 1, j)
        BY <1>3, <2>1, <3>4 DEF EntryOK
      <4> QED
        BY <2>2, <3>2, <4>1, ForcedGrows
    <3> QED
      BY <3>1, <3>3, <3>4
  <2> QED
    BY <2>4, <2>5 DEF FileOK
<1>8. ASSUME NEW q \in Processes PROVE Watching(q)'
  <2>1. Grows(db, pending[q], Len(pending[q]), db', pending'[q], Len(pending'[q]))
    <3>1. CASE q = p
      <4>1. Len(s) \in 1..Len(s) /\ Len(pending'[p]) = Len(s) - 1
        BY <1>3, <1>4
      <4> QED
        BY <1>4, <3>1, <4>1, <1>C DEF s
    <3>2. CASE q # p
      BY <1>1, <1>4, <3>2, FileGrows
    <3> QED
      BY <3>1, <3>2
  <2>2. /\ version[q] \in Versions /\ expired[q] \in Versions /\ snap[q] \in Versions
        /\ lost[q] \in Versions /\ Watching(q)
    BY DEF IInv, Typed
  <2>3. Now(q, version[q])' /\ Now(q, expired[q])'
    BY <1>1, <2>1, <2>2, UpToGrows DEF Watching, Now
  <2>4. GapNow(q, lost[q]) => GapNow(q, lost[q])'
    BY <1>1, <2>1, <2>2 DEF GapNow, Grows
  <2>5. KeptNow(q, snap[q], todo[q]) => KeptNow(q, snap[q], todo[q])'
    BY <1>1, <2>1, <2>2, KeptGrows DEF KeptNow
  <2> QED
    BY <1>1, <2>2, <2>3, <2>4, <2>5 DEF Watching
<1>9. ASSUME NEW q \in Processes PROVE Queue(q)'
  <2> SUFFICES ASSUME NEW k \in 1..Len(pending'[q])
               PROVE  EntryOK(history, compacted, db', pending'[q], k)
    BY <1>1 DEF Queue
  <2>1. CASE q = p
    <3>1. k + 1 \in 1..Len(s) /\ (k + 1) - 1 = k /\ k \in 1..Len(s) - 1
      BY <1>3, <1>4, <2>1
    <3>2. Grows(db, s, k + 1, db', Tail(s), k)
      BY <3>1, <1>C
    <3>3. EntryOK(history, compacted, db, s, k + 1)
      BY <3>1 DEF IInv, Queue, s
    <3>4. /\ Tail(s)[k] = s[k + 1] /\ s[k + 1].cursor \in Versions
          /\ s[k + 1].jump \subseteq Jumps
      BY <1>3, <3>1 DEF Entries
    <3> QED
      <4>1. UpTo(history, db', Tail(s), k, s[k + 1].cursor)
        BY <3>2, <3>3, <3>4, UpToGrows DEF EntryOK
      <4>2. \A j \in s[k + 1].jump : Forced(history, compacted, db', Tail(s), k, j)
        BY <3>2, <3>3, <3>4, ForcedGrows DEF EntryOK
      <4> QED
        BY <1>4, <2>1, <3>4, <4>1, <4>2 DEF EntryOK
  <2>2. CASE q # p
    <3> DEFINE u == pending[q]
    <3>1. u \in Seq(Entries) /\ pending'[q] = u /\ k \in 1..Len(u)
      BY <1>2, <1>4, <2>2
    <3>5. u[k] \in Entries
      <4> HIDE DEF u
      <4> QED
        BY <3>1
    <3>2. Grows(db, u, k, db', u, k)
      BY <1>1, FileGrows
    <3>3. EntryOK(history, compacted, db, u, k)
      BY <3>1 DEF IInv, Queue
    <3>4. u[k].cursor \in Versions /\ u[k].jump \subseteq Jumps
      BY <3>5 DEF Entries
    <3> HIDE DEF u
    <3> QED
      BY <3>1, <3>2, <3>3, <3>4, UpToGrows, ForcedGrows DEF EntryOK
  <2> QED
    BY <2>1, <2>2
<1>10. \A q \in Processes : Clean(q)'
  BY <1>1 DEF IInv, Clean
<1> QED
  BY <1>1, <1>6, <1>7, <1>8, <1>9, <1>10 DEF IInv

\* The server learns of a change, or forgets some.
LEMMA ServerKeeps ==
    ASSUME IInv, LockInv', Change \/ Compact
    PROVE  IInv'
<1>1. /\ UNCHANGED <<pc, version, todo, snap, prob, lost, expired, pending, db>>
      /\ Typed /\ LockInv
  BY DEF Change, Compact, watcher, IInv
<1>2. CASE Change
  <2>1. PICK x \in Change1 : history' = Append(history, x)
    BY <1>2 DEF Change, Change1
  <2>2. UNCHANGED compacted /\ Len(history) + 1 <= MaxVersion /\ history \in Seq(Change1)
    BY <1>1, <1>2, WatchAssumption DEF Change, rv, Typed
  <2>3. history' \in Seq(Change1) /\ Len(history') = Len(history) + 1
    BY <2>1, <2>2
  <2>4. Typed'
    BY <1>1, <2>2, <2>3 DEF Typed
  <2>5. \A d, s, k : \A c \in Versions : UpTo(history, d, s, k, c) => UpTo(history', d, s, k, c)
    BY <2>1, <2>2, UpToLater, Zero
  <2>6. \A d, s, k : \A j \in Jumps :
           Forced(history, compacted, d, s, k, j) => Forced(history', compacted, d, s, k, j)
    BY <2>1, <2>2, ForcedLater
  <2>7. FileOK(history', compacted, db)
    BY <1>1, <2>5, <2>6 DEF IInv, FileOK, Typed, File
  <2>8. ASSUME NEW p \in Processes PROVE Watching(p)' /\ Clean(p)'
    <3>1. /\ version[p] \in Versions /\ expired[p] \in Versions /\ snap[p] \in Nat
          /\ Watching(p) /\ Clean(p)
      BY <1>1, Zero DEF IInv, Typed
    <3>2. Now(p, version[p])' /\ Now(p, expired[p])'
      BY <1>1, <2>5, <3>1 DEF Watching, Now
    <3>3. snap[p] <= Len(history) /\ KeptNow(p, snap[p], todo[p]) => KeptNow(p, snap[p], todo[p])'
      BY <1>1, <2>1, <2>2, <3>1, KeptLater DEF KeptNow
    <3>4. snap[p] <= Len(history) => snap[p] <= Len(history')
      BY <2>2, <2>3, <3>1
    <3> QED
      BY <1>1, <2>2, <3>1, <3>2, <3>3, <3>4 DEF Watching, Clean, GapNow
  <2>9. ASSUME NEW p \in Processes PROVE Queue(p)'
    <3> SUFFICES ASSUME NEW k \in 1..Len(pending[p])
                 PROVE  EntryOK(history', compacted, db, pending[p], k)
      BY <1>1, <2>2 DEF Queue
    <3>1. pending[p] \in Seq(Entries) /\ EntryOK(history, compacted, db, pending[p], k)
      BY <1>1 DEF IInv, Queue, Typed
    <3>2. pending[p][k] \in Entries
      <4> DEFINE u == pending[p]
      <4> HIDE DEF u
      <4>1. u \in Seq(Entries) /\ k \in 1..Len(u)
        BY <3>1 DEF u
      <4>2. u[k] \in Entries
        BY <4>1
      <4> QED
        BY <4>2 DEF u
    <3>3. pending[p][k].cursor \in Versions /\ pending[p][k].jump \subseteq Jumps
      BY <3>2 DEF Entries
    <3> QED
      BY <2>5, <2>6, <3>1, <3>3 DEF EntryOK
  <2> QED
    BY <1>1, <2>2, <2>4, <2>7, <2>8, <2>9 DEF IInv
<1>3. CASE Compact
  <2>1. UNCHANGED history /\ compacted' = Len(history) /\ compacted < compacted'
    BY <1>3 DEF Compact, rv
  <2>2. Typed' /\ compacted \in Nat /\ compacted' \in Nat
    BY <1>1, <2>1, WatchAssumption DEF Typed, Versions
  <2>3. \A x \in Versions : x < compacted => x < compacted'
    BY <2>1, <2>2, Zero
  <2>4. \A d, s, k : \A j \in Jumps :
           Forced(history, compacted, d, s, k, j) => Forced(history, compacted', d, s, k, j)
    BY <2>3 DEF Forced, Jumps
  <2>5. FileOK(history', compacted', db')
    BY <1>1, <2>1, <2>4 DEF IInv, FileOK, Typed, File
  <2>6. ASSUME NEW p \in Processes PROVE Watching(p)' /\ Clean(p)'
    BY <1>1, <2>1, <2>3 DEF IInv, Watching, Clean, Now, GapNow, KeptNow, Typed
  <2>7. ASSUME NEW p \in Processes PROVE Queue(p)'
    <3> SUFFICES ASSUME NEW k \in 1..Len(pending[p])
                 PROVE  EntryOK(history, compacted', db, pending[p], k)
      BY <1>1, <2>1 DEF Queue
    <3>1. pending[p] \in Seq(Entries) /\ EntryOK(history, compacted, db, pending[p], k)
      BY <1>1 DEF IInv, Queue, Typed
    <3>2. pending[p][k] \in Entries
      <4> DEFINE u == pending[p]
      <4> HIDE DEF u
      <4>1. u \in Seq(Entries) /\ k \in 1..Len(u)
        BY <3>1 DEF u
      <4>2. u[k] \in Entries
        BY <4>1
      <4> QED
        BY <4>2 DEF u
    <3>3. pending[p][k].jump \subseteq Jumps
      BY <3>2 DEF Entries
    <3> QED
      BY <2>4, <3>1, <3>3 DEF EntryOK
  <2> QED
    BY <1>1, <2>2, <2>5, <2>6, <2>7 DEF IInv
<1> QED
  BY <1>2, <1>3

LEMMA InitHolds == Init => IInv
<1> SUFFICES ASSUME Init PROVE IInv
  OBVIOUS
<1> DEFINE first == [obj |-> Other, live |-> TRUE]
<1>1. history = <<first>> /\ first \in Change1 /\ Len(history) = 1 /\ history \in Seq(Change1)
  BY DEF Init, Change1
<1>2. db \in File
  BY Zero DEF Init, File
<1>3. pending \in [Processes -> Seq(Entries)] /\ \A p \in Processes : pending[p] = <<>>
  <2> DEFINE S == Seq(Entries)
  <2>1. <<>> \in S /\ pending = [p \in Processes |-> <<>>]
    BY DEF Init
  <2> HIDE DEF S
  <2>2. pending \in [Processes -> S] /\ \A p \in Processes : pending[p] = <<>>
    BY <2>1
  <2> QED
    BY <2>2 DEF S
<1>4. Typed
  BY <1>1, <1>2, <1>3, Zero, WatchAssumption DEF Init, Typed, Problems
<1>5. FileOK(history, compacted, db)
  BY <1>1 DEF Init, FileOK, UpTo
<1>6. ASSUME NEW p \in Processes PROVE Clean(p) /\ Watching(p) /\ Queue(p)
  <2>1. version[p] = 0 /\ snap[p] = 0 /\ prob[p] = "none" /\ expired[p] = 0 /\ pc[p] = "idle"
    BY DEF Init
  <2>2. Queue(p)
    BY <1>3 DEF Queue
  <2> QED
    BY <1>4, <2>1, <2>2, IdleWatches DEF Clean
<1> QED
  BY <1>4, <1>5, <1>6, InitLock DEF IInv

LEMMA NextKeeps == IInv /\ [Next]_vars => IInv'
<1> SUFFICES ASSUME IInv, [Next]_vars PROVE IInv'
  OBVIOUS
<1>1. LockInv'
  BY NextLock DEF IInv
<1>2. CASE Change \/ Compact
  BY <1>1, <1>2, ServerKeeps
<1>3. ASSUME NEW p \in Processes, Session(p) PROVE IInv'
  BY <1>1, <1>3, SessionKeeps
<1>4. ASSUME NEW p \in Processes, watch(p) PROVE IInv'
  BY <1>1, <1>4, WatchKeeps
<1>5. ASSUME NEW p \in Processes, Commit(p) PROVE IInv'
  BY <1>1, <1>5, CommitKeeps
<1>6. CASE UNCHANGED vars
  BY <1>1, <1>6 DEF vars, IInv, Typed, Clean, Watching, Queue, Now, GapNow, KeptNow
<1> QED
  BY <1>2, <1>3, <1>4, <1>5, <1>6 DEF Next

-----------------------------------------------------------------------------
\* The version on disk is never ahead of the records, for any number of
\* processes that crash, quit, take over and flush late: a successor reads
\* its version from the file and needs nothing else.
THEOREM VersionIsCovered == Safety => []CursorCovered
<1>1. IInv => CursorCovered
  <2> SUFFICES ASSUME IInv, NEW i \in 1..db.cursor, Mine(i)
               PROVE  \/ i \in db.keys
                      \/ \E j \in db.jumps : Skipped(i, j) /\ (j.from # 0 => j.first \in db.gaps)
    BY DEF CursorCovered
  <2>1. Covered(db, <<>>, 0, i)
    BY DEF IInv, FileOK, UpTo, Mine
  <2>2. \A k \in 1..0 : FALSE
    OBVIOUS
  <2> QED
    BY <2>1, <2>2 DEF Covered, HasKey, HasGap, HasJump
<1> QED
  BY <1>1, InitHolds, NextKeeps, PTL DEF Safety

\* A relist that skips history was forced, and archived all that was still
\* listed then: for any number of processes, whose relists may overlap in the
\* file.
THEOREM RelistsAreForced == Safety => []RelistForced
<1>1. IInv => RelistForced
  <2>1. ASSUME IInv, NEW j \in db.jumps
        PROVE  /\ j.from # 0 => j.from < compacted
               /\ \A i \in 1..j.to : (Mine(i) /\ history[i].live /\ i \notin db.keys)
                     => \E k \in (i + 1)..j.to : history[k].obj = history[i].obj
    <3>1. Forced(history, compacted, db, <<>>, 0, j)
      BY <2>1 DEF IInv, FileOK
    <3>2. \A k \in 1..0 : FALSE
      OBVIOUS
    <3> QED
      BY <3>1, <3>2 DEF Forced, Kept, HasKey, Mine
  <2> QED
    BY <2>1 DEF RelistForced
<1> QED
  BY <1>1, InitHolds, NextKeeps, PTL DEF Safety

-----------------------------------------------------------------------------
\* The lock belongs to a session that will give it up: one that collects, or one
\* that waits for its goroutines before it unlocks.
LockIsLive == lock # Nobody => lock \in Processes /\ phase[lock] \in Holding

LEMMA LiveKept == LockInv /\ LockIsLive /\ [Next]_vars => LockIsLive'
<1> SUFFICES ASSUME LockInv, LockIsLive, [Next]_vars PROVE LockIsLive'
  OBVIOUS
<1> USE DEF LockInv, Shape, Locked, LockIsLive, Holding
<1>1. CASE (UNCHANGED <<lock, phase>>)
  BY <1>1
<1>2. ASSUME NEW p \in Processes, Session(p) PROVE LockIsLive'
  <2>1. CASE Start(p) \/ Closed(p)
    BY <2>1 DEF Start, Closed
  <2>2. CASE startCollector(p)
    BY <2>2 DEF startCollector
  <2>3. CASE Cancel(p)
    BY <2>3 DEF Cancel
  <2>4. CASE Unlock(p)
    BY <2>4 DEF Unlock
  <2>5. CASE Crash(p)
    BY <2>5 DEF Crash
  <2>6. CASE ArchiveFails(p)
    BY <1>1, <2>6 DEF ArchiveFails
  <2> QED
    BY <1>2, <2>1, <2>2, <2>3, <2>4, <2>5, <2>6 DEF Session
<1>3. ASSUME NEW p \in Processes, watch(p) \/ Commit(p) PROVE LockIsLive'
  <2>1. Moves(p)
    BY <1>3, WatchMoves
  <2> QED
    BY <1>1, <2>1 DEF Moves
<1>4. CASE Change \/ Compact \/ UNCHANGED vars
  BY <1>1, <1>4 DEF Change, Compact, vars
<1> QED
  BY <1>2, <1>3, <1>4 DEF Next

\* A lock is never left behind: not by a kill, by a quit while the goroutines
\* still run, nor by a session whose archive failed; every process that waits
\* for it waits for one that holds it and works or is on its way out.
THEOREM NoLockIsStale == Safety => []LockIsLive
<1>1. Init => LockIsLive
  BY DEF Init, LockIsLive
<1> QED
  BY <1>1, InitLock, NextLock, LiveKept, PTL DEF Safety
=============================================================================
