------------------------------- MODULE Watch --------------------------------
(***************************************************************************)
(* The recording of one resource kind (src/src/collect.go: startCollector, *)
(* close, watch, storeResource, problem) by the processes that share one   *)
(* archive file: a headless collector and dashboards that take over.       *)
(*                                                                         *)
(* The API server is the environment: a history of numbered changes, of    *)
(* which it forgets a prefix (410 Gone).  A process's archive is taken at  *)
(* the level of DurableLog: records it accepted wait in `pending` and      *)
(* reach the shared file in order.  Committing them one at a time visits   *)
(* every file a batch could leave behind.                                  *)
(***************************************************************************)
EXTENDS Naturals, Sequences, FiniteSets, SequencesExt

CONSTANTS
    Processes,
    Objects,        \* objects of the recorded kind
    Other,          \* any object of another kind: it only moves the version
    Nobody,         \* the collector lock is free
    BigVersions,    \* versions whose object exceeds the archive's record limit
    QueueCap,       \* records a process may have accepted and not committed
    MaxVersion,     \* bound: changes in the cluster
    MaxDisruptions  \* bound: compactions, kills, quits, failed requests, ended
                    \* streams and archive failures, taken together

ASSUME WatchAssumption ==
    /\ Other \notin Objects /\ Nobody \notin Processes
    /\ BigVersions \subseteq Nat
    /\ {QueueCap, MaxVersion} \subseteq Nat \ {0}
    /\ MaxDisruptions \in Nat

VARIABLES
    history,    \* the server's changes: version -> [obj, live]
    compacted,  \* versions below this one are answered with 410
    lock,       \* who holds <archive>.collector.lock
    phase,      \* process -> where its session stands
    pc,         \* process -> where its watch goroutine stands
    version,    \* process -> watch's version; 0 is the empty string
    todo,       \* process -> listed objects (their versions) not yet added
    snap,       \* process -> the version of the list being added
    prob,       \* process -> c.problems[source]
    lost,       \* history: the expired version the open gap record is about
    expired,    \* history: the version the last 410 was about, 0 if none
    pending,    \* process -> records accepted, not durable
    failed,     \* process -> its archive has failed
    db,         \* the shared file
    disruptions \* counts against MaxDisruptions

vars == <<history, compacted, lock, phase, pc, version, todo, snap, prob,
          lost, expired, pending, failed, db, disruptions>>

server == <<history, compacted>>
watcher == <<pc, version, todo, snap, prob, lost, expired, pending>>

Versions == 0..MaxVersion
Problems == {"none", "gap", "request", "oversize"}

\* What add is given: an object record (cursor 0: OBSERVED), a bare cursor,
\* or a capture issue.  from, first and to are history variables: the jump
\* of a relist from an expired version, and the version its gap record names.
Jumps   == [from : Versions, first : Versions, to : Versions]
Entries == [key : Versions, cursor : Versions, issue : Problems,
            about : Versions, jump : SUBSET Jumps]

Entry(key, cursor) ==
    [key |-> key, cursor |-> cursor, issue |-> "none", about |-> 0, jump |-> {}]

TypeOK ==
    /\ history \in Seq([obj : Objects \cup {Other}, live : BOOLEAN])
    /\ compacted \in Versions
    /\ lock \in Processes \cup {Nobody}
    /\ phase \in [Processes ->
                    {"down", "up", "collecting", "stopping", "draining"}]
    /\ pc \in [Processes -> {"idle", "read", "list", "items", "get", "stream"}]
    /\ version \in [Processes -> Versions]
    /\ todo \in [Processes -> SUBSET Versions]
    /\ snap \in [Processes -> Versions]
    /\ prob \in [Processes -> Problems]
    /\ lost \in [Processes -> Versions]
    /\ expired \in [Processes -> Versions]
    /\ pending \in [Processes -> Seq(Entries)]
    /\ failed \in [Processes -> BOOLEAN]
    /\ db.keys \subseteq Versions /\ db.cursor \in Versions
    /\ db.gaps \subseteq Versions /\ db.issues \subseteq Problems
    /\ db.jumps \subseteq Jumps
    /\ disruptions \in 0..MaxDisruptions

-----------------------------------------------------------------------------
(* The API server.                                                         *)

rv == Len(history)
Mine(i) == history[i].obj # Other
Big(i)  == Mine(i) /\ i \in BigVersions

\* The list at the current version: the last change of every live object.
Listed == {i \in 1..rv : /\ Mine(i) /\ history[i].live
                         /\ \A j \in (i + 1)..rv : history[j].obj # history[i].obj}

Disrupt == disruptions < MaxDisruptions /\ disruptions' = disruptions + 1

Change ==
    /\ rv < MaxVersion
    /\ \E o \in Objects \cup {Other}, live \in BOOLEAN :
          /\ ~live => \E i \in Listed : history[i].obj = o
          /\ history' = Append(history, [obj |-> o, live |-> live])
    /\ UNCHANGED <<compacted, lock, phase, watcher, failed, db, disruptions>>

Compact ==
    /\ compacted < rv
    /\ Disrupt
    /\ compacted' = rv
    /\ UNCHANGED <<history, lock, phase, watcher, failed, db>>

-----------------------------------------------------------------------------
(* The archive of a process.                                               *)

Room(p) == Len(pending[p]) < QueueCap
add(p, e) == Room(p) /\ pending' = [pending EXCEPT ![p] = Append(@, e)]

Commit(p) ==
    /\ pending[p] # <<>>
    /\ ~failed[p]
    /\ LET e == Head(pending[p])
       IN  db' = [keys   |-> db.keys \cup ({e.key} \ {0}),
                  cursor |-> IF e.cursor = 0 THEN db.cursor ELSE e.cursor,
                  gaps   |-> IF e.issue = "gap" THEN db.gaps \cup {e.about}
                             ELSE db.gaps,
                  issues |-> db.issues \cup ({e.issue} \ {"none"}),
                  jumps  |-> db.jumps \cup e.jump]
    /\ pending' = [pending EXCEPT ![p] = Tail(@)]
    /\ UNCHANGED <<server, lock, phase, pc, version, todo, snap, prob, lost,
                   expired, failed, disruptions>>

ArchiveFails(p) ==
    /\ phase[p] # "down"
    /\ ~failed[p]
    /\ Disrupt
    /\ failed' = [failed EXCEPT ![p] = TRUE]
    /\ UNCHANGED <<server, lock, phase, watcher, db>>

-----------------------------------------------------------------------------
(* The session around the collector.                                       *)

Forget(p) ==
    /\ pc' = [pc EXCEPT ![p] = "idle"]
    /\ version' = [version EXCEPT ![p] = 0]
    /\ todo' = [todo EXCEPT ![p] = {}]
    /\ snap' = [snap EXCEPT ![p] = 0]
    /\ prob' = [prob EXCEPT ![p] = "none"]
    /\ lost' = [lost EXCEPT ![p] = 0]
    /\ expired' = [expired EXCEPT ![p] = 0]

Start(p) ==
    /\ phase[p] = "down"
    /\ phase' = [phase EXCEPT ![p] = "up"]
    /\ failed' = [failed EXCEPT ![p] = FALSE]
    /\ UNCHANGED <<server, lock, watcher, db, disruptions>>

\* At the start of a session, and at every tick of a dashboard without one.
startCollector(p) ==
    /\ phase[p] = "up"
    /\ lock = Nobody
    /\ lock' = p
    /\ phase' = [phase EXCEPT ![p] = "collecting"]
    /\ pc' = [pc EXCEPT ![p] = "read"]
    /\ UNCHANGED <<server, version, todo, snap, prob, lost, expired, pending,
                   failed, db, disruptions>>

\* Quit, signal or cluster switch: recording.close cancels its context.
Cancel(p) ==
    /\ phase[p] \in {"up", "collecting"}
    /\ Disrupt
    /\ phase' = [phase EXCEPT ![p] = IF @ = "up" THEN "draining" ELSE "stopping"]
    /\ UNCHANGED <<server, lock, watcher, failed, db>>

\* The watch goroutine returns: its context is done, or the archive failed.
WatchReturns(p) ==
    /\ pc[p] # "idle"
    /\ phase[p] = "stopping" \/ failed[p]
    /\ Forget(p)
    /\ UNCHANGED <<server, lock, phase, pending, failed, db, disruptions>>

\* Mutated form: the lock goes before workers.Wait.
Unlock_Early(p) ==
    /\ phase[p] = "stopping"
    /\ lock' = Nobody
    /\ phase' = [phase EXCEPT ![p] = "draining"]
    /\ UNCHANGED <<server, watcher, failed, db, disruptions>>

\* workers.Wait is over: the lock goes before the archive has drained.
Unlock(p) ==
    /\ phase[p] = "stopping"
    /\ pc[p] = "idle"
    /\ lock' = Nobody
    /\ phase' = [phase EXCEPT ![p] = "draining"]
    /\ UNCHANGED <<server, watcher, failed, db, disruptions>>

\* database.close returned.
Closed(p) ==
    /\ phase[p] = "draining"
    /\ pending[p] = <<>> \/ failed[p]
    /\ phase' = [phase EXCEPT ![p] = "down"]
    /\ pending' = [pending EXCEPT ![p] = <<>>]
    /\ UNCHANGED <<server, lock, pc, version, todo, snap, prob, lost, expired,
                   failed, db, disruptions>>

Crash(p) ==
    /\ phase[p] # "down"
    /\ Disrupt
    /\ phase' = [phase EXCEPT ![p] = "down"]
    /\ pending' = [pending EXCEPT ![p] = <<>>]
    /\ lock' = IF lock = p THEN Nobody ELSE lock
    /\ Forget(p)
    /\ UNCHANGED <<server, failed, db>>

-----------------------------------------------------------------------------
(* collector.watch with persist.                                           *)

At(p, where) == pc[p] = where /\ phase[p] = "collecting" /\ ~failed[p]
\* add's select may still take the queue when the context is done as well.
Adding(p, where) == pc[p] = where /\ phase[p] \in {"collecting", "stopping"}
Goto(p, where) == pc' = [pc EXCEPT ![p] = where]
still == <<server, lock, phase, failed, db>>

\* collector.problem with an error: a repeated message is not recorded.
problem(p, what, v) ==
    /\ prob' = [prob EXCEPT ![p] = what]
    /\ IF prob[p] = what THEN UNCHANGED pending
       ELSE add(p, [Entry(0, 0) EXCEPT !.issue = what, !.about = v])

readCursor(p) ==
    /\ At(p, "read")
    /\ version' = [version EXCEPT ![p] = db.cursor]
    /\ Goto(p, IF db.cursor = 0 THEN "list" ELSE "get")
    /\ UNCHANGED <<still, todo, snap, prob, lost, expired, pending, disruptions>>

readCursorFails(p) ==
    /\ At(p, "read")
    /\ Disrupt
    /\ problem(p, "request", 0)
    /\ UNCHANGED <<still, pc, version, todo, snap, lost, expired>>

\* The first page fixes the version of the list; its objects are added next.
List(p) ==
    /\ At(p, "list")
    /\ snap' = [snap EXCEPT ![p] = rv]
    /\ todo' = [todo EXCEPT ![p] = Listed]
    /\ Goto(p, "items")
    /\ UNCHANGED <<still, version, prob, lost, expired, pending, disruptions>>

ListItem(p) ==
    /\ Adding(p, "items")
    /\ \E i \in todo[p] :
          /\ ~Big(i)
          /\ todo' = [todo EXCEPT ![p] = @ \ {i}]
          /\ add(p, Entry(i, 0))
    /\ UNCHANGED <<still, pc, version, snap, prob, lost, expired, disruptions>>

ListOversize(p) ==
    /\ At(p, "items")
    /\ \E i \in todo[p] : Big(i)
    /\ problem(p, "oversize", 0)
    /\ Goto(p, "list")
    /\ UNCHANGED <<still, version, todo, snap, lost, expired, disruptions>>

ListFails(p) ==
    /\ At(p, "list") \/ At(p, "items")
    /\ Disrupt
    /\ problem(p, "request", 0)
    /\ Goto(p, "list")
    /\ UNCHANGED <<still, version, todo, snap, lost, expired>>

ListEnds(p) ==
    /\ Adding(p, "items")
    /\ todo[p] = {}
    /\ version' = [version EXCEPT ![p] = snap[p]]
    /\ add(p, [Entry(0, snap[p]) EXCEPT !.jump =
                 {[from |-> expired[p], first |-> lost[p], to |-> snap[p]]}])
    /\ snap' = [snap EXCEPT ![p] = 0]
    /\ expired' = [expired EXCEPT ![p] = 0]
    /\ Goto(p, "get")
    /\ UNCHANGED <<still, todo, prob, lost, disruptions>>

GetStarts(p) ==
    /\ At(p, "get")
    /\ version[p] >= compacted
    /\ prob' = [prob EXCEPT ![p] = "none"]
    /\ lost' = [lost EXCEPT ![p] = 0]
    /\ Goto(p, "stream")
    /\ UNCHANGED <<still, version, todo, snap, expired, pending, disruptions>>

\* Mutated form: any failed watch starts over from a list.
Expired_AnyError(p) ==
    /\ At(p, "get") \/ At(p, "stream")
    /\ problem(p, "gap", version[p])
    /\ lost' = [lost EXCEPT ![p] = IF prob[p] = "gap" THEN @ ELSE version[p]]
    /\ expired' = [expired EXCEPT ![p] = version[p]]
    /\ version' = [version EXCEPT ![p] = 0]
    /\ Goto(p, "list")
    /\ UNCHANGED <<still, todo, snap, disruptions>>

\* Mutated form: the expired version is kept.
Expired_Kept(p) ==
    /\ At(p, "get") \/ At(p, "stream")
    /\ version[p] < compacted
    /\ problem(p, "gap", version[p])
    /\ Goto(p, "get")
    /\ UNCHANGED <<still, version, todo, snap, lost, expired, disruptions>>

\* 410 as the response, or as an ERROR event of the stream.
Expired(p) ==
    /\ At(p, "get") \/ At(p, "stream")
    /\ version[p] < compacted
    /\ problem(p, "gap", version[p])
    /\ lost' = [lost EXCEPT ![p] = IF prob[p] = "gap" THEN @ ELSE version[p]]
    /\ expired' = [expired EXCEPT ![p] = version[p]]
    /\ version' = [version EXCEPT ![p] = 0]
    /\ Goto(p, "list")
    /\ UNCHANGED <<still, todo, snap, disruptions>>

RequestFails(p) ==
    /\ At(p, "get") \/ At(p, "stream")
    /\ Disrupt
    /\ problem(p, "request", 0)
    /\ Goto(p, "get")
    /\ UNCHANGED <<still, version, todo, snap, lost, expired>>

\* The server ends the request after timeoutSeconds: io.EOF is no problem.
StreamEnds(p) ==
    /\ At(p, "stream")
    /\ Disrupt
    /\ Goto(p, "get")
    /\ UNCHANGED <<still, version, todo, snap, prob, lost, expired, pending>>

\* The next change of the kind on an open stream.
NextEvent(p) == {i \in (version[p] + 1)..rv :
                    Mine(i) /\ \A j \in (version[p] + 1)..(i - 1) : ~Mine(j)}

Event(p) ==
    /\ Adding(p, "stream")
    /\ \E i \in NextEvent(p) :
          /\ ~Big(i)
          /\ add(p, Entry(i, i))
          /\ version' = [version EXCEPT ![p] = i]
    /\ UNCHANGED <<still, pc, todo, snap, prob, lost, expired, disruptions>>

\* Mutated form: the refused record is skipped.
EventOversize_Skips(p) ==
    /\ At(p, "stream")
    /\ \E i \in NextEvent(p) :
          /\ Big(i)
          /\ add(p, Entry(0, i))
          /\ version' = [version EXCEPT ![p] = i]
    /\ UNCHANGED <<still, pc, todo, snap, prob, lost, expired, disruptions>>

\* add refuses the record: the stream is dropped, the version stays.
EventOversize(p) ==
    /\ At(p, "stream")
    /\ \E i \in NextEvent(p) : Big(i)
    /\ problem(p, "oversize", 0)
    /\ Goto(p, "get")
    /\ UNCHANGED <<still, version, todo, snap, lost, expired, disruptions>>

Bookmark(p) ==
    /\ Adding(p, "stream")
    /\ \E b \in (version[p] + 1)..rv :
          /\ \A i \in (version[p] + 1)..b : ~Mine(i)
          /\ version' = [version EXCEPT ![p] = b]
          /\ add(p, Entry(0, b))
    /\ UNCHANGED <<still, pc, todo, snap, prob, lost, expired, disruptions>>

-----------------------------------------------------------------------------
Init ==
    /\ history = <<[obj |-> Other, live |-> TRUE]>>
    /\ compacted = 0
    /\ lock = Nobody
    /\ phase = [p \in Processes |-> "up"]
    /\ pc = [p \in Processes |-> "idle"]
    /\ version = [p \in Processes |-> 0]
    /\ todo = [p \in Processes |-> {}]
    /\ snap = [p \in Processes |-> 0]
    /\ prob = [p \in Processes |-> "none"]
    /\ lost = [p \in Processes |-> 0]
    /\ expired = [p \in Processes |-> 0]
    /\ pending = [p \in Processes |-> <<>>]
    /\ failed = [p \in Processes |-> FALSE]
    /\ db = [keys |-> {}, cursor |-> 0, gaps |-> {}, issues |-> {}, jumps |-> {}]
    /\ disruptions = 0

Session(p) == Start(p) \/ startCollector(p) \/ Cancel(p) \/ Unlock(p)
              \/ Closed(p) \/ Crash(p) \/ ArchiveFails(p)

\* What the watch does by itself, with the answers of a working server.
Progress(p) == readCursor(p) \/ List(p) \/ ListItem(p) \/ ListOversize(p)
               \/ ListEnds(p) \/ GetStarts(p) \/ Expired(p) \/ Event(p)
               \/ EventOversize(p) \/ Bookmark(p)

watch(p) == Progress(p) \/ readCursorFails(p) \/ ListFails(p) \/ RequestFails(p) \/ StreamEnds(p)
            \/ WatchReturns(p)

Next == Change \/ Compact
        \/ \E p \in Processes : Session(p) \/ watch(p) \/ Commit(p)

(* The writer commits what it holds; a dashboard asks for the lock at      *)
(* every tick; the watch goroutine runs, and the server answers it; a      *)
(* closed session runs to its end.  Nothing forces a change, a compaction, *)
(* a fault, an exit or a restart.                                          *)
Fairness == \A p \in Processes :
    /\ WF_vars(Commit(p))
    /\ WF_vars(startCollector(p))
    /\ WF_vars(Progress(p))
    /\ WF_vars(WatchReturns(p))
    /\ WF_vars(Unlock(p))
    /\ WF_vars(Closed(p))

Safety == Init /\ [][Next]_vars
Spec   == Safety /\ Fairness

-----------------------------------------------------------------------------
(* Properties.                                                             *)

Skipped(i, j) == j.from < i /\ i <= j.to

\* The version on disk is never ahead of the records: every change up to it
\* is archived, or older than the first list of the archive, or inside a
\* relist whose gap is on disk as a collector issue.  Holds after any crash,
\* quit, take-over and late flush of the process that gave up the lock.
CursorCovered ==
    \A i \in 1..db.cursor : Mine(i) =>
        \/ i \in db.keys
        \/ \E j \in db.jumps :
              Skipped(i, j) /\ (j.from # 0 => j.first \in db.gaps)

\* A relist that skips history was forced: the server had forgotten the
\* version it left, and what was still listed then is archived.
RelistForced ==
    \A j \in db.jumps :
        /\ j.from # 0 => j.from < compacted
        /\ \A i \in 1..j.to : (Mine(i) /\ history[i].live /\ i \notin db.keys)
              => \E k \in (i + 1)..j.to : history[k].obj = history[i].obj

\* One goroutine watches the kind, across all processes on the archive.
OneWatcher ==
    \A p, q \in Processes : pc[p] # "idle" /\ pc[q] # "idle" => p = q

Settled(i) ==
    \/ i \in db.keys
    \/ \E j \in db.jumps : Skipped(i, j)

\* Nothing is dropped in silence: every change is archived or skipped by a
\* relist, by the process that holds the lock or the one that takes it over,
\* unless its archive failed, an oversize record became a collector issue, or
\* nobody runs.
EveryChangeSettles ==
    \A i \in 1..MaxVersion : (i <= rv /\ Mine(i)) ~>
        \/ Settled(i)
        \/ "oversize" \in db.issues
        \/ \E p \in Processes : failed[p]
        \/ \A p \in Processes : phase[p] = "down"

\* A change the archive can hold is captured, whatever else it cannot hold.
SmallChangesCaptured ==
    \A i \in 1..MaxVersion : (i <= rv /\ Mine(i) /\ i \notin BigVersions) ~> Settled(i)

\* A relist that lost changes has a gap record of its own.
EveryGapRecorded ==
    \A j \in db.jumps :
        (j.from # 0 /\ \E i \in 1..rv : Mine(i) /\ Skipped(i, j) /\ i \notin db.keys)
            => j.from \in db.gaps
=============================================================================
