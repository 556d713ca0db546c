------------------------------ MODULE Archive -------------------------------
(***************************************************************************)
(* The history archive of one process (src/src/archive.go): callers of add *)
(* put records on a bounded channel, the writer goroutine batches them and *)
(* hands each batch to a sqlite3 child as one transaction, which inserts   *)
(* the keyed records and moves the replay cursors together.                *)
(*                                                                         *)
(* Steps are cut where another goroutine, or a crash, can come between:    *)
(* add checks the failure and only then waits in its select; the writer    *)
(* raises a.err before it closes a.done; a transaction can be durable      *)
(* before the writer has read sqlite's marker for it.                      *)
(***************************************************************************)
EXTENDS Integers, Sequences, FiniteSets

CONSTANTS
    Producers,       \* goroutines that call add (watchers, log readers, UI)
    Records,         \* archiveEntry values: [key, source, cursor, size]
    Keys,            \* identities of keyed records
    WatchSources,    \* "watch/<kind>": the cursor is overwritten
    LogSources,      \* "log/...": the cursor only grows
    None,            \* the empty string as a key or a source
    QueueCap,        \* capacity of a.queue (64)
    BatchCap,        \* records that force a flush (256)
    BatchBytes,      \* bytes that force a flush (1 MiB)
    MaxCursor,       \* largest cursor value (a 64-bit nanosecond or version)
    MaxRecordBytes,  \* add refuses a larger record (2 MiB)
    MaxAdds,         \* bound: add calls in a behaviour
    MaxCrashes       \* bound: kills of the process in a behaviour

Sources == WatchSources \cup LogSources

ASSUME RecordsAssumption ==
    Records \subseteq [key : Keys \cup {None}, source : Sources \cup {None},
                       cursor : 1..MaxCursor, size : Nat \ {0}]
ASSUME NoneAssumption == None \notin Keys \cup Sources \cup Records
ASSUME SourcesAssumption == WatchSources \cap LogSources = {}
ASSUME CapsAssumption ==
    /\ MaxCursor \in Nat
    /\ QueueCap \in Nat \ {0}
    /\ BatchCap \in Nat \ {0}
    /\ BatchBytes \in Nat \ {0}
    /\ MaxRecordBytes \in Nat \ {0}
    /\ MaxAdds \in Nat
    /\ MaxCrashes \in Nat

VARIABLES
    phase,      \* "open", "closing" (channel closed), "closed", "down"
    queue,      \* a.queue
    batch,      \* writeLoop's batch
    size,       \* writeLoop's size
    writer,     \* where writeLoop stands
    committed,  \* sqlite has committed the batch being flushed
    err,        \* a.err # nil
    done,       \* a.done is closed
    cancelled,  \* the context given to add is cancelled
    adding,     \* producer -> the record its add waits to send, or None
    ret,        \* producer -> how its last add returned
    db,         \* the database file: entries' keys and the cursors table
    log,        \* history: every record of every committed batch, in order
    adds,       \* counts add calls against MaxAdds
    crashes     \* counts kills against MaxCrashes

vars == <<phase, queue, batch, size, writer, committed, err, done, cancelled,
          adding, ret, db, log, adds, crashes>>

writerVars == <<batch, size, writer, committed, err, done>>
callerVars == <<adding, ret, adds>>
diskVars   == <<db, log>>

Outcomes == {"none", "ok", "failed", "oversize", "cancelled"}

TypeOK ==
    /\ phase \in {"open", "closing", "closed", "down"}
    /\ queue \in Seq(Records)
    /\ batch \in Seq(Records)
    /\ size \in Nat
    /\ writer \in {"select", "flush", "failed", "exited"}
    /\ committed \in BOOLEAN
    /\ err \in BOOLEAN
    /\ done \in BOOLEAN
    /\ cancelled \in BOOLEAN
    /\ adding \in [Producers -> Records \cup {None}]
    /\ ret \in [Producers -> Outcomes]
    /\ db \in [keys : SUBSET Keys, cursors : [Sources -> 0..MaxCursor]]
    /\ log \in Seq(Records)
    /\ adds \in Nat
    /\ crashes \in Nat

-----------------------------------------------------------------------------
(* The transaction of writeBatch.                                          *)

\* Mutated form: bare cursors are inserted as entries.
KeysOf_WithEmpty(recs) == {recs[i].key : i \in DOMAIN recs}

KeysOf(recs) == {recs[i].key : i \in DOMAIN recs} \ {None}

Carriers(recs, s) == {i \in DOMAIN recs : recs[i].source = s}

LastCursor(recs, s) ==
    LET last == CHOOSE i \in Carriers(recs, s) :
                   \A j \in Carriers(recs, s) : j <= i
    IN  recs[last].cursor

HighCursor(recs, s, old) ==
    CHOOSE c \in {old} \cup {recs[i].cursor : i \in Carriers(recs, s)} :
       /\ c >= old
       /\ \A i \in Carriers(recs, s) : c >= recs[i].cursor

\* Mutated forms: an existing cursor is never updated; log cursors are
\* overwritten like the others.
Upsert_KeepsOld(old, recs, s) ==
    IF Carriers(recs, s) = {} \/ old # 0 THEN old ELSE LastCursor(recs, s)

Upsert_Overwrites(old, recs, s) ==
    IF Carriers(recs, s) = {} THEN old ELSE LastCursor(recs, s)

\* ON CONFLICT(key) DO UPDATE: log cursors take the max, the others the
\* value of the last row.  0 stands for a source without a row.
Upsert(old, recs, s) ==
    IF Carriers(recs, s) = {} THEN old
    ELSE IF s \in LogSources THEN HighCursor(recs, s, old)
    ELSE LastCursor(recs, s)

EmptyDb == [keys |-> {}, cursors |-> [s \in Sources |-> 0]]

writeBatch(d, recs) ==
    [keys    |-> d.keys \cup KeysOf(recs),
     cursors |-> [s \in Sources |-> Upsert(d.cursors[s], recs, s)]]

-----------------------------------------------------------------------------
Init ==
    /\ phase = "open"
    /\ queue = <<>>
    /\ batch = <<>>
    /\ size = 0
    /\ writer = "select"
    /\ committed = FALSE
    /\ err = FALSE
    /\ done = FALSE
    /\ cancelled = FALSE
    /\ adding = [p \in Producers |-> None]
    /\ ret = [p \in Producers |-> "none"]
    /\ db = EmptyDb
    /\ log = <<>>
    /\ adds = 0
    /\ crashes = 0

(* add, up to its select: the failure and the size are checked first.  The *)
(* program never calls add once it has closed the archive.                 *)
AddCheck(p, r) ==
    /\ phase = "open"
    /\ adding[p] = None
    /\ adds < MaxAdds
    /\ adds' = adds + 1
    /\ \/ /\ err
          /\ ret' = [ret EXCEPT ![p] = "failed"]
          /\ UNCHANGED adding
       \/ /\ ~err
          /\ r.size > MaxRecordBytes
          /\ ret' = [ret EXCEPT ![p] = "oversize"]
          /\ UNCHANGED adding
       \/ /\ ~err
          /\ r.size <= MaxRecordBytes
          /\ adding' = [adding EXCEPT ![p] = r]
          /\ UNCHANGED ret
    /\ UNCHANGED <<phase, queue, writerVars, cancelled, diskVars, crashes>>

Return(p, outcome) ==
    /\ adding[p] # None
    /\ adding' = [adding EXCEPT ![p] = None]
    /\ ret' = [ret EXCEPT ![p] = outcome]
    /\ UNCHANGED <<phase, writerVars, cancelled, adds, diskVars, crashes>>

(* The three cases of add's select; Go picks among the ready ones.         *)
AddSend(p) ==
    /\ Return(p, "ok")
    /\ Len(queue) < QueueCap
    /\ queue' = Append(queue, adding[p])

AddCancelled(p) ==
    /\ Return(p, "cancelled")
    /\ cancelled
    /\ UNCHANGED queue

\* Mutated form: add does not watch a.done.
AddDone_Missing(p) == FALSE /\ AddCancelled(p)

AddDone(p) ==
    /\ Return(p, IF err THEN "failed" ELSE "ok")
    /\ done
    /\ UNCHANGED queue

-----------------------------------------------------------------------------
(* writeLoop: case e, ok := <-a.queue with ok.                             *)
Receive ==
    /\ writer = "select"
    /\ queue # <<>>
    /\ batch' = Append(batch, Head(queue))
    /\ size' = size + Head(queue).size
    /\ queue' = Tail(queue)
    /\ writer' = IF Len(batch') >= BatchCap \/ size' >= BatchBytes
                 THEN "flush" ELSE "select"
    /\ UNCHANGED <<phase, committed, err, done, cancelled, callerVars,
                   diskVars, crashes>>

(* case <-ticker.C; flush does nothing for an empty batch.                 *)
Tick ==
    /\ writer = "select"
    /\ batch # <<>>
    /\ writer' = "flush"
    /\ UNCHANGED <<phase, queue, batch, size, committed, err, done, cancelled,
                   callerVars, diskVars, crashes>>

\* Mutated form: no last flush.
Drained_NoFlush ==
    /\ writer = "select"
    /\ phase = "closing"
    /\ queue = <<>>
    /\ writer' = "exited"
    /\ done' = TRUE
    /\ UNCHANGED <<phase, queue, batch, size, committed, err, cancelled,
                   callerVars, diskVars, crashes>>

(* The channel is closed and empty: a last flush, or nothing left to do.   *)
Drained ==
    /\ writer = "select"
    /\ phase = "closing"
    /\ queue = <<>>
    /\ IF batch # <<>>
       THEN writer' = "flush" /\ UNCHANGED done
       ELSE writer' = "exited" /\ done' = TRUE
    /\ UNCHANGED <<phase, queue, batch, size, committed, err, cancelled,
                   callerVars, diskVars, crashes>>

(* sqlite commits the transaction.                                         *)
Commit ==
    /\ writer = "flush"
    /\ ~committed
    /\ db' = writeBatch(db, batch)
    /\ log' = log \o batch
    /\ committed' = TRUE
    /\ UNCHANGED <<phase, queue, batch, size, writer, err, done, cancelled,
                   callerVars, crashes>>

(* exec has read KIWI_COMMITTED: flush clears the batch.                   *)
Flushed ==
    /\ writer = "flush"
    /\ committed
    /\ batch' = <<>>
    /\ size' = 0
    /\ committed' = FALSE
    /\ writer' = "select"
    /\ UNCHANGED <<phase, queue, err, done, cancelled,
                   callerVars, diskVars, crashes>>

\* Mutated forms: a failed batch is dropped and the loop goes on; a.done is
\* closed before a.err is set.
WriteFails_DropsBatch ==
    /\ writer = "flush"
    /\ batch' = <<>>
    /\ size' = 0
    /\ writer' = "select"
    /\ committed' = FALSE
    /\ UNCHANGED <<phase, queue, err, done, cancelled, callerVars, diskVars, crashes>>

WriteFails_DoneFirst ==
    /\ writer = "flush"
    /\ done' = TRUE
    /\ writer' = "failed"
    /\ UNCHANGED <<phase, queue, batch, size, committed, err, cancelled,
                   callerVars, diskVars, crashes>>

(* sqlite exits (-bail, a full disk, busy for 5 s, killed) before the      *)
(* commit or after it; the loop keeps a.err and returns.                   *)
WriteFails ==
    /\ writer = "flush"
    /\ err' = TRUE
    /\ writer' = "failed"
    /\ UNCHANGED <<phase, queue, batch, size, committed, done, cancelled,
                   callerVars, diskVars, crashes>>

\* Mutated form: a.done stays open when a write failed.
WriterExits_NotDone ==
    /\ writer = "failed"
    /\ writer' = "exited"
    /\ UNCHANGED <<phase, queue, batch, size, committed, err, done, cancelled,
                   callerVars, diskVars, crashes>>

(* defer close(a.done).                                                    *)
WriterExits ==
    /\ writer = "failed"
    /\ writer' = "exited"
    /\ done' = TRUE
    /\ UNCHANGED <<phase, queue, batch, size, committed, err, cancelled,
                   callerVars, diskVars, crashes>>

-----------------------------------------------------------------------------
(* The session's context is cancelled: quit, signal or cluster switch.     *)
Cancel ==
    /\ phase = "open"
    /\ ~cancelled
    /\ cancelled' = TRUE
    /\ UNCHANGED <<phase, queue, writerVars, callerVars, diskVars, crashes>>

(* close(a.queue).  runSession's defers have joined every caller of add.   *)
CloseQueue ==
    /\ phase = "open"
    /\ cancelled
    /\ \A p \in Producers : adding[p] = None
    /\ phase' = "closing"
    /\ UNCHANGED <<queue, writerVars, cancelled, callerVars, diskVars, crashes>>

(* <-a.done; close returns a.failure().                                    *)
CloseReturns ==
    /\ phase = "closing"
    /\ done
    /\ phase' = "closed"
    /\ UNCHANGED <<queue, writerVars, cancelled, callerVars, diskVars, crashes>>

(* The process is killed; sqlite rolls back what it had not committed.     *)
Crash ==
    /\ phase \in {"open", "closing"}
    /\ crashes < MaxCrashes
    /\ crashes' = crashes + 1
    /\ phase' = "down"
    /\ queue' = <<>>
    /\ batch' = <<>>
    /\ size' = 0
    /\ writer' = "exited"
    /\ committed' = FALSE
    /\ err' = FALSE
    /\ done' = FALSE
    /\ cancelled' = FALSE
    /\ adding' = [p \in Producers |-> None]
    /\ ret' = [p \in Producers |-> "none"]
    /\ UNCHANGED <<adds, diskVars>>

(* openArchive of the next session or process on the same file.            *)
openArchive ==
    /\ phase \in {"closed", "down"}
    /\ phase' = "open"
    /\ queue' = <<>>
    /\ batch' = <<>>
    /\ size' = 0
    /\ writer' = "select"
    /\ committed' = FALSE
    /\ err' = FALSE
    /\ done' = FALSE
    /\ cancelled' = FALSE
    /\ ret' = [p \in Producers |-> "none"]
    /\ UNCHANGED <<adding, adds, diskVars, crashes>>

-----------------------------------------------------------------------------
Add(p)   == (\E r \in Records : AddCheck(p, r))
            \/ AddSend(p) \/ AddDone(p) \/ AddCancelled(p)
Write    == Receive \/ Tick \/ Drained \/ Commit \/ Flushed
            \/ WriteFails \/ WriterExits
Shutdown == Cancel \/ CloseQueue \/ CloseReturns

Next == (\E p \in Producers : Add(p)) \/ Write \/ Shutdown \/ Crash \/ openArchive

(* The Go scheduler runs every ready goroutine, the ticker keeps firing,   *)
(* sqlite answers one way or the other (its busy wait ends after 5 s), a   *)
(* select with a ready case returns, and close waits for done.             *)
Fairness ==
    /\ WF_vars(Receive)
    /\ WF_vars(Tick)
    /\ WF_vars(Drained)
    /\ WF_vars(Commit \/ Flushed \/ WriteFails)
    /\ WF_vars(WriterExits)
    /\ WF_vars(CloseReturns)
    /\ \A p \in Producers : WF_vars(AddSend(p) \/ AddDone(p) \/ AddCancelled(p))

Safety == Init /\ [][Next]_vars
Spec   == Safety /\ Fairness

-----------------------------------------------------------------------------
(* Properties.                                                             *)

\* Accepted records that are not durable yet, oldest first.
Opened  == phase \in {"open", "closing"}
Pending == IF ~Opened THEN <<>>
           ELSE IF committed THEN queue ELSE batch \o queue

DL == INSTANCE DurableLog WITH
        pending <- Pending,
        failed  <- err,
        open    <- Opened

\* The archive is a durable log: records are committed in the order add
\* accepted them, whole batches at a time, none is dropped before a crash
\* or a failure every caller can see, and accepted records settle.
ImplementsDurableLog == DL!Spec

\* The file never depends on how the writer cut its batches: the keys and
\* the cursors are those of one transaction holding every committed record.
StoreIsReplay == db = writeBatch(EmptyDb, log)

\* The writer stops with accepted records in hand only behind a failure
\* that add and close report, so a close that returns nil lost nothing.
NothingAbandoned ==
    (Opened /\ done /\ ~err) => phase = "closing" /\ Pending = <<>>

\* The cursor of a log stream never moves back, in whatever order readers
\* of one stream got their records into the queue.
LogCursorsGrow ==
    [][\A s \in LogSources : db'.cursors[s] >= db.cursors[s]]_vars

\* An add that returns nil has put its record on the queue, also when the
\* writer dies while the caller waits in the select.
NilMeansQueued ==
    [][\A p \in Producers :
          (adding[p] # None /\ adding'[p] = None /\ ret'[p] = "ok")
             => queue' = Append(queue, adding[p])]_vars

\* Nothing waits for ever inside add: the queue drains, or the writer's
\* death wakes the callers a full queue had blocked.
AddReturns == \A p \in Producers : adding[p] # None ~> adding[p] = None

\* close returns: the writer drains the closed channel or dies trying.
CloseEnds == phase = "closing" ~> phase # "closing"
=============================================================================
