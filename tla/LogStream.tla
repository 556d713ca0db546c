----------------------------- MODULE LogStream ------------------------------
(***************************************************************************)
(* The recording of one container's logs (src/src/collect.go: podChanged,  *)
(* captureLogs, readLogs).  A pod watch starts and cancels capture tasks;  *)
(* each task is a goroutine that takes a slot, reads the cursor of its     *)
(* source from the archive file, asks for the log from one second before   *)
(* it and adds a record per line.  Requests end after a minute, on errors  *)
(* and at the end of the log, and are made again.                          *)
(*                                                                         *)
(* A source names one run of the container ("log/<pod>/<name>/<restart>"); *)
(* the request only says "current" or "previous".  The kubelet's logs are  *)
(* the environment.  The archive is taken at the level of DurableLog: what *)
(* add accepted waits in `pending` and is committed in order.              *)
(***************************************************************************)
EXTENDS Integers, Sequences, FiniteSets, SequencesExt

CONSTANTS
    Scripts,      \* what the runs of the container may write: run -> lines
    MaxRestarts,  \* bound: restarts of the container
    Second,       \* stamps per second: the overlap of a new request
    Streams,      \* archive_streams: log requests at a time
    QueueCap,     \* records accepted and not committed
    MaxFaults,    \* bound: failed requests, kills, resets of the pod watch,
                  \* minutes that end before the log does and the deletion
                  \* of the pod, taken together
    Generations   \* bound: goroutines of one task alive at a time

Runs  == 0..MaxRestarts
\* c.tasks' keys: a run of the container, read as current or as previous.
Tasks == {t \in [src : Runs, previous : BOOLEAN] : t.previous => t.src < MaxRestarts}
\* A cancelled goroutine may outlive its entry in c.tasks.
Readers == Tasks \X Generations

ASSUME LogAssumption ==
    /\ Scripts \subseteq [Runs -> Seq([stamp : Nat \ {0}, text : STRING])]
    /\ MaxRestarts \in Nat
    /\ {Second, Streams, QueueCap} \subseteq Nat \ {0}
    /\ MaxFaults \in Nat

\* The clock of a node is not set back by more than the overlap, and equal
\* lines with equal stamps are neighbours.
ASSUME ClockAssumption ==
    \A script \in Scripts : \A run \in Runs : \A i, j \in DOMAIN script[run] :
        i < j =>
        /\ script[run][i].stamp - Second <= script[run][j].stamp
        /\ script[run][i] = script[run][j] =>
              \A m \in i..j : script[run][m].stamp = script[run][i].stamp

\* Stamps are nanoseconds, and a container starts again seconds after it ended.
ASSUME RunsDiffer ==
    \A script \in Scripts : \A run, other \in Runs : run # other =>
        \A i \in DOMAIN script[run], j \in DOMAIN script[other] :
            script[run][i] # script[other][j]

VARIABLES
    script,     \* the lines each run writes
    written,    \* run -> lines written so far
    restart,    \* the container's restart count
    state,      \* the container's state in the pod's status
    reader,     \* goroutine -> its state
    pending,    \* records accepted, not durable
    db,         \* the archive file: keys and the cursor of each source; and,
                \* to tell records apart, the lines they were filed for
    faults      \* counts against MaxFaults

vars == <<script, written, restart, state, reader, pending, db, faults>>
kubelet == <<script, written, restart, state>>

Free == [at |-> "free", cancelled |-> FALSE, terminated |-> FALSE,
         since |-> 0, target |-> 0, pos |-> 0]

TypeOK ==
    /\ script \in Scripts
    /\ \A run \in Runs : written[run] \in 0..Len(script[run])
    /\ restart \in Runs
    /\ state \in {"waiting", "running", "terminated", "deleted"}
    /\ DOMAIN reader = Readers
    /\ \A r \in Readers :
          /\ reader[r].at \in {"free", "queued", "request", "read", "ended"}
          /\ reader[r].at = "read" => reader[r].pos <= written[reader[r].target]
    /\ Len(pending) <= QueueCap
    /\ faults \in 0..MaxFaults

-----------------------------------------------------------------------------
(* Lines and their identities.                                             *)

\* Mutated form: counts is not cleared when the stamp changes.
Ordinal_NotCleared(lines, D, i) ==
    Cardinality({j \in D : j < i /\ lines[j].text = lines[i].text})

\* Mutated form: no ordinal.
Ordinal_Zero(lines, D, i) == 0

\* readLogs' ordinal: how often the text came before in a run of one stamp,
\* when the lines D of a log are delivered.
Ordinal(lines, D, i) ==
    Cardinality({j \in D :
        /\ j < i /\ lines[j].text = lines[i].text
        /\ \A m \in D : j <= m /\ m <= i => lines[m].stamp = lines[i].stamp})

Key(src, lines, D, i) ==
    [src |-> src, stamp |-> lines[i].stamp, text |-> lines[i].text,
     ordinal |-> Ordinal(lines, D, i)]

\* The key of line i of a run whose whole log is delivered.
LineKey(run, i) == Key(run, script[run], 1..i, i)
KeysOf(run) == {LineKey(run, i) : i \in 1..written[run]}

\* Mutated form: no overlap.
Since_NoOverlap(cursor) == cursor

\* sinceTime: from the cursor less one second; 0 asks for the whole log.
Since(cursor) == IF cursor = 0 THEN 0 ELSE cursor - Second

-----------------------------------------------------------------------------
(* The container.                                                          *)

Disrupt == faults < MaxFaults /\ faults' = faults + 1

Write ==
    /\ state = "running"
    /\ written[restart] < Len(script[restart])
    /\ written' = [written EXCEPT ![restart] = @ + 1]
    /\ UNCHANGED <<script, restart, state, reader, pending, db, faults>>

Transition ==
    /\ \/ state = "waiting" /\ state' = "running" /\ UNCHANGED restart
       \/ state = "running" /\ state' = "terminated" /\ UNCHANGED restart
       \/ /\ state = "terminated" /\ restart < MaxRestarts
          /\ state' = "running" /\ restart' = restart + 1
    /\ UNCHANGED <<script, written, reader, pending, db, faults>>

Delete ==
    /\ state # "deleted"
    /\ Disrupt
    /\ state' = "deleted"
    /\ UNCHANGED <<script, written, restart, reader, pending, db>>

-----------------------------------------------------------------------------
(* podChanged.                                                             *)

Desired ==
    {t \in Tasks :
        /\ state # "deleted"
        /\ IF t.previous THEN restart > 0 /\ t.src = restart - 1
           ELSE state \in {"running", "terminated"} /\ t.src = restart}

\* c.tasks: finished goroutines stay in it, cancelled ones do not.
InTasks(r) == reader[r].at # "free" /\ ~reader[r].cancelled
Started == {r[1] : r \in {q \in Readers : InTasks(q)}}
FreeGen(t) == {g \in Generations : reader[<<t, g>>].at = "free"}
Launch(t) == <<t, CHOOSE g \in FreeGen(t) : TRUE>>

podChanged ==
    LET fresh == Desired \ Started
        drop  == {r \in Readers : InTasks(r) /\ r[1] \notin Desired}
    IN  /\ fresh # {} \/ drop # {}
        /\ \A t \in fresh : FreeGen(t) # {}
        /\ reader' = [r \in Readers |->
              IF r[1] \in fresh /\ r = Launch(r[1])
              THEN [Free EXCEPT !.at = "queued",
                                !.terminated = (state = "terminated")]
              ELSE IF r \in drop THEN [reader[r] EXCEPT !.cancelled = TRUE]
              ELSE reader[r]]
        /\ UNCHANGED <<kubelet, pending, db, faults>>

\* RESET: the pod watch lists again, every task is cancelled and forgotten.
reset ==
    /\ Disrupt
    /\ reader' = [r \in Readers |->
                    IF InTasks(r) THEN [reader[r] EXCEPT !.cancelled = TRUE]
                    ELSE reader[r]]
    /\ UNCHANGED <<kubelet, pending, db>>

-----------------------------------------------------------------------------
(* captureLogs and readLogs, goroutine r.                                  *)

At(r, where) == reader[r].at = where /\ ~reader[r].cancelled
\* Between requests a goroutine keeps nothing but its parameters.
Move(r, where) == reader' = [reader EXCEPT ![r] =
    [Free EXCEPT !.at = where, !.terminated = reader[r].terminated]]
Source(r) == r[1].src
Holding == {r \in Readers : reader[r].at \in {"request", "read"}}

\* c.slots <- struct{}{}; the pod's UID and the source's cursor come next.
\* Until the log is asked for, nothing tells a reader that holds a slot from
\* one that has read the cursor.
TakeSlot(r) ==
    /\ At(r, "queued")
    /\ Cardinality(Holding) < Streams
    /\ reader' = [reader EXCEPT ![r].at = "request",
                                ![r].since = Since(db.cursor[Source(r)])]
    /\ UNCHANGED <<kubelet, pending, db, faults>>

\* The log of the run that is current, or previous, when the kubelet answers.
GetLog(r) ==
    /\ At(r, "request")
    /\ IF r[1].previous THEN restart > 0 /\ state # "deleted"
       ELSE state \in {"running", "terminated"}
    /\ reader' = [reader EXCEPT ![r].at = "read", ![r].pos = 0,
                    ![r].target = IF r[1].previous THEN restart - 1 ELSE restart]
    /\ UNCHANGED <<kubelet, pending, db, faults>>

Served(r) == {i \in (reader[r].pos + 1)..written[reader[r].target] :
                 script[reader[r].target][i].stamp >= reader[r].since}

\* Ordinals count the lines this request has delivered.
ReadLine(r) ==
    /\ reader[r].at = "read"
    /\ Len(pending) < QueueCap
    /\ Served(r) # {}
    /\ LET lines == script[reader[r].target]
           i == CHOOSE n \in Served(r) : \A m \in Served(r) : n <= m
           delivered == {n \in 1..i : lines[n].stamp >= reader[r].since}
       IN  /\ pending' = Append(pending, [key |-> Key(Source(r), lines, delivered, i),
                                          line |-> [run |-> reader[r].target, n |-> i],
                                          cursor |-> lines[i].stamp])
           /\ reader' = [reader EXCEPT ![r].pos = i]
    /\ UNCHANGED <<kubelet, db, faults>>

\* Mutated form: a log that is followed is not asked for again either.
Finish_Always(r) == Move(r, "ended") /\ UNCHANGED <<kubelet, pending, db>>

\* readLogs returned nil: a finished log is not asked for again.
Finish(r) ==
    /\ Move(r, IF r[1].previous \/ reader[r].terminated THEN "ended" ELSE "queued")
    /\ UNCHANGED <<kubelet, pending, db>>

Follow(r) == ~r[1].previous /\ ~reader[r].terminated
Over(run) == run < restart \/ state # "running"

EndOfLog(r) ==
    /\ At(r, "read")
    /\ Served(r) = {}
    /\ Follow(r) => Over(reader[r].target)
    /\ Finish(r)
    /\ UNCHANGED faults

\* The minute is over: readLogs returns nil whatever is left to read.
Rotate(r) ==
    /\ At(r, "read")
    /\ IF Served(r) = {} THEN UNCHANGED faults ELSE Disrupt
    /\ Finish(r)

\* 400 "not found": a previous log the kubelet no longer has ends the task.
PreviousGone(r) ==
    /\ At(r, "request")
    /\ r[1].previous
    /\ Disrupt
    /\ Move(r, "ended")
    /\ UNCHANGED <<kubelet, pending, db>>

\* An error of the pod request, the cursor, the log request or the stream.
RequestFails(r) ==
    /\ At(r, "request") \/ At(r, "read")
    /\ \/ Disrupt
       \/ state \in {"deleted", "waiting"} /\ UNCHANGED faults
    /\ Move(r, "queued")
    /\ UNCHANGED <<kubelet, pending, db>>

\* The goroutine sees its context done and returns.
Quit(r) ==
    /\ reader[r].cancelled
    /\ reader' = [reader EXCEPT ![r] = Free]
    /\ UNCHANGED <<kubelet, pending, db, faults>>

-----------------------------------------------------------------------------
(* The archive and the process.                                            *)

Commit ==
    /\ pending # <<>>
    /\ LET e == Head(pending)
       IN  db' = [keys |-> db.keys \cup {e.key},
                  filed |-> db.filed \cup {[key |-> e.key, line |-> e.line]},
                  cursor |-> [db.cursor EXCEPT ![e.key.src] =
                                 IF e.cursor > @ THEN e.cursor ELSE @]]
    /\ pending' = Tail(pending)
    /\ UNCHANGED <<kubelet, reader, faults>>

\* The process is killed and started again.
Crash ==
    /\ Disrupt
    /\ pending' = <<>>
    /\ reader' = [r \in Readers |-> Free]
    /\ UNCHANGED <<kubelet, db>>

-----------------------------------------------------------------------------
Init ==
    /\ script \in Scripts
    /\ written = [run \in Runs |-> 0]
    /\ restart = 0
    /\ state = "waiting"
    /\ reader = [r \in Readers |-> Free]
    /\ pending = <<>>
    /\ db = [keys |-> {}, filed |-> {}, cursor |-> [run \in Runs |-> 0]]
    /\ faults = 0

readLogs(r) == GetLog(r) \/ ReadLine(r) \/ EndOfLog(r)
               \/ Rotate(r) \/ PreviousGone(r) \/ RequestFails(r)

captureLogs(r) == TakeSlot(r) \/ readLogs(r) \/ Quit(r)

Next == Write \/ Transition \/ Delete \/ podChanged \/ reset \/ Commit \/ Crash
        \/ \E r \in Readers : captureLogs(r)

(* Pod events arrive and the writer commits; a cancelled goroutine         *)
(* returns; blocked senders of a Go channel are served first come, first   *)
(* served, so that a slot comes to everyone who keeps waiting for one;     *)
(* a request is answered and delivers what there is to read.               *)
Fairness ==
    /\ WF_vars(podChanged)
    /\ WF_vars(Commit)
    /\ \A r \in Readers :
          /\ WF_vars(Quit(r))
          /\ SF_vars(TakeSlot(r))
          /\ WF_vars(GetLog(r) \/ RequestFails(r))
          /\ WF_vars(ReadLine(r))
          /\ WF_vars(EndOfLog(r) \/ Rotate(r))

Safety == Init /\ [][Next]_vars
Spec   == Safety /\ Fairness

-----------------------------------------------------------------------------
(* Properties.                                                             *)

Archived(run, i) == LineKey(run, i) \in db.keys
InReach(run, i)  == script[run][i].stamp >= Since(db.cursor[run])

\* Records under a source that are no line of its run.
Foreign(run) == {k \in db.keys : k.src = run} \ KeysOf(run)

\* A line that is not archived can still be asked for: the cursor on disk is
\* never more than the overlap past it, after any kill, rotation, error or
\* hand-over from the current to the previous reader.  For every run whose
\* source holds no line of another run.
UnarchivedInReach ==
    \A run \in Runs : Foreign(run) = {} =>
        \A i \in 1..written[run] : Archived(run, i) \/ InReach(run, i)

\* Replays neither invent nor merge lines: every record was filed for a line the
\* container wrote and has its stamp and text, and under one source two lines
\* never have one record, nor one line two, whichever parts of the log the
\* requests asked for and however their answers overlap.
RecordsAreLines ==
    /\ \A k \in db.keys : \E f \in db.filed : f.key = k
    /\ \A f \in db.filed :
          /\ f.line.n \in 1..written[f.line.run]
          /\ f.key.stamp = script[f.line.run][f.line.n].stamp
          /\ f.key.text = script[f.line.run][f.line.n].text
    /\ \A f, g \in db.filed :
          f.key.src = g.key.src => (f.key = g.key <=> f.line = g.line)

\* The archive catches up again and again with the run that is current, as
\* long as it is.
RunningLogCaptured ==
    \A run \in Runs : []<>(
        (restart = run /\ state = "running") =>
             \A i \in 1..written[run] : Archived(run, i))

\* No line of any run moves out of reach before it is archived.
NoLineLost ==
    \A run \in Runs : \A i \in 1..written[run] : Archived(run, i) \/ InReach(run, i)

\* A task that ended by itself has handed every line of its run to the
\* archive.
FinishedLogsComplete ==
    \A r \in Readers : reader[r].at = "ended" =>
        \A i \in 1..written[Source(r)] :
            \/ Archived(Source(r), i)
            \/ \E n \in DOMAIN pending :
                  pending[n].key = LineKey(Source(r), i)
=============================================================================
