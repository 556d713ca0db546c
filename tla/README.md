# TLA+ models of KiwiKube

KiwiKube is a terminal dashboard for Kubernetes clusters that also records their
history in a local SQLite archive. This directory holds TLA+ models of the parts of
it where order, failure and concurrency matter, TLC configurations that check them
on small instances, and proofs that TLAPS checks for every instance. Paths below are
relative to the repository (`src/src/archive.go` is the Go file `archive.go`).

Run `tlc -config <name>.cfg <module>` for a configuration and `tlapm <module>` for
the proofs. `PROJECT.json` lists the runs, the lines each definition stands for, a
mutant of the code for every checked property, the hazards and the findings.

## 1. The system

One process shows one cluster at a time. `runSession` (`main.go`) starts the API
proxy, opens the archive, starts the collector, and then is the only goroutine that
touches the dashboard's state: everything else reaches it through channels.

```
 keys ──► main goroutine (select loop) ◄── viewResults ◄── viewer workers
               │  opens / closes                results ◄── refresh
               ▼                               podResults ◄── pod metrics
           collector ── lock file          shell events ◄── shell reader
            ├─ watch (one goroutine per kind) ──┐
            └─ podChanged ─► captureLogs (per   ├─ add ─► queue ─► writeLoop ─► sqlite3
                 container run, with slots) ────┘              (one transaction per batch)
```

| Component | State | Operations | What makes it correct |
| --- | --- | --- | --- |
| Archive writer (`archive.go`) | queue of 64, current batch, error, `done`, the file | `add`, the writer loop (records, 250 ms tick, limits of 256 records / 1 MiB), `exec`, `close`, `openArchive` | an `add` that returned nil is written or the failure is visible; a cursor is durable only with its records; nobody blocks for ever |
| Resource recording (`collect.go`, `api.go`) | lock file, per kind: version, stored problem | `startCollector`, `watch`, `storeResource`, `problem`, `close` | the version on disk never runs ahead of the records; a relist happens only after 410; one recorder per archive; every change is recorded or its loss is |
| Log recording (`collect.go`) | tasks, slots, per request: since, counts | `podChanged`, `captureLogs`, `readLogs` | no line gets out of the reach of the next request before it is durable; a repeated line gets its old key; streams share the slots |
| Viewers (`main.go`, `actions.go`, `model.go`) | `view`, `outputs`, per viewer: generation, lines, cancel, `workerDone` | `startViewer`, `stop`, `closeViewer`, tab keys, `streamCommand`, the `viewResults` case | a viewer shows one request only; no stream without a tab; the main goroutine never waits for a worker that waits for it |
| Session (`main.go`) | contexts, recording, database, the deferred calls, the terminal's user | startup, select loop, take-over tick, cluster switch, shells and children, shutdown | what is waited for ends before what it uses, and the rest (replaced pages, closed shells) is told to stop; the terminal has one user; outcomes are recorded |
| Refresh (`main.go`, `kube.go`, `model.go`) | loading flag, rows, selection | `refresh`, `loadCluster`, `applySnapshot`, `record` | one load at a time; a failed list keeps the last rows; a key acts on what is shown; a row without a tone is well, or says Completed |
| Drawing (`ui.go`) | `previousFrame`, what is on the terminal | `draw`, `drawFrame`, menus, resizes | lines that are not written again are already there |
| Navigation and menus (`model.go`, `menu.go`) | tree, table, search, filters, open menu | `handle`, `handleMouse`, `move`, `chooseTree`, `rebuild` | the selection stays inside what is listed and follows its row |
| Pod metrics (`pod_metrics.go`) | target, generation, busy flag | `updatePodMetrics`, `loadPodMetrics` | late answers about another pod are dropped; a gauge shows no more than is used, and no pod within its limits above them |
| Node statistics (`node_stats.go`) | baseline sample, last gauges, peak | `pollNodeStats`, `counterRate` | no rate from a reset, another interface or a repeated sample |
| Interactive terminal (`interactive_terminal.go`) | queued bytes, two channels, child | `write`, `receive`, `resize`, `close`, reader and writer goroutines | input in order or refused; bounded; the child is reaped and both goroutines end |
| Input decoder (`input.go`) | pending bytes, the keys channel | `feed`, the reader goroutine | how the terminal cuts the input does not change the keys |
| Archive queries (`archive.go`, `model.go`, `main.go`) | filter, page stack, `--history` | search, `n`/`N` paging by id, export | pages neither overlap nor skip while records arrive |
| Configuration, cluster access, scripts | files, subprocesses | parsing, `kubectl` | not concurrent, or I/O |

What is hard here: records and replay cursors that must become durable together
across kills; two processes that hand one file to each other while one still flushes;
a server that forgets history; logs that are requested again and again and must
neither repeat nor lose a line; a queue whose consumer can die while producers wait
on it; a main goroutine that joins the workers that send to it; deferred calls that must
unwind in the one order that leaves nobody with a closed service; a screen that is
written in differences while a cluster changes under a selection. The list of hazards,
at the lines where they bite and with the properties that cover them, is in
`PROJECT.json`.

## 2. What is modelled

### DurableLog, Archive, MCArchive — the archive writer

`DurableLog` is what the archive promises: accepted records become durable in the
order of acceptance, in runs, and are given up only by a crash or by a close that
follows a visible failure.

`Archive` is the code. `Producers` are goroutines in `add`: `AddCheck` is the size
and failure test, then the three cases of the select are actions of their own
(`AddSend`, `AddDone`, `AddCancelled`), so that the writer can die in between. The
writer has the states of `writeLoop`: `Receive`, `Tick` and `Drained` start a flush,
`Commit` is the transaction of `exec`, `Flushed` the read of its marker, and
`WriteFails` a failure before or after the commit. `writeBatch` computes the file a
transaction leaves: records upserted by key (a replayed key keeps its first record),
watch cursors overwritten by the last of the batch, log cursors by the maximum.
`CloseQueue`/`CloseReturns` are `close`, `Cancel` the end of the session's context,
`Crash` a kill at any point, `openArchive` the next process. SQL text, JSON and the
FTS index are abstracted to keys, sources, cursors and sizes; sizes count 512 KiB.

`MCArchive.cfg` (218 k states): two producers, three adds, queue of one, batches of
two records or two units, one kill. Records include two sources, a lower version
arriving late, one that fills a batch alone and one that is refused. Every edge of
the loop needs one pending record on each side of a full queue; these bounds
reach all of them, and the proofs of section 4 remove the bounds for the safety part.

### Watch — recording one kind, in several processes

The environment is the API server: a history of numbered changes (of recorded objects
or of others), a compaction point below which it answers 410, lists and streams. A
process goes through `up → collecting → stopping → draining → down`; `Unlock` comes
after its watch goroutine has returned and before its archive has drained, as in
`close`. Its archive is `DurableLog`: accepted entries wait in `pending` and commit in
order. `watch` is one action per step of the loop: `readCursor`, `List`, `ListItem`,
`ListEnds`, `GetStarts`, `Event`, `Bookmark`, `Expired`, `RequestFails`, `StreamEnds`,
and the refusal of an oversize object in both places. `problem` stores an issue only if
the message differs from the one stored last, as the code does. Jumps recorded with an
entry are history variables: which versions a relist skipped and which gap record
speaks about them.

`Watch_takeover.cfg` (176 k states): two processes, one object, three changes of which the third is
oversize, two disruptions (compaction, kill, quit, failed request, ended stream or
archive failure). Three changes give a change before, inside and after a gap; the two
disruptions give every pair of faults, for instance a quit whose flush races a take-over,
or a compaction followed by a kill. `Watch_blocked.cfg` and `Watch_gap.cfg` show
findings 1 and 2.

Not in the model: pages of a list after the first are one step per item with a failure
possible before each; the texts of capture issues beyond their kind; kinds other than
the recorded one (their goroutines share nothing but the queue).

### LogStream, MCLogStream — recording one container's logs

The kubelet is the environment: each run of the container writes a script of lines with
stamps, and "current" and "previous" are resolved when a request arrives. `podChanged`
computes the desired tasks from the pod's status, starts and cancels goroutines; a
cancelled one may outlive its task. A goroutine queues for a slot, reads the durable
cursor (`TakeSlot`), asks for the log (`GetLog`), adds a record per line (`ReadLine`), and
returns at the end of the log, after a minute (`Rotate`), on an error or when cancelled.
`Ordinal`, `Key` and `Since` are the identity of a line and the overlap of a reconnect: the lines
of a log that a request delivers are a set of positions, and a line's ordinal counts the equal ones
delivered before it in a run of one stamp.

`MCLogStream.cfg` (327 k states): two runs, five lines with an equal pair, a line
beyond the overlap and a clock that steps back by all of it; one slot, so that the
previous and the current reader compete; queue of two; one fault of any kind. Goroutines
of one task do not overlap in this instance (`Generations = {1}`): a task is started again
only after its cancelled goroutine has returned. Two overlapping generations do not finish
in reasonable time; what they could do to a cursor (lines queued by two readers of one
source in any order) is covered by `LogCursorsGrow` in `Archive`, which is proved.
`ClockAssumption` states what the overlap is for: a node's clock is set back by no more
than one second, and equal lines with equal stamps are neighbours. `RunsDiffer` states that no two runs of a
container write the same line at the same nanosecond.
`MCLogStream_truncated.cfg` and `MCLogStream_restart.cfg` show findings 3 and 4.

Not in the model: capture issues of log streams (`problems`), init and ephemeral
containers (further tasks of the same shape), a line above the scanner's 1 MiB, a failed
archive (the goroutine returns, as the watch does in `Watch`).

### Viewers — tabs, workers and their channel

Main-goroutine handlers are actions that need `main = Loop`. A handler that calls
`stop` cancels the request and moves `main` to a stop; the rest of it (`Start`, `Closed`,
`Stopped`) is enabled when the goroutine has gone, and until then nothing is received.
Workers send over `results`, bounded by `ResultCap`: `SendLine` and `SendDone` need
room, `Abandon` is the context's case of the select. `Receive` finds the viewer by
generation, as the code does, and trims with `appendLine`. `Deadlines` is the 20 s of every
request but a followed log. `Quit` is the defer that stops the tabs and the chain of the view.

`Viewers.cfg` (421 k states): one target of four kinds, two viewers, two requests, two
lines each, a retained line and two places on the channel. Two requests are enough for a
stale result, a reload, two tabs, a page over a tab and a detail over its list; three
requests were run by hand for one line each, without an error, and take four minutes;
section 4 proves the safety part for any number.

Not in the model: the two workers of a node statistics tab (joined as one), the values
page (a query like `archive-detail`), and the cancellation of all requests by a signal.

### Terminal — the shell in a modal

Four bounded queues lie in a circle: `writes` (main to writer), `typed` (kernel, to the
child), `printed` (kernel, from the child) and `events` (reader to main), and the main
goroutine closes the circle when the screen emulator replies to output. `send` is two
actions, as its counter is changed before the outcome is known (`Offer`, then `Accept` or
`Refuse`); the writer changes it after its write (`Wrote`). The reader is
`Read`, `ReadSends`, `ReadLeaves`, `ReadFails`, `Wait`, `ReadEnds`; the writer `Take`,
`Write`, `WriteFails`, `Wrote`, `WriterEnds`. A key that is refused is lost with a message,
a refused reply closes the shell. The child and the kernel are the environment: a child may
stop reading or printing for ever, may exit while another process keeps its terminal, and
dies when killed; closing the master side ends a read of it.

`Terminal.cfg` (261 k states): two keys of one or two units against a limit of three, one
place in each kernel queue and for events, two for writes, three reads' worth of output, each
of which may ask for a reply. That is enough to fill all four queues at once.

Not in the model: the scrollback ring, the screen and resizing.

### Session — the life of the process

`run` calls `runSession` once per cluster, and `runSession` builds its parts one after the
other, each with a deferred end: `Configure`, `OpenArchive`, `startAPI`, `StartRecording` and
`Dashboard` are these steps, each with its error return. `defers` is the stack of the
deferred calls. When a session leaves, `Tell` is the cancellation at the head of a deferred
call and `Finish` its end, which waits for the goroutines it joins; `Return` is the next
session or the end of the process. In between the loop starts requests and streams (`Work`),
takes over the recording (`TakeOver`), opens and closes views, popups and shells (`Key`, `OpenShell`,
`CloseShell`), hands the terminal to a
child after the key reader is gone (`StopReader`, `StartChild`, `ChildEnds`), and switches
the cluster under an animation (`Switch`, `StopSwitching`). `--collect` is the same process
without a dashboard. `Terminate` is SIGTERM at any time between the creation and the
cancellation of the session's context, `ArchiveFails` the failure of the archive at any time.
`ledger` is what the archive knows of the shell or child session: the context that SIGTERM
cancels is the one its outcome is added with.

Not everything is waited for. A page that Help, Resources, Logs or Flow replaces (`model.go:303-320`,
`main.go:654`) keeps its worker, and the deferred call finds only the tabs and the chain under the current
view; the shell's reader and writer are told by `close`, which does not join them. These are the tasks
`page` and `pump`; `LeaveBehind` puts what is still running when the shell is closed or the session
returns into `left`, which may live on through later sessions.

A failure of the archive has one place on the screen. `warned` is `a.archiveStatus`, which the tick that draws
sets (`Paint`); `Banner` is the status row of `frame` (`ui.go:354-363`), which shows it only when `a.status` is empty
and no view or popup is open. `covered` is the opposite of that condition; keys set and clear it, and a message
in `a.status` stays until one does.

`Session.cfg` (469 k states): three sessions, so that a session has one before and one after it; everything
else is finite by itself. The parts themselves (how a goroutine ends, what the archive
does) are in the other modules; here a goroutine runs, has been told, or is gone.

### Navigation, Dashboard, MCDashboard — rows, keys and the screen

`Navigation` is `model.go` as operators on the state of the app: `tree`, `rebuild`,
`applySnapshot` (with `merge` and `Follow` as its two halves), `move`, `chooseTree`, and
`handle`, the set of states a key or click may lead to. `Dashboard` is the loop around it:
the refresh that is answered once by any cluster with any lists failing (`ClusterAnswers`,
`ApplySnapshot`), requests for the metrics of the selected pod that answer late and in any
order, and the frame. A frame has two lines, because what matters is that a line may be left
alone or written; `drawFrame` leaves a line that equals the previous frame's, and menus,
shells, children (`RunChild`) and resizes write on the terminal behind its back.

`MCDashboard.cfg` (347 k states) explores three scopes, each with the whole loop and one part of what a user
can do, as all of them together are too many states: `rows` (tree, searches, filters; two
pods in any order, one of which comes and goes with its namespace), `panel` (metrics of two
pods while the selection moves) and `screen` (menus, shells, children and resizes). `Within`
bounds the states of a scope, not its actions. Two pods are what it takes for a row to move, to
vanish and to be mistaken for another. The namespaces of the app are a set, listed in the order of the
constant `Namespaces`, which is the alphabetical one; section 4 proves the three properties for any
clusters, namespaces and kinds, and without the bounds of the scopes.

Not in the model: scrolling, the time window of the event filter, the keys of the settings,
the position of menus and the geometry of a click; the contents of lines.

### Input, NodeStats, Pager, Status, MCReaders — what turns bytes into what is shown

Four parts that share nothing. `Input`: the reader goroutine gets what was typed in pieces of any
size (`feed`), or nothing for 100 ms (`Pause`), and sends the decoded keys over its
channel until it is stopped; bytes stand for their class. `NodeStats`: the kubelet samples when it
likes (`Collect`, with reboots, other interfaces and missing metrics), the worker polls when it likes;
counters are unsigned (`% Width`) and rates are compared without dividing. `Pager`: the archive grows
(`Write`) while the view and `--history` page through it by id. `Status`: `record`, `PodStatus` and
the sums of a pod's metrics as functions of the fields they depend on; an object of the metrics is what the
containers of a pod use, their limits, and what metrics.k8s.io answers of each: its usage, the container
without this resource, or nothing.

`MCReaders.cfg` (1.1 M states): inputs of up to three bytes and pairs of eleven sequences, cut everywhere; two
interfaces and four samples; five records, two kinds, pages of two; every object of `MCObjects` (up to two
containers with every readiness and reason, every count of a rollout up to two, every usage, limit and answer for one or two containers). A page more
and less than full, a counter below, at and above its baseline, and each disagreement of two containers
occur within them.

Not in the model: CPU, memory and disk gauges of a node (the same rate, or shown as they come), sidecars
that are init containers (metrics list them, limits do not count them), the page of one
record, the other cells of a row, full-text queries.

## 3. What the runs show

| Run | Shows |
| --- | --- |
| `archive` | `ImplementsDurableLog`: every step of the code is a step of `DurableLog`, with its liveness. `StoreIsReplay`: the file equals one transaction with everything committed. `NothingAbandoned`, `NilMeansQueued`: no accepted record disappears without a failure being visible, also when the writer dies under a waiting `add`. `LogCursorsGrow`. `AddReturns`, `CloseEnds`: nobody waits for ever. |
| `watch_takeover` | `CursorCovered`: every change up to the version on disk is recorded, older than the first list, or in a recorded gap. `RelistForced`: history is skipped only if the server had forgotten it. `OneWatcher`: the lock excludes. `EveryChangeSettles`: every change is eventually recorded or skipped by a relist, unless a failure is visible. |
| `logs` | `UnarchivedInReach`: a line not on disk is within the overlap of the cursor on disk. `RecordsAreLines`: each record was filed for a line of the container and has its stamp and text; under a source lines and keys correspond one to one. `filed` is a history variable: which line each record was made of. `RunningLogCaptured`: one slot is enough for the recording to catch up again and again. |
| `viewers` | `ShowsItsRequest` (what is kept is one line here, so that consecutive lines are the matter of `NoForeignLines`, section 4), `FollowersHaveTabs`, `OneRequestEach`, `TabsDistinct` over all sequences of open, reload, select, close and quit; `StopsEnd`: the join never deadlocks on the full channel; `TimedRequestsSettle`: a result in time reaches its viewer; the one that is dropped at the deadline (`actions.go:203`) is exempted. |
| `terminal` | `QueuedIsWaiting`: the byte counter is what waits. `InputInOrder`: accepted input reaches the PTY without a hole. `OutputBeforeEnd`. `ClosedIsGone`: after a close both goroutines return and the child is reaped. `ExitReported`. `OutputShown`: no deadlock around the four queues. |
| `session` | `NothingOutlives`: requests, tabs and the collector end before the proxy and the archive they use; nothing is left between sessions but replaced pages and closed shells, which have been told. `OneTerminalUser`: keys, animation, dashboard and child have the terminal in turn. `OutcomeRecorded`: a recorded start has a recorded outcome on every way out. `FailureSurfaces`: a failed archive reaches the status row or the exit status, unless something else covers the row from some time on. `LeavingEnds`: no deferred call waits for a goroutine nobody told. |
| `dashboard` | `ActsOnShown`: a key acts on the row or branch the screen shows as selected, although snapshots have moved it since. `MetricsOfSelected`: the panel never shows another pod's numbers. `ScreenIsFrame`: drawing differences leaves the whole frame on the terminal. |
| `readers` | `ChunksDontMatter`, `NeverOverstates`, `PagesComplete`, `QuietRowsAreHealthy`, `GaugesAreFair`, each against a definition written independently of the code: the keys of the whole input, the traffic that no program can see, the records of the filter, what an operator means by well, what the containers of a pod use whether or not metrics list it. |
| `watch_blocked`, `watch_gap`, `logs_truncated`, `logs_restart` | one counterexample each, below |

Deadlock checking is off in all of them because every modelled system may stop: a session
ends, inputs are bounded. The liveness properties take over what it would show.

What these properties do not say, because the code does not promise it:

- A pod's state is the reason of its last container that is not ready (`kube.go:322-342`). When that container
  has completed the row says `Completed` and has no tone, although an earlier one is in a crash loop or the pod
  is still Running with one container less. `PodHealthy` does not count such a pod as well;
  `QuietRowsAreHealthy` lets its row be quiet only with that word and only when a container has completed.
- `pod_metrics.go:42-52` adds up the containers of the answer and never compares them with the pod's: when
  metrics.k8s.io lists fewer, the gauge is too low. `GaugesAreFair` asks for the whole only when all are listed.
- A node that is not ready and has a
  pressure or a cordon is toned as a warning (`NodeRow`); it has a tone, so `QuietRowsAreHealthy` holds.
- SIGTERM cancels the context with which a session's outcome is added, so the outcome can be
  lost (`OutcomeRecorded` names the case), although `docs/guide.md:182-184` lists outcomes among what is
  stored. A quit and SIGINT in the dashboard do not have this window.
- The guide says that a write failure "is surfaced" (`docs/guide.md:189-190`). On the screen it is in the status
  row of the dashboard only: not while `a.status` holds a message (the last "Session ended", "Saved ..." or "Theme: ..."
  stays until Space clears it or another message replaces it), not over a view or a popup, and not while a shell or a child has the screen.
  `FailureSurfaces` exempts the behaviours in which one of these covers the row from some time on.
- A goroutine of a replaced page or of a closed shell may run on after its session (`NothingOutlives`): it has been
  told to stop, and nobody waits for it.
- A click names a line of the screen. Between a snapshot and the next paint, 100 ms at most, it acts on the
  row that is at that line now; `ActsOnShown` is about keys, which follow the selected row.

### Findings

1. **An oversize object blocks its kind** (`watch_blocked`, `SmallChangesCaptured`).
   `add` refuses a record above 2 MiB; the watch then asks again from the version before
   it, for ever. Later changes of the kind are never stored. The guide documents the
   visible issue, not the stop.
2. **A second gap may not be recorded** (`watch_gap`, `EveryGapRecorded`). If the version
   of a relist has expired before a watch on it is accepted, the message equals the one
   stored last and `problem` stores nothing; the guide says a relist "records the gap".
3. **A finished log may lose its tail** (`logs_truncated`, `FinishedLogsComplete`). The
   one-minute rotation returns nil, which `captureLogs` takes for the end of a previous
   or terminated log.
4. **A restart between the pod event and the request mixes two runs** (`logs_restart`,
   `NoLineLost`). The request names "current", the source names the run; the lines of
   the next run are filed under the old one and its cursor moves past unread lines.
   `UnarchivedInReach` therefore speaks of runs without foreign lines.

### Fairness

Weak fairness on what the program does by itself: the writer's loop, the answers of a
working `sqlite3` (a broken one answers with a failure, which is an answer), the watch and
log goroutines with the answers of a working server, the return of a cancelled goroutine
from its select, the main goroutine's receive and the code after a join, the shell's goroutines, and the exit
of a child that was killed. Weak fairness is
what Go's scheduler gives a runnable goroutine, and Go's select picks among ready cases at
random, so a case that stays ready is taken. Strong fairness is assumed twice: for a reader
that waits for a slot (`TakeSlot`): blocked senders of a Go channel are served first come,
first served; and for the tick that draws in `Session` (`Paint`), as its channel stays ready while a child of the
dashboard comes and goes, and the select takes it at some return to the loop. In `Session` the main goroutine goes on wherever it does not wait for the user or for
a child, a cancelled goroutine ends, and so does the child of a cancelled context, which kills it.
`Dashboard` and the readers have safety properties only and assume nothing.
Nothing is assumed of users, changes, compactions, faults, kills, restarts,
or of a followed log, which may be silent for ever.

## 4. What is proved

`ArchiveProofs` starts with facts about the operators a transaction is built from; the main one,
`WriteBatchConcat`, says that two transactions in a row leave the file that one transaction
with both batches leaves. It rests on lemmas about the last and the highest cursor of a
concatenation (`CarriersConcat`, `LastCursorSpec`, `HighCursorSpec`, `HighCursorUnique`).
The module proves, for any number of producers, any records, capacities and bounds:

- `TypeCorrect` — `Spec => []TypeOK`;
- `NothingIsAbandoned`, `FileIsReplay` — the two safety invariants;
- `NilIsQueued`, `LogCursorsNeverFall` — the two action properties;
- `RefinesDurableLog` — the safety part of the refinement: initial states map to
  initial states, and each action maps to a step of `DurableLog` or a stutter.

Assumptions are those of `Archive.tla`: capacities are positive, `None` is no key or
source, a source is a watch or a log but not both, cursors are in `1..MaxCursor`.
`TypeOK` and `NothingAbandoned` are not inductive alone. The invariant that is,
`IInv == TypeOK /\ WriterState /\ CallersJoined`, adds how the writer's position is
tied to the batch, to the error and to `done` (a writer that has exited without an error
has an empty batch and a closed, empty queue; a failure is set before `done` is closed),
and that a closed queue has no caller inside `add`, because the session joins the callers
before it closes the archive. TLC checks it first (as an invariant of `archive`'s
instance); the proof has one step per action. `FileIsReplay` is by `WriteBatchConcat`
in the one action that writes the file. In the refinement only `Commit` changes the
abstract log; `Flushed` after it removes from the batch what the mapping already counts as
durable, and is a stutter.

`WatchProofs` proves `Exclusive` (`OneWatcher`): any number of processes, faults, take-overs. The
invariant `LockInv` says that a session collects, or waits for its goroutines, only while it holds the
lock, and that its goroutine runs only then.

It also proves `VersionIsCovered` (`CursorCovered`) and `RelistsAreForced` (`RelistForced`) for any
number of processes, versions and queue sizes. What is on disk says nothing about what a process is
about to put there, so the invariant speaks of a file *together with the first records of a queue*:
whatever version a process works with is covered by the file and all it has accepted (`Watching`), the
version in each queued record by the file and the queue up to that record (`Queue`), and the version on
disk by the file (`FileOK`). Files only grow and a process commits its head first, so that a commit, of
this process or of another one that still flushes after it gave up the lock, moves cover from a queue to
the file and takes none away (`CommitGrows`, `FileGrows`); that is why a successor needs nothing but the
file. `Kept` adds what a list in progress has still to put.

`ReadersProofs` proves the properties of the four readers, each by an invariant of its own and for any
constants that satisfy the modules' assumptions.

- `GaugeIsHonest` (`NeverOverstates`), for any interfaces, samples and width, under `NodeStatsAssumption`: all
  traffic together stays below the width of the counters (2^64 bytes). `NodeInv`: between a sample and
  now a counter that did not restart has grown by what its interface carried, and one that did shows at
  most that.
- `PagesAreComplete` (`PagesComplete`), for any page size. `PagerInv`: the bounds on the way through the
  pages are records, each the last of the page before it (`Path`); what is shown, what is about to be
  shown and the export descend through the matching records without a gap (`Run`). A record that is
  added while one reads has the highest id, so that it is on the first page or on none that is shown:
  a page with a bound is the same in any later archive (`PageStable`).
- `ReadsAreWhole` (`ChunksDontMatter`), for any input over the classes of bytes. The core is `CutAnywhere`:
  decoding a piece and then what it left, followed by more, gives what decoding it all gives, because a
  sequence that is complete in a piece is not changed by what follows it (`FirstKeyStays`) and what is not
  complete stays whole. `InputInv`: what has been sent is what decoding all that was read since the last
  pause gives, behind the keys up to that pause (`Told`).
- `QuietIsWell` (`QuietRowsAreHealthy`) and `GaugesNeverAlarm` (`GaugesAreFair`), for any objects. `StatusInv` is
  only that a row is what its object gives, so these two are theorems about functions: the state of a pod
  by the last container that is not ready (`PodStatusIs`, `QuietPod`), a rollout by its counts, a gauge by sums
  that grow with their terms (`SumGrows`): of what is listed against what is used (`UsedIsPart`), and of what is
  used against the limits (`LimitBounds`). `StatusAssumption` gives the
  shapes of the objects and what the API adds to them: a pod has no more statuses than containers, limits,
  usage and answers are for the same containers, a
  phase is no reason of a container, and no state that starts with `Init:` is one a pod ends in
  (the prover knows nothing of the characters of a string).

`SessionProofs` proves `InnermostFirst` (`NothingOutlives`), `TerminalHandedOver` (`OneTerminalUser`) and
`OutcomesAreRecorded` (`OutcomeRecorded`) for any number of sessions. The stack of deferred calls is always
one of a few that differ by how far startup came or unwinding has gone; `Level(n)` says, for each, which
services are open and which goroutines may still run (`Built`). `Behind` is about what nobody waits for: the
goroutines of a shell belong to an open one, those of a page to a session that runs, and what has been left
behind has been told.

`ViewersProofs` proves `OneRequest`, `NoStrayStreams`, `NoTwinTabs` and `TypeCorrect` for any number of
targets, viewers, requests and places on the channel. A goroutine that runs belongs to the request its
viewer holds (`Runs`); one without a deadline has a tab until it is cancelled, and a viewer that is about to
become a tab is unlike every tab (`Tabs`). `NoForeignLines` (`ShowsItsRequest`) needs a second invariant,
`Show`: results of a request are on the channel in the order of their lines and its end is behind them
(`Channel`, `Order`), and a tab has received everything of its request that is not on the channel
(`Missing`), so that the next line of a request continues what the viewer has (`AppendedSequel`) and its
end finds nothing missing (`Complete`).

`LogStreamProofs` proves `CursorInReach` (`UnarchivedInReach`), `NoInventedRecords` (`RecordsAreLines`) and
`TypeCorrect` for any scripts, runs, slots, faults and generations of a task that overlap. The cursor on disk
is the stamp of a line that is on disk (`Cursors`); a record on the queue brings every line too old for
its cursor with it, in the file or before it on the queue (`Queue`); every record in the file or on the queue is
filed for a line that has its key, and no other line of that source has (`Filed`, from `LineKeysDiffer`: of two equal
lines the later has the greater ordinal, `OrdinalGrows`); what a reader does not ask for is in
the file, and what it has passed is there or waits (`ReadersKeep`). The key a reader gives a line is the one
the whole log would give it, as `since` never cuts a run of equal lines (`ClockAssumption`) - for a run
whose lines were not mixed with another's, as finding 4 says.

`DashboardProofs` proves `KeysActOnShown` (`ActsOnShown`), `PanelIsHonest` (`MetricsOfSelected`),
`ScreenIsWhole` (`ScreenIsFrame`) and `TypeCorrect` for any clusters, failing lists, namespaces and kinds.
`Painted` says what drawing by differences relies on: unless the previous frame has been forgotten, the
terminal shows it, but for what covers its body, and a shell covers it all the time. `Answered` says that every
answer under way that still counts is about the panel's target, and `Whole` that the target is what the
frame names when nothing is left to be drawn. `Current` is `ActsOnShown` and `MetricsOfSelected` without regard to
resizes; `SnapshotKeeps` is its core: a snapshot leaves the selection where it was whenever that is still
listed, because `merge` and `rebuild` do not touch what was remembered and `Follow` finds the first
row that equals it. All of this needs that a branch of the tree is selected at any time (`Sane`): opening
or closing a branch changes the tree below its own row only (`ToggleKeeps`, over the flattened tree by
`FlattenKeepsPlace`), every other change ends in `clampSelection`. `NavigationAssumption` and
`DashboardAssumption` say that namespaces are different and not empty, that pods are among the kinds, and
that every list of a cluster has the rows of that kind.

`TerminalProofs` proves `InputArrives` (`InputInOrder`), `EndComesLast` (`OutputBeforeEnd`) and `QueueIsCounted`
(`QueuedIsWaiting`) for any limits, sizes and capacities. Input: the chunks delivered, held by the writer and queued are consecutive up
to the last one accepted. Output: what the screen was given, the reads on the channel, the one the reader
holds and those in the kernel add up to what was printed, and the end of the child stands behind all of
them; the sum along the channel is a function that the invariant says exists. Count: `QInv` says that the
counter is the sum of the chunks that wait, of the one in the writer's hands and of the one `send` has
counted and not yet compared, and that without the latter it is within the limit; the writer can only have
lowered it in between.

**What the liveness properties rest on.** That something happens is left to TLC; that nothing stands in
its way for ever is a safety property, and is proved where it is the larger part of the argument. No run
lists these formulas: they are defined beside their proofs and were checked by TLC, on the runs' own
instances, before they were proved.

- `WaitersHaveAWriter` (`NobodyIsStuck`), for `AddReturns` and `CloseEnds`: where no case of a caller of `add` or of
  `close` is ready, the archive goroutine has a step to take. It follows from `Archive`'s `IInv`.
- `NoLockIsStale` (`LockIsLive`), for the take-over in `EveryChangeSettles`: the holder of the lock collects or is
  about to unlock, after kills, quits and failures too. With `LockInv` it is inductive.
- `OneReaderPerTask` (`OneReaderEach`), for `RunningLogCaptured`: two readers of a task overlap only while the older
  one is cancelled and on its way out.
- `FailuresAreKept` (`FailureIsKept`), for `FailureSurfaces`: a failure is kept by the open archive or is the session's
  error. The strengthening `Kept` adds that only a session that opened its archive can have failed.
- `LeavingOnlyUnwinds` (`Unwinds`, an action property), for `LeavingEnds`: nothing starts and nothing is deferred any
  more, every deferred call waits for goroutines that have been told, and the session is left with nothing
  running but the animation and the goroutines it has left behind, which have been told (`Behind`). `Level` says which goroutines each call has still to join.
- `StopsAreTold` (`StopIsTold`), for `StopsEnd`: the main goroutine, which alone empties the channel, waits only for a
  cancelled worker, and a cancelled worker is not held by the channel. `Told` says it for as long as the
  worker runs, and `Lived` that a live viewer has a request.
- `EndsReachTheChannel` (`EndsAreReported`), for `ClosedIsGone` and `ExitReported`: a goroutine that has returned left its
  last event on the channel unless the shell is closed, so that no end is lost to a full channel.

All proofs assume what the modules' ASSUMEs say (capacities positive or natural, sizes natural, model
values different) and nothing about the instance TLC checks. TLC checked the inductive invariants on
small instances first, except those of a shell's output and of the keyboard, which quantify
over functions. Every leaf is proved within a tenth of the time the provers are given (a fifth in
`ViewersProofs`), so that a slower machine proves them too.

Only model-checked: every liveness property, beyond the safety parts above (`AddReturns`, `CloseEnds`, `EveryChangeSettles`,
`RunningLogCaptured`, `StopsEnd`, `TimedRequestsSettle`, `ClosedIsGone`, `ExitReported`, `OutputShown`,
`FailureSurfaces`, `LeavingEnds`) and the liveness of `ImplementsDurableLog`, because the prover does not reason
about fairness or ENABLED here: from the theorems above it still takes that the goroutines run. Every
invariant and every action property of the passing runs is the statement of a theorem. The library's induction theorems cannot be instantiated
here, so an induction is done by hand, on the least counterexample of a set of numbers (`LeastExists`): a
recursive function exists, two that satisfy its equation agree, so that it is what the equation says
(`DecoderExists`, `DecodersAgree`, `DecodeIs`; `FlattenSeq` and the sums likewise). Recursion is written as such
functions for that reason, counts and the last of a kind as cardinalities and maxima of sets of positions; the
folds of the archive are stated without recursion, by the last and the highest carrier.

## 5. How to read the project

Modules and what they extend: `Archive` instantiates `DurableLog`, and `MCArchive`, `MCLogStream`,
`MCDashboard`, `MCReaders` give constants to `Archive`, `LogStream`, `Dashboard` (over `Navigation`) and the four
readers; `Watch`, `Session`, `Viewers` and `Terminal` are checked as they are. `Watch`'s archive is what `Archive`
is shown to implement, and `Session` takes the parts of the others as goroutines and services.
Each `*Proofs` module extends the module it is about.

In `PROJECT.json`, "map" has an entry per operation and for the helpers with source lines of their own. A
helper whose lines are inside those of a mapped operation has none: among them `LastCursor`, `HighCursor`,
`Desired`, `Tasks`, `Launch`, `Workspace`, `SameTab`, `Deadlines`, `Chain`, `FirstKey`, `clampSelection`,
`Shown`, `Baseline`, `Peak`, `NextBound`, `Stopped`, `Strays` and `pause`. A definition called `X_Something` is a form of `X` with a plausible bug;
no specification uses it, and the mutant that does violates the property it is listed with.

## 6. Not modelled, and why

- Configuration: parsing, validation and a rename on save, by one goroutine; a refused configuration is an
  early return of `Session`.
- The proxy's and `kubectl`'s own behaviour: processes of others. How they fail is in the models as answers.
- What lines look like: colours, columns, the flow graph, the description of an object, the scrollback ring,
  the position of menus and scrolling. They are pure functions of a state that is modelled.
- The four slots and the deadlines of the lists of one refresh: `loadCluster` may answer with any of the lists
  missing, which is all that a deadline can do to the dashboard.
- Capture issues of log streams: who displays and who clears one. The problem set is not part of
  `LogStream`, whose state is what is recorded; a line above the scanner's 1 MiB blocks its stream as an
  oversize object blocks its kind (finding 1).
- The values page, the two workers of a node tab (joined as one), the page of one record.
- The end of the session's context while a request starts (`Viewers`), and a gap between two sessions of
  one process in which another takes the lock (it is `Watch`'s take-over with a process that restarts).
- SQL, JSON and full-text search: the filter is a predicate, the store a set of keys.
- Scripts and the service file; the service's restart is the reopen of `Archive` and `Watch`.

`PROJECT.json` gives the status of every component.
