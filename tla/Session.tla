------------------------------- MODULE Session ---------------------------------
(***************************************************************************)
(* The life of the process (src/src/main.go: run and runSession).  A       *)
(* session builds its parts one after the other and defers the end of      *)
(* each, so that they end in the opposite order whatever ends the session: *)
(* a key, SIGINT, SIGTERM, an error, or the switch to another cluster,     *)
(* which starts the next session.  Its goroutines and children use the     *)
(* services below them, the archive and the API proxy, and the terminal,   *)
(* which the dashboard, the child of an edit or ssh, and the animation of  *)
(* a switch use in turn.                                                   *)
(*                                                                         *)
(* The parts themselves are in other modules: here the archive works or    *)
(* has failed, and a goroutine runs, has been told to stop, or is gone.    *)
(***************************************************************************)
EXTENDS Integers, Sequences, FiniteSets

CONSTANTS
    MaxSessions   \* bound: sessions, one more than cluster switches

ASSUME SessionAssumption == MaxSessions \in Nat \ {0}

VARIABLES
    at,         \* where the main goroutine is
    sessions,   \* sessions started
    collect,    \* --collect: no dashboard
    archived,   \* config.ArchiveEnabled
    defers,     \* the deferred calls, the next one first
    tasks,      \* goroutines and children that have not ended
    told,       \* those whose own context is cancelled
    ctx,        \* "live", or what cancelled the session's context
    services,   \* what is open: "database", "api"
    recording,  \* recording # nil
    failed,     \* database.failure
    shell,      \* a.shell # nil
    ledger,     \* the record of the shell or child session
    warned,     \* a.archiveStatus is ARCHIVE FAILED
    covered,    \* a.status is a message, a.view # nil, or a popup is open
    screen,     \* who has the terminal: "tty", "app" or "child"
    result      \* what runSession returns

vars == <<at, sessions, collect, archived, defers, tasks, told, ctx, services, recording,
          failed, shell, ledger, warned, covered, screen, result>>

Workers == {"refresh", "pod"}                  \* in the group of the dashboard
Users   == Workers \cup {"stream", "collector"} \* of the API proxy
Strays  == {"page", "pump", "left"}             \* nobody waits for them
Tasks   == Users \cup Strays \cup {"reader", "spinner"}
Steps   == {"config", "archive", "api", "recording", "terminal"}

\* "page": the worker of a page that Help, Resources, Logs or Flow replaced
\* without stopping it; its commands have the session's context.
\* "pump": the reader and the writer of the open shell.
\* "left": those of closed shells and of the pages of sessions that are over.
Cancelled(t) == t \in told \/ (ctx # "live" /\ t \notin {"spinner", "pump", "left"})

(* Deferred calls cancel their own goroutines and, but for the pod request *)
(* and the shell, wait until those are gone.  The one of the viewers finds *)
(* those in a.outputs and under a.view, which a replaced page is not.      *)
Tells(d) ==
    CASE d = "reader"    -> {"reader"}
      [] d = "viewers"   -> {"stream"}
      [] d = "pod"       -> {"pod"}
      [] d = "recording" -> {"collector"}
      [] OTHER           -> {}
\* Mutated form: the group of the dashboard is not waited for.
Joins_NoGroup(d) == IF d \in {"reader", "viewers", "recording"} THEN Tells(d) ELSE {}
Joins(d) ==
    CASE d \in {"reader", "viewers", "recording"} -> Tells(d)
      [] d = "workers" -> Workers
      [] OTHER         -> {}

TypeOK ==
    /\ at \in Steps \cup {"collect", "loop", "joining", "child", "leaving", "closing", "exited"}
    /\ sessions \in 1..MaxSessions
    /\ {collect, archived, recording, failed, shell, warned, covered} \subseteq BOOLEAN
    /\ defers \in Seq({"cancel", "database", "api", "recording", "workers", "pod", "shell",
                       "viewers", "reader"})
    /\ tasks \subseteq Tasks /\ told \subseteq Tasks
    /\ ctx \in {"live", "SIGTERM", "cancel"}
    /\ services \subseteq {"database", "api"}
    /\ ledger \in {"none", "started", "lost"}
    /\ screen \in {"tty", "app", "child"}
    /\ result \in {"none", "nil", "error", "switch"}

-----------------------------------------------------------------------------
Leave(how) == at' = "leaving" /\ result' = how
Push(ds) == defers' = ds \o defers
Start(t) == tasks' = tasks \cup {t} /\ told' = told \ {t}

\* What is left behind has been told when all of it has.
LeaveBehind(t, stopped) ==
    LET left == {t, "left"} \cap tasks IN
    /\ tasks' = (tasks \ left) \cup (IF left = {} THEN {} ELSE {"left"})
    /\ told' = (told \ {"left"}) \cup (IF left \subseteq stopped THEN {"left"} ELSE {})

\* database.add(ctx): a full queue is left when the context is cancelled, and
\* the select may find both ready.
Accepts == IF ~archived \/ failed THEN {FALSE}
           ELSE IF ctx = "live" THEN {TRUE} ELSE BOOLEAN

recordStarted == \E ok \in Accepts : ledger' = IF ok THEN "started" ELSE "none"
recordEnded ==
    IF ledger = "started" THEN \E ok \in Accepts : ledger' = IF ok THEN "none" ELSE "lost"
    ELSE UNCHANGED ledger

(* loadConfig, validate, NotifyContext, currentContext.                    *)
Configure ==
    /\ at = "config"
    /\ \/ at' = "archive" /\ Push(<<"cancel">>) /\ UNCHANGED result
       \/ Leave("error") /\ UNCHANGED defers
    /\ UNCHANGED <<sessions, collect, archived, tasks, told, ctx, services, recording,
                   failed, shell, ledger, warned, covered, screen>>

OpenArchive ==
    /\ at = "archive"
    /\ \/ /\ archived
          /\ services' = services \cup {"database"} /\ Push(<<"database">>)
          /\ at' = "api" /\ UNCHANGED result
       \/ ~archived /\ at' = "api" /\ UNCHANGED <<services, defers, result>>
       \/ archived /\ Leave("error") /\ UNCHANGED <<services, defers>>
    /\ UNCHANGED <<sessions, collect, archived, tasks, told, ctx, recording, failed, shell,
                   ledger, warned, covered, screen>>

startAPI ==
    /\ at = "api"
    /\ \/ /\ services' = services \cup {"api"} /\ Push(<<"api">>)
          /\ at' = "recording" /\ UNCHANGED result
       \/ Leave("error") /\ UNCHANGED <<services, defers>>
    /\ UNCHANGED <<sessions, collect, archived, tasks, told, ctx, recording, failed, shell,
                   ledger, warned, covered, screen>>

\* The lock is another process's, or the collector starts.
startCollector ==
    \/ recording' = TRUE /\ Start("collector")
    \/ UNCHANGED <<recording, tasks, told>>

StartRecording ==
    /\ at = "recording"
    /\ \/ /\ IF archived THEN startCollector ELSE UNCHANGED <<recording, tasks, told>>
          /\ Push(<<"recording">>)
          /\ IF ~collect THEN at' = "terminal" /\ UNCHANGED result
             ELSE IF recording' THEN at' = "collect" /\ UNCHANGED result
             ELSE Leave("error")
       \/ archived /\ Leave("error") /\ UNCHANGED <<recording, tasks, told, defers>>
    /\ UNCHANGED <<sessions, collect, archived, ctx, services, failed, shell, ledger, warned,
                   covered, screen>>

\* stopSwitching: the animation ends before the dashboard is drawn.
Animated == "spinner" \in tasks

\* Mutated form: the animation is not waited for.
TakeScreen_Now == screen' = "app"

TakeScreen ==
    /\ ~Animated
    /\ screen' = "app"

StopSwitching ==
    /\ at \in {"terminal", "closing"}
    /\ Animated /\ "spinner" \notin told
    /\ told' = told \cup {"spinner"}
    /\ UNCHANGED <<at, sessions, collect, archived, defers, tasks, ctx, services, recording,
                   failed, shell, ledger, warned, covered, screen, result>>

\* Mutated form: the group of the dashboard ends first, with its context.
Deferred_GroupFirst == <<"workers", "reader", "viewers", "shell", "pod">>
Deferred == <<"reader", "viewers", "shell", "pod", "workers">>

Dashboard ==
    /\ at = "terminal"
    /\ \/ /\ TakeScreen
          /\ Push(Deferred)
          /\ tasks' = tasks \cup {"reader", "refresh"}
          /\ told' = told \ {"reader", "refresh"}
          /\ at' = "loop" /\ UNCHANGED result
       \/ screen = "tty" /\ Leave("error") /\ UNCHANGED <<tasks, told, defers, screen>>
    /\ UNCHANGED <<sessions, collect, archived, ctx, services, recording, failed, shell,
                   ledger, warned, covered>>

-----------------------------------------------------------------------------
(* The loop.                                                               *)

(* A request starts, or a viewer opens; a page opens and is replaced.      *)
Work(t) ==
    /\ at = "loop"
    /\ t \in Workers \cup {"stream", "page"} /\ t \notin tasks
    /\ Start(t)
    /\ covered' \in CASE t \in Workers  -> {covered}
                      [] t = "stream"   -> {TRUE}
                      [] t = "page"     -> BOOLEAN
    /\ UNCHANGED <<at, sessions, collect, archived, defers, ctx, services, recording, failed,
                   shell, ledger, warned, screen, result>>

\* A session that found the lock taken tries again on every tick; an error is
\* the status from then on.
TakeOver ==
    /\ at = "loop"
    /\ archived /\ ~recording
    /\ startCollector
    /\ covered' \in IF recording' THEN {covered} ELSE {covered, TRUE}
    /\ UNCHANGED <<at, sessions, collect, archived, defers, ctx, services, failed, shell,
                   ledger, warned, screen, result>>

\* Keys open and close views and popups and set and clear a.status.
Key ==
    /\ at = "loop" /\ ~shell
    /\ covered' = ~covered
    /\ UNCHANGED <<at, sessions, collect, archived, defers, tasks, told, ctx, services,
                   recording, failed, shell, ledger, warned, screen, result>>

\* The tick that draws looks at the archive first.
Paint ==
    /\ at = "loop"
    /\ warned' = failed
    /\ UNCHANGED <<at, sessions, collect, archived, defers, tasks, told, ctx, services,
                   recording, failed, shell, ledger, covered, screen, result>>

\* frame(): the failure is in the status row of the dashboard, in the place of
\* an empty status.  It has no other place.
Banner == at = "loop" /\ warned /\ ~covered /\ ~shell

OpenShell ==
    /\ at = "loop" /\ ~shell
    /\ recordStarted
    /\ shell' = TRUE /\ Start("pump")
    /\ covered' = (covered \/ (archived /\ ledger' = "none"))
    /\ UNCHANGED <<at, sessions, collect, archived, defers, ctx, services, recording, failed,
                   warned, screen, result>>

closeShell ==
    /\ shell' = FALSE
    /\ recordEnded
    /\ LeaveBehind("pump", told \cup {"pump"})

(* The key, the end of the shell, or an error at its start: "Session ended" *)
(* or "Shell failed".                                                       *)
CloseShell ==
    /\ at = "loop" /\ shell
    /\ closeShell
    /\ covered' = TRUE
    /\ UNCHANGED <<at, sessions, collect, archived, defers, ctx, services, recording, failed,
                   warned, screen, result>>

\* stopInput before an edit or ssh.
StopReader ==
    /\ at = "loop" /\ ~shell
    /\ at' = "joining"
    /\ told' = told \cup {"reader"}
    /\ UNCHANGED <<sessions, collect, archived, defers, tasks, ctx, services, recording,
                   failed, shell, ledger, warned, covered, screen, result>>

ReaderGone == "reader" \notin tasks

StartChild ==
    /\ at = "joining" /\ ReaderGone
    /\ \/ /\ at' = "child" /\ screen' = "child"
          /\ recordStarted
          /\ UNCHANGED result
       \/ Leave("error") /\ screen' = "tty" /\ UNCHANGED ledger
    /\ UNCHANGED <<sessions, collect, archived, defers, tasks, told, ctx, services, recording,
                   failed, shell, warned, covered>>

(* The main goroutine waits for the child, which the context kills.        *)
ChildEnds ==
    /\ at = "child"
    /\ recordEnded
    /\ \/ /\ at' = "loop" /\ screen' = "app" /\ Start("reader")
          /\ covered' = TRUE
          /\ UNCHANGED result
       \/ Leave("error") /\ UNCHANGED <<tasks, told, screen, covered>>
    /\ UNCHANGED <<sessions, collect, archived, defers, ctx, services, recording, failed,
                   shell, warned>>

\* A quit, SIGINT, the end of the keys; and <-ctx.Done() in particular.
Quit ==
    /\ at \in {"loop", "collect"}
    /\ Leave("nil")
    /\ UNCHANGED <<sessions, collect, archived, defers, tasks, told, ctx, services, recording,
                   failed, shell, ledger, warned, covered, screen>>
Done == ctx # "live" /\ Quit

\* "cluster:": the animation starts on the last frame.
Switch ==
    /\ at = "loop" /\ ~shell
    /\ sessions < MaxSessions
    /\ Leave("switch")
    /\ Start("spinner")
    /\ UNCHANGED <<sessions, collect, archived, defers, ctx, services, recording, failed,
                   shell, ledger, warned, covered, screen>>

\* --collect looks at the archive every five seconds.
CollectTick ==
    /\ at = "collect" /\ failed
    /\ Leave("error")
    /\ UNCHANGED <<sessions, collect, archived, defers, tasks, told, ctx, services, recording,
                   failed, shell, ledger, warned, covered, screen>>

-----------------------------------------------------------------------------
\* Mutated form: the group is waited for before its context is cancelled.
CancelsFirst_No(d) == FALSE
CancelsFirst(d) == d = "workers"

(* A deferred call cancels ...                                             *)
Tell ==
    /\ at = "leaving" /\ defers # <<>>
    /\ LET d == Head(defers) IN
          /\ ~(Tells(d) \subseteq told) \/ (CancelsFirst(d) /\ ctx = "live")
          /\ told' = told \cup Tells(d)
          /\ ctx' = IF CancelsFirst(d) /\ ctx = "live" THEN "cancel" ELSE ctx
    /\ UNCHANGED <<at, sessions, collect, archived, defers, tasks, services, recording, failed,
                   shell, ledger, warned, covered, screen, result>>

\* Mutated form: an error of close is not reported.
CloseResult_Ignored == result
\* errors.Join: a switch with an error is an error.
CloseResult == IF failed THEN "error" ELSE result

(* ... and ends what it is about when that is gone.                        *)
Finish ==
    /\ at = "leaving" /\ defers # <<>>
    /\ LET d == Head(defers) IN
          /\ Tells(d) \subseteq told
          /\ CancelsFirst(d) => ctx # "live"
          /\ Joins(d) \cap tasks = {}
          /\ services' = services \ {d}
          /\ IF d = "shell" /\ shell THEN closeShell
             ELSE UNCHANGED <<shell, ledger, tasks, told>>
          /\ result' = IF d = "database" THEN CloseResult ELSE result
    /\ defers' = Tail(defers)
    /\ UNCHANGED <<at, sessions, collect, archived, ctx, recording, failed, warned, covered,
                   screen>>

(* run: the next session, or the end of the process.                       *)
Return ==
    /\ at = "leaving" /\ defers = <<>>
    /\ LeaveBehind("page", {t \in Tasks : Cancelled(t)})
    /\ IF result = "switch"
       THEN /\ at' = "config" /\ sessions' = sessions + 1 /\ result' = "none"
            /\ ctx' = "live" /\ ledger' = "none" /\ recording' = FALSE
            /\ failed' = FALSE /\ warned' = FALSE /\ covered' = FALSE
       ELSE /\ at' = "closing"
            /\ UNCHANGED <<sessions, result, ctx, ledger, recording, failed, warned, covered>>
    /\ UNCHANGED <<collect, archived, defers, services, shell, screen>>

(* term.close                                                              *)
CloseTerminal ==
    /\ at = "closing" /\ ~Animated
    /\ at' = "exited" /\ screen' = "tty"
    /\ UNCHANGED <<sessions, collect, archived, defers, tasks, told, ctx, services, recording,
                   failed, shell, ledger, warned, covered, result>>

-----------------------------------------------------------------------------
(* The rest of the world.                                                  *)

\* A goroutine that was told ends; a request, a viewer's command, the keys or a
\* shell may end by themselves.
TaskEnds(t) ==
    /\ t \in tasks
    /\ Cancelled(t) \/ t \in Workers \cup Strays \cup {"stream", "reader"}
    /\ tasks' = tasks \ {t}
    /\ UNCHANGED <<at, sessions, collect, archived, defers, told, ctx, services, recording,
                   failed, shell, ledger, warned, covered, screen, result>>

ArchiveFails ==
    /\ "database" \in services /\ ~failed
    /\ failed' = TRUE
    /\ UNCHANGED <<at, sessions, collect, archived, defers, tasks, told, ctx, services,
                   recording, shell, ledger, warned, covered, screen, result>>

\* Between NotifyContext and its cancellation.
Terminate ==
    /\ defers # <<>> /\ ctx = "live"
    /\ ctx' = "SIGTERM"
    /\ UNCHANGED <<at, sessions, collect, archived, defers, tasks, told, services, recording,
                   failed, shell, ledger, warned, covered, screen, result>>

Init ==
    /\ at = "config" /\ sessions = 1
    /\ collect \in BOOLEAN /\ archived \in BOOLEAN
    /\ defers = <<>> /\ tasks = {} /\ told = {}
    /\ ctx = "live" /\ services = {}
    /\ recording = FALSE /\ failed = FALSE /\ shell = FALSE
    /\ ledger = "none" /\ warned = FALSE /\ covered = FALSE /\ screen = "tty"
    /\ result = "none"

Startup == Configure \/ OpenArchive \/ startAPI \/ StartRecording \/ Dashboard
Loop    == \/ \E t \in Tasks : Work(t)
           \/ TakeOver \/ Key \/ OpenShell \/ CloseShell \/ StopReader \/ ChildEnds \/ Quit \/ Switch
Unwind  == Tell \/ Finish \/ Return \/ StopSwitching \/ CloseTerminal
Ends    == \E t \in Tasks : Cancelled(t) /\ TaskEnds(t)

Next ==
    \/ Startup \/ Loop \/ Unwind \/ Paint \/ Done \/ StartChild \/ CollectTick
    \/ \E t \in Tasks : TaskEnds(t)
    \/ ArchiveFails \/ Terminate

(* The main goroutine goes on wherever it is not waiting for the user or a *)
(* child; a select takes a case that stays ready, the tick that draws also *)
(* when children interrupt it; cancelled goroutines and the children of a  *)
(* cancelled context end.  Nobody has to press a key.                      *)
Fairness ==
    /\ WF_vars(Startup) /\ WF_vars(Unwind) /\ WF_vars(StartChild)
    /\ SF_vars(Paint) /\ WF_vars(Done) /\ WF_vars(CollectTick)
    /\ WF_vars(ctx # "live" /\ ChildEnds)
    /\ \A t \in Tasks : WF_vars(Cancelled(t) /\ TaskEnds(t))

Spec == Init /\ [][Next]_vars /\ Fairness

-----------------------------------------------------------------------------
(* Properties.                                                             *)

\* Nothing that a session waits for outlives what it uses: requests, tabs and
\* the collector end before the proxy, the collector and a shell or child whose
\* outcome is still to be recorded before the archive.  When the next session
\* starts, whose archive may be the same file, and when the process ends, all
\* of them are gone; only goroutines of replaced pages and closed shells, which
\* nobody waits for, may run on, and those have been told to stop.
NothingOutlives ==
    /\ Users \cap tasks # {} => "api" \in services
    /\ "collector" \in tasks => "database" \in services
    /\ ledger = "started" => "database" \in services
    /\ "left" \in tasks => "left" \in told
    /\ at \in {"config", "exited"} =>
          tasks \subseteq {"spinner", "left"} /\ services = {} /\ ~shell

\* The terminal has one user: the keys and the animation are gone before a
\* child gets it, the animation before the dashboard paints, and it is given
\* back when the process ends, whichever way.
OneTerminalUser ==
    /\ at = "child" => screen = "child" /\ tasks \cap {"reader", "spinner"} = {}
    /\ Animated => at \notin {"loop", "joining", "child", "collect"}
    /\ at = "loop" => screen = "app"
    /\ at = "exited" => screen = "tty" /\ ~Animated

\* A shell, edit or ssh session whose start is recorded has its outcome
\* recorded on every way out, a switch, a quit and an error included; it is
\* lost only to SIGTERM, which cancels the context the record is added with,
\* or to the failure of the archive.
OutcomeRecorded ==
    /\ ledger = "started" => shell \/ at = "child"
    /\ ledger = "lost" => ctx = "SIGTERM" \/ failed

\* A failure of the archive comes to the status row, or it is the error the
\* process ends with, unless from some time on the row has something else to
\* show whenever there is a dashboard: a message, a view, a popup or a shell.
\* So also when the session is just leaving, for another cluster too.
FailureSurfaces ==
    failed ~> \/ Banner \/ result = "error"
              \/ [](covered \/ shell \/ at \in {"joining", "child"})

\* A session that is left is over at some time: no deferred call waits for a
\* goroutine that nobody has told to stop.
LeavingEnds == at = "leaving" ~> at \in {"config", "exited"}
=============================================================================
