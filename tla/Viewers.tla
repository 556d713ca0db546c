------------------------------ MODULE Viewers -------------------------------
(***************************************************************************)
(* The viewers of the dashboard (src/src/main.go: startViewer and the      *)
(* select loop of runSession; actions.go: streamCommand; model.go: stop,   *)
(* closeViewer).  A viewer shows the output of one request, made by a      *)
(* worker goroutine that sends results over a bounded channel to the main  *)
(* goroutine.  The main goroutine is also the one that cancels workers and *)
(* waits for them, and while it waits it receives nothing.                 *)
(*                                                                         *)
(* A request is known by its generation; its lines by their numbers.       *)
(***************************************************************************)
EXTENDS Integers, Sequences, FiniteSets, SequencesExt

CONSTANTS
    Targets,      \* resources a viewer can be about
    Output,       \* bound: lines a request produces
    LogLines,     \* retained lines of a viewer (config.LogLines)
    ResultCap,    \* capacity of viewResults (128)
    MaxViewers,   \* bound: viewers opened
    MaxRequests   \* bound: requests made

ASSUME ViewersAssumption ==
    /\ {LogLines, ResultCap} \subseteq Nat \ {0}
    /\ {Output, MaxViewers, MaxRequests} \subseteq Nat

Kinds     == {"logs", "describe", "archive", "archive-detail"}
Workspace == {"logs", "describe"}       \* isWorkspaceView: a tab of its own
Nil       == 0
Help      == -1                         \* pages without a worker
Flow      == -2
Ids       == 1..MaxViewers
Requests  == 1..MaxRequests

VARIABLES
    viewers,    \* id -> the viewer
    view,       \* a.view
    outputs,    \* a.outputs, the tabs
    generation, \* requests made
    worker,     \* request -> its goroutine
    results,    \* viewResults
    main        \* "loop", "exited", or the stop the main goroutine is in

vars == <<viewers, view, outputs, generation, worker, results, main>>

Stops == [stop : Ids, then : {"start", "close", "exit"}]
Loop  == [stop |-> Nil, then |-> "loop"]
Gone  == [stop |-> Nil, then |-> "exited"]

TypeOK ==
    /\ viewers \in Seq([kind : Kinds, target : Targets, parent : Ids \cup {Nil},
                        gen : Requests \cup {Nil}, live : BOOLEAN, done : BOOLEAN,
                        lines : Seq([gen : Requests, n : 1..Output])])
    /\ view \in DOMAIN viewers \cup {Nil, Help, Flow}
    /\ outputs \in Seq(DOMAIN viewers)
    /\ generation \in 0..MaxRequests
    /\ worker \in [Requests -> [owner : Ids \cup {Nil}, at : {"off", "run", "gone"},
                                timed : BOOLEAN, sent : 0..Output,
                                cancelled : BOOLEAN, late : BOOLEAN]]
    /\ results \in Seq([gen : Requests, n : 0..Output, done : BOOLEAN])
    /\ Len(results) <= ResultCap
    /\ main \in Stops \cup {Loop, Gone}

-----------------------------------------------------------------------------
Kind(v)  == viewers[v].kind
Tab(x)   == IF x \in Ids THEN Kind(x) \in Workspace ELSE x # Help
Owned(v) == viewers[v].gen

\* v.stop cancels the request and waits for its goroutine; the rest of the
\* handler runs when that has gone.
Stop(v, then) ==
    /\ main' = [stop |-> v, then |-> then]
    /\ worker' = IF viewers[v].live
                 THEN [worker EXCEPT ![Owned(v)].cancelled = TRUE] ELSE worker

\* Mutated form: the handler goes on at once.
Joined_NoWait(v) == main.stop = v
Joined(v) == main.stop = v /\ (viewers[v].live => worker[Owned(v)].at = "gone")

Fresh(kind, t, parent) ==
    [kind |-> kind, target |-> t, parent |-> parent, gen |-> Nil, live |-> FALSE,
     done |-> FALSE, lines |-> <<>>]

SameTab(kind, t) == {v \in Range(outputs) : Kind(v) = kind /\ viewers[v].target = t}

New(kind, t, parent) ==
    /\ Len(viewers) < MaxViewers /\ generation < MaxRequests
    /\ viewers' = Append(viewers, Fresh(kind, t, parent))
    /\ main' = [stop |-> Len(viewers) + 1, then |-> "start"]
    /\ UNCHANGED <<view, outputs, generation, worker, results>>

\* Mutated form: an open tab is not looked for.
Open_Twice(kind, t) == main = Loop /\ view = Nil /\ New(kind, t, Nil)

(* startViewer for a selected row: a tab that is open already is shown.    *)
Open(kind, t) ==
    /\ main = Loop
    /\ view = Nil
    /\ IF kind \in Workspace /\ SameTab(kind, t) # {}
       THEN /\ view' \in SameTab(kind, t)
            /\ UNCHANGED <<viewers, outputs, generation, worker, results, main>>
       ELSE New(kind, t, Nil)

\* "archive-detail": the list it was opened from is its parent.
OpenDetail ==
    /\ main = Loop
    /\ view \in Ids
    /\ Kind(view) = "archive"
    /\ viewers[view].lines # <<>>
    /\ New("archive-detail", viewers[view].target, view)

Reload ==
    /\ main = Loop
    /\ view \in Ids
    /\ generation < MaxRequests
    /\ Stop(view, "start")
    /\ UNCHANGED <<viewers, view, outputs, generation, results>>

Close(v) ==
    /\ main = Loop
    /\ v = view \/ (Tab(view) /\ v \in Range(outputs))
    /\ Stop(v, "close")
    /\ UNCHANGED <<viewers, view, outputs, generation, results>>

\* Resources, Logs, Flow, Help, Tab, a tab's label: a.view is replaced.
Select(x) ==
    /\ main = Loop
    /\ x # view
    /\ \/ x \in {Nil, Help, Flow}
       \/ x \in Range(outputs) /\ (Kind(x) = "logs" \/ Tab(view))
    /\ view' = x
    /\ UNCHANGED <<viewers, outputs, generation, worker, results, main>>

-----------------------------------------------------------------------------
\* A followed log has no deadline; every other request has 20 s, the previous
\* log of a container among them (the key p).
Deadlines(kind) == IF kind = "logs" THEN BOOLEAN ELSE {TRUE}

\* A command that cannot be built (command) is shown as an error; no goroutine.
Built(kind) == IF kind \in Workspace THEN BOOLEAN ELSE {TRUE}

Request(v, g, timed, built) ==
    /\ viewers' = [viewers EXCEPT ![v].gen = g, ![v].live = TRUE,
                                  ![v].done = ~built, ![v].lines = <<>>]
    /\ worker' = [worker EXCEPT ![g] =
                    [owner |-> v, at |-> IF built THEN "run" ELSE "gone", timed |-> timed,
                     sent |-> 0, cancelled |-> FALSE, late |-> FALSE]]

\* Mutated form: the new tab takes the place of the others, which run on.
AddTab_Replaces(v) == IF Kind(v) \in Workspace /\ v \notin Range(outputs)
                      THEN <<v>> ELSE outputs

AddTab(v) == IF Kind(v) \in Workspace /\ v \notin Range(outputs)
             THEN Append(outputs, v) ELSE outputs

\* Mutated form: the request keeps its number.
NextGeneration_Same(g) == IF g = 0 THEN 1 ELSE g
NextGeneration(g) == g + 1

(* The rest of startViewer: a new request under a new generation.          *)
Start(v) ==
    /\ Joined(v) /\ main.then = "start"
    /\ generation < MaxRequests
    /\ generation' = NextGeneration(generation)
    /\ \E timed \in Deadlines(Kind(v)), built \in Built(Kind(v)) :
          Request(v, generation', timed, built)
    /\ view' = v
    /\ outputs' = AddTab(v)
    /\ main' = Loop
    /\ UNCHANGED results

(* The rest of closeViewer.                                                *)
Closed(v) ==
    /\ Joined(v) /\ main.then = "close"
    /\ viewers' = [viewers EXCEPT ![v].live = FALSE]
    /\ outputs' = RemoveFirst(outputs, v)
    /\ view' = IF view = v THEN viewers[v].parent ELSE view
    /\ main' = Loop
    /\ UNCHANGED <<generation, worker, results>>

\* a.view and the viewers under it.
Chain == IF view \notin Ids THEN {}
         ELSE {view} \cup (IF viewers[view].parent = Nil THEN {} ELSE {viewers[view].parent})
Left  == {v \in Range(outputs) \cup Chain : viewers[v].live}

(* runSession returns: the deferred loop stops tabs and the view's chain.  *)
Quit ==
    /\ main = Loop
    /\ IF Left = {} THEN main' = Gone /\ UNCHANGED worker
       ELSE \E v \in Left : Stop(v, "exit")
    /\ UNCHANGED <<viewers, view, outputs, generation, results>>

Stopped(v) ==
    /\ Joined(v) /\ main.then = "exit"
    /\ viewers' = [viewers EXCEPT ![v].live = FALSE]
    /\ IF Left = {v} THEN main' = Gone /\ UNCHANGED worker
       ELSE \E w \in Left \ {v} : Stop(w, "exit")
    /\ UNCHANGED <<view, outputs, generation, results>>

-----------------------------------------------------------------------------
appendLine(lines, line) ==
    Append(IF Len(lines) >= LogLines THEN Tail(lines) ELSE lines, line)

\* Mutated form: only the tabs are looked through.
ViewersOf_TabsOnly(r) == {v \in Range(outputs) : viewers[v].gen = r.gen}
ViewersOf(r) == {v \in Range(outputs) \cup ({view} \cap Ids) : viewers[v].gen = r.gen}

(* case result := <-viewResults: for a tab, or for the view, with that     *)
(* generation; a result without such a viewer is dropped.                  *)
Receive ==
    /\ main = Loop
    /\ results # <<>>
    /\ LET r == Head(results) IN
           viewers' = [v \in DOMAIN viewers |->
              IF v \notin ViewersOf(r) THEN viewers[v]
              ELSE IF ~r.done
                   THEN [viewers[v] EXCEPT !.lines =
                            appendLine(@, [gen |-> r.gen, n |-> r.n])]
              ELSE IF Kind(v) \notin Workspace /\ r.n > 0
                   THEN [viewers[v] EXCEPT !.done = TRUE,
                            !.lines = <<[gen |-> r.gen, n |-> r.n]>>]
              ELSE [viewers[v] EXCEPT !.done = TRUE]]
    /\ results' = Tail(results)
    /\ UNCHANGED <<view, outputs, generation, worker, main>>

Running(g) == worker[g].at = "run"
Alive(g)   == Running(g) /\ main # Gone
Send(g, n, done) ==
    /\ Len(results) < ResultCap
    /\ results' = Append(results, [gen |-> g, n |-> n, done |-> done])
Stays == UNCHANGED <<viewers, view, outputs, generation, main>>

(* streamCommand sends a line of the command's output.                     *)
SendLine(g) ==
    /\ Alive(g)
    /\ Kind(worker[g].owner) \in Workspace
    /\ worker[g].sent < Output
    /\ Send(g, worker[g].sent + 1, FALSE)
    /\ worker' = [worker EXCEPT ![g].sent = @ + 1]
    /\ Stays

(* The last result: the end of the command, or a query's whole answer.     *)
SendDone(g) ==
    /\ Alive(g)
    /\ IF Kind(worker[g].owner) \in Workspace
       THEN /\ Send(g, 0, TRUE)
            /\ worker' = [worker EXCEPT ![g].at = "gone"]
       ELSE /\ Output > 0
            /\ Send(g, 1, TRUE)
            /\ worker' = [worker EXCEPT ![g].at = "gone", ![g].sent = 1]
    /\ Stays

\* Mutated form: the send does not watch the context.
Abandon_Never(g) == FALSE /\ SendDone(g)

(* case <-ctx.Done(): the goroutine ends without a last result.            *)
Abandon(g) ==
    /\ Alive(g)
    /\ worker[g].cancelled
    /\ worker' = [worker EXCEPT ![g].at = "gone"]
    /\ Stays /\ UNCHANGED results

(* The 20 s of the request are over.                                       *)
Deadline(g) ==
    /\ Alive(g)
    /\ worker[g].timed
    /\ ~worker[g].cancelled
    /\ worker' = [worker EXCEPT ![g].cancelled = TRUE, ![g].late = TRUE]
    /\ Stays /\ UNCHANGED results

-----------------------------------------------------------------------------
Init ==
    /\ viewers = <<>>
    /\ view = Nil
    /\ outputs = <<>>
    /\ generation = 0
    /\ worker = [g \in Requests |-> [owner |-> Nil, at |-> "off", timed |-> FALSE,
                                     sent |-> 0, cancelled |-> FALSE, late |-> FALSE]]
    /\ results = <<>>
    /\ main = Loop

Keys == \/ \E kind \in Kinds \ {"archive-detail"}, t \in Targets : Open(kind, t)
        \/ OpenDetail \/ Reload \/ Quit
        \/ \E v \in DOMAIN viewers : Close(v)
        \/ \E x \in DOMAIN viewers \cup {Nil, Help, Flow} : Select(x)

Continue == \E v \in DOMAIN viewers : Start(v) \/ Closed(v) \/ Stopped(v)

Work(g) == SendLine(g) \/ SendDone(g) \/ Abandon(g) \/ Deadline(g)

Next == Keys \/ Continue \/ Receive \/ \E g \in Requests : Work(g)

(* The main goroutine receives what there is and goes on when a join is    *)
(* over.  A cancelled worker gets to its select, where the context is      *)
(* ready; a timed request ends or its deadline fires.  A followed log may  *)
(* stay silent for ever.                                                   *)
Fairness ==
    /\ WF_vars(Continue)
    /\ WF_vars(Receive)
    /\ \A g \in Requests :
          /\ WF_vars(Abandon(g))
          /\ WF_vars(worker[g].timed /\ (SendDone(g) \/ Deadline(g)))

Spec == Init /\ [][Next]_vars /\ Fairness

-----------------------------------------------------------------------------
(* Properties.                                                             *)

\* A viewer shows its current request only, without a gap: the last lines it
\* has received, no more than it may keep, in the order they were printed, and
\* all of them up to the end when it says Complete.  Results of the request
\* before a reload, still on the channel, never appear.
ShowsItsRequest ==
    \A v \in DOMAIN viewers :
        LET x == viewers[v] IN
        /\ Len(x.lines) <= LogLines
        /\ \A i \in DOMAIN x.lines :
              /\ x.lines[i].gen = x.gen
              /\ i > 1 => x.lines[i].n = x.lines[i - 1].n + 1
        /\ x.lines # <<>> /\ Len(x.lines) < LogLines => x.lines[1].n = 1
        /\ x.done /\ x.lines # <<>> => Last(x.lines).n = worker[x.gen].sent
        /\ x.done /\ x.lines = <<>> => worker[x.gen].sent = 0

\* A followed log that runs belongs to a tab that shows it: closing, leaving
\* or reloading never loses a stream that nothing else would end, and none is
\* left when the session is over.
FollowersHaveTabs ==
    \A g \in Requests :
        (Running(g) /\ ~worker[g].cancelled /\ ~worker[g].timed)
            => /\ main # Gone
               /\ worker[g].owner \in Range(outputs)
               /\ viewers[worker[g].owner].gen = g

\* One request of a viewer at a time: the old one is joined before a new one.
OneRequestEach ==
    \A g, h \in Requests :
        Running(g) /\ Running(h) /\ worker[g].owner = worker[h].owner => g = h

\* No two tabs are about the same thing.
TabsDistinct ==
    \A i, j \in DOMAIN outputs :
        (Kind(outputs[i]) = Kind(outputs[j])
            /\ viewers[outputs[i]].target = viewers[outputs[j]].target) => i = j

\* The main goroutine never waits for ever for a worker that waits for it,
\* with the channel full and nobody else to receive.
StopsEnd == main.stop # Nil ~> main.stop = Nil

\* A view on the screen waits for the result of a request with a deadline
\* that has not fired.
Waiting(g) ==
    /\ worker[g].timed
    /\ viewers[worker[g].owner].gen = g
    /\ worker[g].owner \in Range(outputs) \cup {view}
    /\ ~viewers[worker[g].owner].done
    /\ ~worker[g].late
    /\ main # Gone

\* Such a view gets its result, unless the user leaves or reloads it.  (When
\* the deadline fires, the result that would say so may be dropped: it is sent
\* in a select with the context that has just ended.)
TimedRequestsSettle == \A g \in Requests : Waiting(g) ~> ~Waiting(g)
=============================================================================
