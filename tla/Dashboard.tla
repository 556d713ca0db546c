------------------------------ MODULE Dashboard --------------------------------
(***************************************************************************)
(* The loop of the dashboard (src/src/main.go: runSession; ui.go: draw).   *)
(* One refresh at a time lists the cluster; requests for the metrics of    *)
(* the selected pod answer in any order, and late; the frame is drawn as   *)
(* the lines that differ from the previous one, over whatever menus,       *)
(* shells, children and resizes have left on the terminal.                 *)
(*                                                                         *)
(* A generation is known by whether it still is the newest one.  A frame   *)
(* has two lines, the header and the rest.                                 *)
(***************************************************************************)
EXTENDS Navigation

CONSTANTS
    Clusters,   \* what the API server may have: rows by kind, and namespaces
    Failures    \* the sets of lists that may fail at a time

\* The rows that any of the clusters has.
Records == UNION {UNION {Range(c.rows[k]) : k \in DOMAIN c.rows} : c \in Clusters}

ASSUME DashboardAssumption ==
    \A c \in Clusters : c.rows \in [Range(Kinds) \cup {"nodes"} -> Seq(Records)]

VARIABLES
    app,        \* the dashboard
    results,    \* of the refresh, at most one
    pod,        \* podTarget, podBusy, a.podMetrics
    requests,   \* for metrics, not answered
    podResults, \* at most one
    screen,     \* what is on the terminal
    previous,   \* a.previousFrame, <<>> if nil
    dirty,      \* to be drawn on the next tick
    resized,    \* a SIGWINCH is pending
    stands      \* what is shown as selected was in every snapshot since it was drawn

vars == <<app, results, pod, requests, podResults, screen, previous, dirty, resized, stands>>

Other == <<>>    \* what is no line of a frame

-----------------------------------------------------------------------------
(* Drawing.                                                                *)

frame(a, p) ==
    [top  |-> <<IF a.paused THEN "PAUSED" ELSE IF a.loading THEN "SYNCING" ELSE "LIVE",
                a.errors>>,
     body |-> IF a.switching THEN <<"switching">>
              ELSE <<Selection(a), IF a.view THEN <<>> ELSE a.visible, a.searching,
                     IF podPanelWidth(a) > 0 THEN <<selected(a), p.metrics>> ELSE <<>> >>]

drawFrame(f, before) ==
    [l \in DOMAIN f |-> IF before # <<>> /\ before[1][l] = f[l] THEN screen[l] ELSE f[l]]

Covered(s) == [s EXCEPT !.body = Other]

MenuShown(a) == a.menu /\ ~a.searching /\ ~a.switching

\* Mutated form: a menu does not invalidate the frame it covers.
AfterMenu_Kept(f) == <<f>>
AfterMenu(f) == <<>>

\* An open shell covers a dashboard that is not drawn again.
draw(a, p, before) ==
    LET f == frame(a, p) IN
    IF a.shell
    THEN /\ screen' = Covered(IF before = <<>> THEN drawFrame(f, before) ELSE screen)
         /\ previous' = IF before = <<>> THEN <<f>> ELSE before
    ELSE /\ screen' = IF MenuShown(a) THEN Covered(drawFrame(f, before))
                                      ELSE drawFrame(f, before)
         /\ previous' = IF MenuShown(a) THEN AfterMenu(f) ELSE <<f>>

-----------------------------------------------------------------------------
(* The metrics of the selected pod.                                        *)

Outdated(r) == [r EXCEPT !.current = FALSE]

\* Mutated form: what the previous pod had is shown until the next answer.
Retarget_Kept(target) == [pod EXCEPT !.target = target, !.busy = FALSE]
Retarget(target) == [target |-> target, busy |-> FALSE, metrics |-> Nil]

\* A request of the same target waits until RefreshSeconds have passed.
updatePodMetrics(a) ==
    LET target == IF podPanelWidth(a) > 0 THEN selected(a) ELSE Nil
        moved  == target # pod.target
        now    == IF moved THEN Retarget(target) ELSE pod
        older  == IF moved THEN {Outdated(r) : r \in requests} ELSE requests
    IN /\ podResults' = IF moved THEN [i \in DOMAIN podResults |-> Outdated(podResults[i])]
                        ELSE podResults
       /\ \/ /\ target # Nil /\ ~now.busy
             /\ pod' = [now EXCEPT !.busy = TRUE]
             /\ requests' = older \cup {[pod |-> target, current |-> TRUE]}
          \/ /\ target = Nil \/ now.busy \/ ~moved
             /\ pod' = now /\ requests' = older

PodAnswers(r) ==
    /\ r \in requests /\ podResults = <<>>
    /\ requests' = requests \ {r}
    /\ \E found \in {r.pod, Nil} :
         podResults' = <<[metrics |-> found, current |-> r.current]>>
    /\ UNCHANGED <<app, results, pod, screen, previous, dirty, resized, stands>>

ShowMetrics ==
    /\ podResults # <<>>
    /\ podResults' = <<>>
    /\ LET r == Head(podResults) IN
       IF r.current THEN /\ pod' = [pod EXCEPT !.busy = FALSE, !.metrics = r.metrics]
                         /\ dirty' = TRUE
                    ELSE UNCHANGED <<pod, dirty>>
    /\ UNCHANGED <<app, results, requests, screen, previous, resized, stands>>

-----------------------------------------------------------------------------
(* Refreshing.                                                             *)

refresh(a) == [a EXCEPT !.loading = TRUE]

\* Every list by itself succeeds, fails, or is left out at the deadline.
loadCluster(cluster, failing) ==
    [rows |-> [k \in DOMAIN cluster.rows |->
                 IF k \in failing THEN <<>> ELSE cluster.rows[k]],
     namespaces |-> IF "namespaces" \in failing THEN {} ELSE cluster.namespaces,
     errors |-> failing]

ClusterAnswers ==
    /\ app.loading /\ results = <<>>
    /\ \E cluster \in Clusters, failing \in Failures :
         results' = <<loadCluster(cluster, failing)>>
    /\ UNCHANGED <<app, pod, requests, podResults, screen, previous, dirty, resized, stands>>

ApplySnapshot ==
    /\ results # <<>>
    /\ app' = [applySnapshot(app, Head(results)) EXCEPT !.switching = FALSE]
    /\ results' = <<>>
    /\ dirty' = TRUE
    /\ stands' = (stands /\ Selection(app) \in Listed(app'))
    /\ UNCHANGED <<pod, requests, podResults, screen, previous, resized>>

\* The ticker; on a paused dashboard it does nothing but look after the
\* collector (which is in Session).
Tick ==
    /\ ~app.paused
    /\ app' = refresh(app)
    /\ dirty' = TRUE
    /\ UNCHANGED <<results, pod, requests, podResults, screen, previous, resized, stands>>

-----------------------------------------------------------------------------
(* The user and the terminal.  A key is handled, and then drawn.           *)

Pressed(a, before) ==
    /\ app' = a
    /\ updatePodMetrics(a)
    /\ draw(a, pod', before)
    /\ dirty' = FALSE /\ stands' = TRUE
    /\ UNCHANGED <<results, resized>>

Key == \E a \in handle(app) \cup {refresh(app)} : Pressed(a, previous)

\* Enter on a branch; a page about a row, or a shell on it.
Act ==
    /\ Acts(app)
    /\ IF app.treeFocus THEN Pressed(chooseTree(app), previous)
       ELSE /\ selected(app) # Nil
            /\ \/ Pressed([app EXCEPT !.view = TRUE], previous)
               \/ Pressed([app EXCEPT !.shell = TRUE], previous)

\* An edit or ssh has the terminal, and the app waits for it.
RunChild ==
    /\ Acts(app) /\ ~app.treeFocus /\ selected(app) # Nil
    /\ \/ Pressed(app, <<>>)
       \/ Pressed(refresh(app), <<>>)

\* closeShell, on a key or when the shell has ended.
CloseShell ==
    /\ app.shell
    /\ \/ Pressed([app EXCEPT !.shell = FALSE], <<>>)
       \/ /\ app' = [app EXCEPT !.shell = FALSE]
          /\ previous' = <<>> /\ dirty' = TRUE
          /\ UNCHANGED <<results, pod, requests, podResults, screen, resized, stands>>

Paint ==
    /\ updatePodMetrics(app)
    /\ IF dirty THEN draw(app, pod', previous) /\ stands' = TRUE
                ELSE UNCHANGED <<screen, previous, stands>>
    /\ dirty' = FALSE
    /\ UNCHANGED <<app, results, resized>>

\* The user resizes the terminal, and the app gets the signal.
Resize ==
    /\ screen' = [top |-> Other, body |-> Other] /\ resized' = TRUE
    /\ UNCHANGED <<app, results, pod, requests, podResults, previous, dirty, stands>>
Resized ==
    /\ resized
    /\ resized' = FALSE /\ previous' = <<>> /\ dirty' = TRUE
    /\ \E w \in BOOLEAN : app' = [app EXCEPT !.wide = w]
    /\ UNCHANGED <<results, pod, requests, podResults, screen, stands>>

-----------------------------------------------------------------------------
\* The frame is drawn before the loop, which starts with a refresh.
Init ==
    /\ \E s \in BOOLEAN :
         LET a == [newApp EXCEPT !.switching = s]
             p == [target |-> Nil, busy |-> FALSE, metrics |-> Nil]
         IN app = refresh(a) /\ pod = p /\ screen = frame(a, p) /\ previous = <<frame(a, p)>>
    /\ results = <<>> /\ requests = {} /\ podResults = <<>>
    /\ dirty = TRUE /\ resized = FALSE /\ stands = TRUE

Next ==
    \/ ClusterAnswers \/ ApplySnapshot \/ Tick
    \/ \E r \in requests : PodAnswers(r)
    \/ ShowMetrics
    \/ Key \/ Act \/ RunChild \/ CloseShell
    \/ Paint \/ Resize \/ Resized

Spec == Init /\ [][Next]_vars

-----------------------------------------------------------------------------
(* Properties.                                                             *)

Drawn == ~resized /\ screen.body # Other

\* At every moment a key acts on the row, or the branch of the tree, that the
\* screen shows as selected, also when snapshots that moved, added or removed
\* rows have not been drawn yet; unless what the screen shows has gone.
ActsOnShown ==
    Drawn /\ Acts(app) /\ stands /\ screen.body # <<"switching">> =>
        Selection(app) = screen.body[1]

\* The panel never shows the metrics of another pod than the one it names,
\* whatever the order in which requests for several pods are answered.
MetricsOfSelected ==
    Drawn /\ screen.body # <<"switching">> =>
        LET panel == screen.body[4] IN panel # <<>> => panel[2] \in {Nil, panel[1]}

\* When nothing is left to be drawn the screen is the frame, although only lines
\* that differ from the previous frame are written, and menus, shells, children
\* and resizes have written over it.
ScreenIsFrame ==
    ~dirty /\ ~resized /\ ~app.shell =>
        screen = IF MenuShown(app) THEN Covered(frame(app, pod)) ELSE frame(app, pod)
=============================================================================
