----------------------------- MODULE Navigation --------------------------------
(***************************************************************************)
(* What is listed and selected on the dashboard (src/src/model.go): the    *)
(* tree of namespaces, the table of one kind of resources, and what keys   *)
(* and snapshots of the cluster do to them.  The handlers are operators    *)
(* from a state of the app to the next; Dashboard is the loop that runs    *)
(* them.  Selections count from 1.                                         *)
(*                                                                         *)
(* A record matches a search or not, and passes the filters of the events  *)
(* or not; of the pages and tabs that may cover the table only one is      *)
(* kept (they are in Viewers and Pager).  Scrolling is left out.           *)
(***************************************************************************)
EXTENDS Integers, Sequences, FiniteSets, SequencesExt

CONSTANTS
    Namespaces,   \* those a cluster may have, in alphabetical order
    Kinds         \* resourceTypes without the nodes, in order

Nil == "none"
All == ""         \* all namespaces

ASSUME NavigationAssumption ==
    /\ Namespaces \in Seq(STRING) /\ All \notin Range(Namespaces)
    /\ \A i, j \in DOMAIN Namespaces : Namespaces[i] = Namespaces[j] => i = j
    /\ Kinds \in Seq(STRING) /\ "" \notin Range(Kinds) /\ "pods" \in Range(Kinds)

\* treeRow; without a resource it is the row of the namespace.
Row(ns, kind) == [namespace |-> ns, resource |-> kind]

newApp ==
    [rows |-> [k \in Range(Kinds) \cup {"nodes"} |-> <<>>], namespaces |-> {},
     errors |-> {}, resource |-> "pods", namespace |-> All, query |-> "", filter |-> FALSE,
     expanded |-> {All}, treeSelected |-> 3, tableSelected |-> 1, treeFocus |-> TRUE,
     visible |-> <<>>, searching |-> FALSE, menu |-> FALSE, view |-> FALSE, shell |-> FALSE,
     loading |-> FALSE, paused |-> FALSE, switching |-> FALSE, panel |-> FALSE,
     wide |-> TRUE]

Clamp(n, most) == IF n < 1 \/ most = 0 THEN 1 ELSE IF n > most THEN most ELSE n

Branch(app, ns) ==
    <<Row(ns, "")>>
      \o (IF ns \in app.expanded THEN [i \in DOMAIN Kinds |-> Row(ns, Kinds[i])] ELSE <<>>)
\* The namespaces of the snapshot are sorted: they come as in Namespaces.
tree(app) ==
    <<Row(All, "nodes")>> \o Branch(app, All)
      \o FlattenSeq([i \in DOMAIN Namespaces |->
            IF Namespaces[i] \in app.namespaces THEN Branch(app, Namespaces[i]) ELSE <<>>])

selected(app) ==
    IF app.tableSelected \in DOMAIN app.visible THEN app.visible[app.tableSelected].id ELSE Nil

clampSelection(app) ==
    [app EXCEPT !.treeSelected  = Clamp(@, Len(tree(app))),
                !.tableSelected = Clamp(@, Len(app.visible))]

rebuild(app) ==
    LET Listed(r) ==
          /\ app.resource = "events" /\ app.filter => r.passes
          /\ app.namespace = All \/ r.namespace = app.namespace \/ app.resource = "nodes"
          /\ app.query = "" \/ r.matches
        all == app.rows[app.resource]
    IN clampSelection([app EXCEPT !.visible =
          FlattenSeq([i \in DOMAIN all |-> IF Listed(all[i]) THEN <<all[i]>> ELSE <<>>])])

Top(app) == [app EXCEPT !.tableSelected = 1]

(* A kind that could not be listed keeps its rows.                         *)
merge(app, value) ==
    LET rows  == [k \in DOMAIN app.rows |->
                    IF k \in value.errors THEN app.rows[k] ELSE value.rows[k]]
        named == IF "namespaces" \in value.errors THEN app.namespaces ELSE value.namespaces
        used  == {r.namespace : r \in UNION {Range(rows[k]) : k \in DOMAIN rows}} \ {All}
    IN [app EXCEPT !.rows = rows, !.errors = value.errors, !.loading = FALSE,
                   !.namespaces = (named \cup used) \cap Range(Namespaces)]

\* Mutated form: the table keeps the number of its row.
Follow_Number(app, id, row) == clampSelection(app)
(* The selected row and the selected branch stay selected while they exist. *)
Follow(app, id, row) ==
    LET i == SelectInSeq(app.visible, LAMBDA r : r.id = id)
        j == SelectInSeq(tree(app), LAMBDA t : t = row)
    IN clampSelection([app EXCEPT !.tableSelected = IF i > 0 THEN i ELSE @,
                                  !.treeSelected  = IF j > 0 THEN j ELSE @])

applySnapshot(app, value) ==
    Follow(rebuild(merge(app, value)), selected(app),
           IF app.treeSelected \in DOMAIN tree(app) THEN tree(app)[app.treeSelected]
                                                    ELSE Row(All, ""))

-----------------------------------------------------------------------------
(* Keys.                                                                   *)

chooseTree(app) ==
    LET row == tree(app)[Clamp(app.treeSelected, Len(tree(app)))] IN
    IF row.resource = ""
    THEN [app EXCEPT !.expanded = IF row.namespace \in @ THEN @ \ {row.namespace}
                                                         ELSE @ \cup {row.namespace}]
    ELSE rebuild([app EXCEPT !.namespace = row.namespace, !.resource = row.resource,
                             !.tableSelected = 1, !.treeFocus = FALSE])

move(app, delta) ==
    IF app.treeFocus
    THEN [app EXCEPT !.treeSelected = Clamp(@ + delta, Len(tree(app)))]
    ELSE [app EXCEPT !.tableSelected = Clamp(@ + delta, Len(app.visible))]

\* A dashboard that is resumed is refreshed.
pause(app) == [app EXCEPT !.paused = ~@, !.loading = @ \/ app.paused]

\* The keys and clicks of the table; those that act on a row are in Acts.
tableKeys(app) ==
    {move(app, -1), move(app, 1),
     [app EXCEPT !.treeFocus = ~@],                               \* Tab
     [app EXCEPT !.view = TRUE, !.treeFocus = FALSE],             \* Tab, F, a tab
     [app EXCEPT !.view = TRUE],                                  \* A, ?
     [app EXCEPT !.treeFocus = TRUE],                             \* Left
     [app EXCEPT !.searching = TRUE],                             \* /
     pause(app),                                                  \* Space
     rebuild([app EXCEPT !.namespace = All]),                     \* a
     rebuild(Top([app EXCEPT !.query = ""]))}                     \* Esc
      \cup (IF app.resource = "pods" THEN {[app EXCEPT !.panel = ~@]} ELSE {})    \* m
      \cup {[app EXCEPT !.tableSelected = i, !.treeFocus = FALSE] : i \in DOMAIN app.visible}
      \cup {chooseTree([app EXCEPT !.treeSelected = i, !.treeFocus = TRUE]) :
              i \in DOMAIN tree(app)}

\* 1-6, a type, X
filterKeys(app) ==
    IF app.resource # "events" THEN {}
    ELSE {rebuild(Top([app EXCEPT !.filter = TRUE])),
          rebuild(Top([app EXCEPT !.filter = FALSE, !.query = ""]))}

\* The search of a page is its own; Enter and Esc end either.
searchKeys(app) ==
    IF app.view THEN {app, [app EXCEPT !.searching = FALSE]}
    ELSE {rebuild(Top([app EXCEPT !.searching = typed.more, !.query = typed.text])) :
            typed \in [more : BOOLEAN, text : {"", "text"}]}

\* Leaving a page or its tab, and the search of one.
viewKeys(app) == {[app EXCEPT !.view = FALSE], [app EXCEPT !.searching = TRUE]}

(* An item of a menu is handled as its key, after the menu is closed:      *)
(* Sidebar, Search, Resources, Logs or Help, one of the filters.           *)
Item(app) ==
    {[app EXCEPT !.treeFocus = FALSE], [app EXCEPT !.searching = TRUE],
     [app EXCEPT !.view = FALSE], [app EXCEPT !.view = TRUE, !.treeFocus = FALSE]}
      \cup (IF app.view THEN {} ELSE filterKeys(app))
handleMenu(app) ==
    LET closed == [app EXCEPT !.menu = FALSE] IN {app, closed} \cup Item(closed)

\* handle and handleMouse: what a key that does not act on a row may lead to.
handle(app) ==
    IF app.shell \/ app.switching THEN {app}
    ELSE {[app EXCEPT !.menu = FALSE, !.searching = TRUE]}        \* Ctrl+F
           \cup (IF app.view THEN {[app EXCEPT !.view = FALSE, !.searching = FALSE]}
                 ELSE {})                                         \* Ctrl+C
           \cup (IF app.menu THEN handleMenu(app)
                 ELSE IF app.searching THEN searchKeys(app)
                 ELSE {[app EXCEPT !.menu = TRUE]}                \* line 1; T, K
                        \cup (IF app.view THEN viewKeys(app)
                              ELSE tableKeys(app) \cup filterKeys(app)))

\* Whether a key would act on the row or the branch that is selected.
Acts(app) ==
    ~(app.shell \/ app.switching \/ app.menu \/ app.searching \/ app.view)

\* That row or branch, as a tuple, and all there are.
Selection(app) ==
    IF app.view THEN <<>>
    ELSE IF app.treeFocus
    THEN LET row == tree(app)[app.treeSelected] IN <<row.namespace, row.resource>>
    ELSE <<selected(app)>>
Listed(app) ==
    {<<row.namespace, row.resource>> : row \in Range(tree(app))}
      \cup {<<r.id>> : r \in Range(app.visible)}

podPanelWidth(app) ==
    IF app.panel /\ app.resource = "pods" /\ ~app.view /\ app.wide THEN 34 ELSE 0
=============================================================================
