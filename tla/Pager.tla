--------------------------------- MODULE Pager ---------------------------------
(***************************************************************************)
(* Reading the archive while it is written (src/src/archive.go: archiveSQL *)
(* and readArchive; the archive view of model.go and main.go; --history in *)
(* main.go).  A query returns the newest PageSize records below an id.     *)
(* The view pages back and forth by that id and remembers the pages it     *)
(* came through; every page is a request of its own that may fail, and     *)
(* records are added all the time.  The export asks for page after page.   *)
(*                                                                         *)
(* A record is its id and its kind; namespace, subject and search terms    *)
(* are other filters of the same form.                                     *)
(***************************************************************************)
EXTENDS Integers, Sequences, SequencesExt

CONSTANTS
    RecordKinds,  \* kinds of records
    PageSize,     \* archivePageSize (500)
    MaxRecords    \* bound: records in the archive

ASSUME PagerAssumption == PageSize \in Nat \ {0} /\ MaxRecords \in Nat

All == "all"                      \* no filter

VARIABLES
    store,     \* id -> kind
    filter,    \* v.archiveFilter: its kind and Before
    pages,     \* v.pages: the Before of the pages on the way here
    entries,   \* v.entries: what is shown
    answer,    \* the request of the view and what it has read
    chosen,    \* v.selected
    export     \* the --history loop: its lines, and the Before it asks with

pagerVars == <<store, filter, pages, entries, answer, chosen, export>>

Ids   == DOMAIN store
Answer(at, rows) == [at |-> at, rows |-> rows]   \* "none", "asked" or "read"
Idle  == [kind |-> All, before |-> 0, rows |-> <<>>, at |-> "off"]

\* Mutated form: the bound is part of the page.
Below_Inclusive(id, before) == before > 0 => id <= before
Below(id, before) == before > 0 => id < before

\* WHERE, ORDER BY id DESC.
Matching(kind, before) == {id \in Ids : kind \in {All, store[id]} /\ Below(id, before)}
Descending(ids) ==
    LET down[n \in 0..Len(store)] ==
          IF n = 0 THEN <<>> ELSE (IF n \in ids THEN <<n>> ELSE <<>>) \o down[n - 1]
    IN down[Len(store)]

archiveSQL(kind, before) ==
    LET all == Descending(Matching(kind, before)) IN
    SubSeq(all, 1, IF Len(all) < PageSize THEN Len(all) ELSE PageSize)

-----------------------------------------------------------------------------
Write(kind) ==
    /\ Len(store) < MaxRecords
    /\ store' = Append(store, kind)
    /\ UNCHANGED <<filter, pages, entries, answer, chosen, export>>

\* "reload": startViewer empties the view and makes a request; it cancels and
\* joins the one before, whose answer counts no more.
Reload(kind, before, stack) ==
    /\ filter' = [kind |-> kind, before |-> before]
    /\ pages' = stack
    /\ entries' = <<>> /\ chosen' = 0
    /\ answer' = Answer("asked", <<>>)
    /\ UNCHANGED <<store, export>>

NextBound(bound) == entries[Len(entries)]

\* n
Older ==
    /\ Len(entries) = PageSize
    /\ Reload(filter.kind, NextBound(filter.before), Append(pages, filter.before))

\* N
Newer ==
    /\ pages # <<>>
    /\ Reload(filter.kind, Last(pages), Front(pages))

\* K, and a search that is applied or cleared.
Refilter(kind) == Reload(kind, 0, <<>>)
\* r
Newest == Reload(filter.kind, 0, <<>>)

\* j, k, g, G, Page keys, a click.
Choose(i) ==
    /\ i \in 0..Len(entries) - 1
    /\ chosen' = i
    /\ UNCHANGED <<store, filter, pages, entries, answer, export>>

(* The worker runs sqlite3 -readonly at some time after the request.       *)
readArchive ==
    /\ answer.at = "asked"
    /\ \E rows \in {archiveSQL(filter.kind, filter.before), <<>>} :  \* <<>> on an error
          answer' = Answer("read", rows)
    /\ UNCHANGED <<store, filter, pages, entries, chosen, export>>

(* Its result reaches the view.                                            *)
Show ==
    /\ answer.at = "read"
    /\ entries' = answer.rows
    /\ chosen' = 0
    /\ answer' = Answer("none", <<>>)
    /\ UNCHANGED <<store, filter, pages, export>>

(* kiwikube --history: a page, of which every line moves the bound.        *)
ExportStart(kind) ==
    /\ export.at = "off"
    /\ export' = [Idle EXCEPT !.at = "pages", !.kind = kind]
    /\ UNCHANGED <<store, filter, pages, entries, answer, chosen>>

ExportPage ==
    /\ export.at = "pages"
    /\ LET rows == archiveSQL(export.kind, export.before) IN
           export' = [export EXCEPT
                        !.rows   = @ \o rows,
                        !.before = IF rows = <<>> THEN @ ELSE Last(rows),
                        !.at     = IF Len(rows) < PageSize THEN "ended" ELSE @]
    /\ UNCHANGED <<store, filter, pages, entries, answer, chosen>>

PagerInit ==
    /\ store = <<>>
    /\ filter = [kind |-> All, before |-> 0]
    /\ pages = <<>> /\ entries = <<>> /\ chosen = 0
    /\ answer = Answer("asked", <<>>)
    /\ export = Idle

PagerNext ==
    \/ \E kind \in RecordKinds : Write(kind)
    \/ \E kind \in RecordKinds \cup {All} : Refilter(kind) \/ ExportStart(kind)
    \/ \E i \in 0..PageSize - 1 : Choose(i)
    \/ Older \/ Newer \/ Newest \/ readArchive \/ Show \/ ExportPage

PagerSpec == PagerInit /\ [][PagerNext]_pagerVars

-----------------------------------------------------------------------------
\* The bounds of the pages on the way to the one shown, and its own.
Trail == Append(pages, filter.before)
Kept(id) == filter.kind \in {All, store[id]}

\* Paging skips nothing and repeats nothing: each page ends where the next one
\* begins, so that every record of the filter between the first bound and the
\* last one is on exactly one page; what is shown is what lies below the bound
\* of the page, from its top, without a gap.
PagesAdjoin ==
    /\ \A i \in 2..Len(pages) :
          LET rows == archiveSQL(filter.kind, Trail[i]) IN Last(rows) = Trail[i + 1]
    /\ entries # <<>> =>
          /\ \A id \in Ids : Kept(id) /\ Last(entries) <= id /\ id <= entries[1]
                                => id \in Range(entries)
          /\ \A id \in Range(entries) : Kept(id)
          /\ filter.before > 0 => \A id \in Ids : Kept(id) /\ entries[1] < id
                                                    => id >= filter.before
    /\ chosen < Len(entries) \/ chosen = 0

\* The export is complete: it prints newest first, without a gap or a repeat,
\* and when it ends no record it was asked for is older than its last line.
ExportComplete ==
    LET rows == export.rows
        Asked(id) == export.kind \in {All, store[id]}
    IN /\ \A i, j \in DOMAIN rows : i < j => rows[i] > rows[j]
       /\ \A id \in Ids : Asked(id) /\ rows # <<>> /\ id <= rows[1] /\ id >= Last(rows)
             => id \in Range(rows)
       /\ export.at = "ended" /\ rows # <<>> =>
             \A id \in Ids : Asked(id) => id >= Last(rows)

\* Both ways to read the archive page by page, while it is written: in the
\* dashboard and as an export.
PagesComplete == PagesAdjoin /\ ExportComplete
=============================================================================
