----------------------------- MODULE MCArchive ------------------------------
(* The instance of Archive that TLC checks. *)
EXTENDS Archive

CONSTANTS w, l, k1, k2, k3

Rec(k, s, c, n) == [key |-> k, source |-> s, cursor |-> c, size |-> n]

\* Sizes in units of 512 KiB.  A watch event, a bookmark with a lower version
\* (a take-over's late flush), two lines of a log stream, a session record
\* that fills a batch by itself, and a record add refuses.
MCRecords == {Rec(k1, w, 2, 1), Rec(None, w, 1, 1),
              Rec(k2, l, 1, 1), Rec(k3, l, 2, 1),
              Rec(k3, None, 1, 2), Rec(k3, None, 1, 5)}
=============================================================================
