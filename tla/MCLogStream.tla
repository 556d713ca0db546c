---------------------------- MODULE MCLogStream -----------------------------
(* Instances of LogStream for TLC. *)
EXTENDS LogStream

L(stamp, text) == [stamp |-> stamp, text |-> text]

\* Two stamps make a second.  Equal neighbours, a line further away than the
\* overlap, and a clock that steps back by the whole overlap.
First == <<L(1, "x"), L(1, "x"), L(4, "y"), L(2, "x")>>
After == <<L(7, "x")>>

TwoRuns == {(0 :> First @@ 1 :> After)}
OneRun  == {(0 :> First)}
=============================================================================
