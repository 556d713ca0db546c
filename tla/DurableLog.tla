----------------------------- MODULE DurableLog -----------------------------
(***************************************************************************)
(* What the archive promises its callers, with the queue, the writer       *)
(* goroutine and the sqlite3 process hidden.                               *)
(*                                                                         *)
(* A record whose add returned nil is `pending`.  Pending records become   *)
(* durable in the order they were accepted, a run of them at a time, and   *)
(* are given up only by a crash of the process or by a close that follows  *)
(* a visible failure.                                                      *)
(***************************************************************************)
EXTENDS Naturals, Sequences

CONSTANT Records        \* what a caller may add

VARIABLES
    log,                \* durable records, in commit order
    pending,            \* accepted by this process, not durable yet
    failed,             \* the write failure every caller can see
    open                \* a process has the archive open

vars == <<log, pending, failed, open>>

TypeOK ==
    /\ log \in Seq(Records)
    /\ pending \in Seq(Records)
    /\ failed \in BOOLEAN
    /\ open \in BOOLEAN

Init ==
    /\ log = <<>>
    /\ pending = <<>>
    /\ failed = FALSE
    /\ open = TRUE

\* add returned nil.
Accept ==
    /\ open
    /\ \E r \in Records : pending' = Append(pending, r)
    /\ UNCHANGED <<log, failed, open>>

\* One transaction: a run of the oldest pending records, all or nothing.
Commit ==
    /\ open
    /\ ~failed
    /\ \E n \in 1..Len(pending) :
          /\ log' = log \o SubSeq(pending, 1, n)
          /\ pending' = SubSeq(pending, n + 1, Len(pending))
    /\ UNCHANGED <<failed, open>>

\* A failure is never taken back while the archive is open.
Fail ==
    /\ open
    /\ failed' = TRUE
    /\ UNCHANGED <<log, pending, open>>

\* A close that reports no failure leaves nothing behind.
Close ==
    /\ open
    /\ failed \/ pending = <<>>
    /\ pending' = <<>>
    /\ open' = FALSE
    /\ UNCHANGED <<log, failed>>

\* The process is killed; the records it had not committed are gone.
Crash ==
    /\ open
    /\ pending' = <<>>
    /\ failed' = FALSE
    /\ open' = FALSE
    /\ UNCHANGED log

Reopen ==
    /\ ~open
    /\ open' = TRUE
    /\ failed' = FALSE
    /\ UNCHANGED <<log, pending>>

Next == Accept \/ Commit \/ Fail \/ Close \/ Crash \/ Reopen

Safety == Init /\ [][Next]_vars

\* While the archive stays open, accepted records are committed or the
\* failure is raised.
Spec == Safety /\ WF_vars(Commit \/ (Fail /\ ~failed /\ pending # <<>>))
=============================================================================
