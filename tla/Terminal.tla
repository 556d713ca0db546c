------------------------------ MODULE Terminal ------------------------------
(***************************************************************************)
(* The shell in a modal (src/src/interactive_terminal.go, and its use in   *)
(* main.go and model.go): a child on a PTY, a goroutine that reads what it *)
(* prints, a goroutine that writes what the user types, and the main       *)
(* goroutine, which queues input and receives events.  The main goroutine  *)
(* also answers the child: the screen emulator may reply to what it is     *)
(* given, and the reply is queued like a key.                              *)
(*                                                                         *)
(* Input is a sequence of numbered chunks with a size, output a sequence   *)
(* of numbered reads.  The kernel's PTY and the child are the environment. *)
(***************************************************************************)
EXTENDS Integers, Sequences, FiniteSets, SequencesExt

CONSTANTS
    Sizes,      \* sizes of a chunk of input
    Limit,      \* bytes accepted and not written ((2<<20)+32)
    WriteCap,   \* capacity of t.writes (256)
    EventCap,   \* capacity of t.events (32)
    TtyCap,     \* chunks, and reads, the kernel keeps in each direction
    MaxKeys,    \* bound: chunks the user types
    MaxPrints   \* bound: reads' worth of output

ASSUME TerminalAssumption ==
    /\ Sizes \subseteq Nat \ {0}
    /\ {Limit, WriteCap, EventCap, TtyCap} \subseteq Nat \ {0}
    /\ {MaxKeys, MaxPrints} \subseteq Nat

VARIABLES
    main,       \* "loop", "send" or "closed", and the chunk in send
    queued,     \* t.queued
    writes,     \* t.writes
    events,     \* t.events
    reader,     \* the reading goroutine
    writer,     \* the writing goroutine
    child,      \* "running", "exited" or "reaped"
    tty,        \* somebody has the slave side open
    typed,      \* chunks on their way to the child
    printed,    \* output on its way to the reader
    keys,       \* chunks offered to send by the user
    accepted,   \* chunks send has taken, keys and replies
    delivered,  \* history: the chunks written to the PTY
    prints,     \* reads' worth of output the child has printed
    shown,      \* of them, the ones the screen was given
    outcome     \* what shellEnded was called with

queues == <<queued, writes>>
pty    == <<child, tty, typed, printed, prints>>
vars   == <<main, queues, events, reader, writer, pty, keys, accepted,
            delivered, shown, outcome>>

Loop   == [at |-> "loop", size |-> 0, reply |-> FALSE, fits |-> FALSE]
Closed == main.at = "closed"
Idle   == [at |-> "select", n |-> 0, size |-> 0]

Chunks == [n : Nat \ {0}, size : Sizes]
Data   == [what : {"data"}, asks : BOOLEAN]
Ends   == [what : {"exit", "input"}, asks : {FALSE}]

TypeOK ==
    /\ main \in [at : {"loop", "send", "closed"}, size : Sizes \cup {0},
                 reply : BOOLEAN, fits : BOOLEAN]
    /\ queued \in Nat
    /\ writes \in Seq(Chunks) /\ Len(writes) <= WriteCap
    /\ events \in Seq(Data \cup Ends) /\ Len(events) <= EventCap
    /\ reader \in [at : {"read", "send", "leave", "wait", "end", "gone"}, asks : BOOLEAN]
    /\ writer \in [at : {"select", "write", "wrote", "failed", "fail", "gone"},
                   n : Nat, size : Sizes \cup {0}]
    /\ child \in {"running", "exited", "reaped"}
    /\ tty \in BOOLEAN
    /\ typed \in 0..TtyCap
    /\ printed \in Seq(BOOLEAN) /\ Len(printed) <= TtyCap
    /\ keys \in 0..MaxKeys /\ accepted \in Nat
    /\ delivered \in Seq(Nat)
    /\ prints \in 0..MaxPrints /\ shown \in 0..MaxPrints
    /\ outcome \in {"none", "user", "exit", "input", "refused"}

-----------------------------------------------------------------------------
(* The child and the kernel.                                               *)

others == <<main, queues, events, reader, writer, keys, accepted, delivered,
            shown, outcome>>

ChildReads ==
    /\ child = "running" /\ tty
    /\ typed > 0
    /\ typed' = typed - 1
    /\ UNCHANGED <<others, child, tty, printed, prints>>

\* The output may hold a query the screen emulator replies to.
ChildPrints ==
    /\ tty
    /\ prints < MaxPrints
    /\ Len(printed) < TtyCap
    /\ \E asks \in BOOLEAN : printed' = Append(printed, asks)
    /\ prints' = prints + 1
    /\ UNCHANGED <<others, child, tty, typed>>

\* By itself, or killed by close.
ChildExits ==
    /\ child = "running"
    /\ child' = "exited"
    /\ UNCHANGED <<others, tty, typed, printed, prints>>

\* The last process with the slave side closes it: the child, or one that
\* outlives it.
HangUp ==
    /\ tty
    /\ tty' = FALSE
    /\ UNCHANGED <<others, child, typed, printed, prints>>

-----------------------------------------------------------------------------
(* The main goroutine.                                                     *)

rest == <<writes, reader, writer, pty, delivered>>

\* closeShell: closes t.closed and the PTY and kills the child.
Close(why) ==
    /\ main' = [Loop EXCEPT !.at = "closed"]
    /\ outcome' = why

\* send counts its bytes first; the sum decides.
Offer(size, reply) ==
    /\ queued' = queued + size
    /\ main' = [at |-> "send", size |-> size, reply |-> reply,
                fits |-> queued' <= Limit]
    /\ UNCHANGED outcome

Key ==
    /\ main = Loop
    /\ keys < MaxKeys
    /\ keys' = keys + 1
    /\ \E size \in Sizes : Offer(size, FALSE)
    /\ UNCHANGED <<rest, events, accepted, shown>>

\* case event := <-a.shellEvents().
Receive ==
    /\ main = Loop
    /\ events # <<>>
    /\ events' = Tail(events)
    /\ IF Head(events).what = "data"
       THEN /\ shown' = shown + 1
            /\ IF Head(events).asks THEN \E size \in Sizes : Offer(size, TRUE)
               ELSE UNCHANGED <<main, queued, outcome>>
       ELSE Close(Head(events).what) /\ UNCHANGED <<queued, shown>>
    /\ UNCHANGED <<rest, keys, accepted>>

Accept ==
    /\ main.at = "send"
    /\ main.fits
    /\ Len(writes) < WriteCap
    /\ accepted' = accepted + 1
    /\ writes' = Append(writes, [n |-> accepted', size |-> main.size])
    /\ main' = Loop
    /\ UNCHANGED <<queued, events, reader, writer, pty, delivered, keys, shown, outcome>>

\* Mutated forms: the count is not taken back; the loss is not reported;
\* send waits for room.
Refuse_Leaks ==
    /\ main.at = "send"
    /\ ~main.fits \/ Len(writes) >= WriteCap
    /\ IF main.reply THEN Close("refused") ELSE main' = Loop /\ UNCHANGED outcome
    /\ UNCHANGED <<rest, queued, events, keys, accepted, shown>>
Refuse_Silently ==
    /\ main.at = "send"
    /\ ~main.fits \/ Len(writes) >= WriteCap
    /\ queued' = queued - main.size
    /\ accepted' = accepted + 1
    /\ main' = Loop
    /\ UNCHANGED <<rest, events, keys, shown, outcome>>
Refuse_Waits ==
    /\ main.at = "send" /\ ~main.fits
    /\ queued' = queued - main.size
    /\ main' = Loop
    /\ UNCHANGED <<rest, events, keys, accepted, shown, outcome>>

\* "terminal input queue full": a key is lost with a message, a reply ends
\* the shell.
Refuse ==
    /\ main.at = "send"
    /\ ~main.fits \/ Len(writes) >= WriteCap
    /\ queued' = queued - main.size
    /\ IF main.reply THEN Close("refused") ELSE main' = Loop /\ UNCHANGED outcome
    /\ UNCHANGED <<rest, events, keys, accepted, shown>>

\* Ctrl+], the modal's labels, or the end of the session.
UserCloses ==
    /\ main = Loop
    /\ Close("user")
    /\ UNCHANGED <<rest, queued, events, keys, accepted, shown>>

-----------------------------------------------------------------------------
(* The reading goroutine.                                                  *)

stays == <<main, queues, writer, tty, typed, prints, keys, accepted, delivered,
           shown, outcome>>
Reader(where) == reader' = [at |-> where, asks |-> FALSE]
Post(what, asks) ==
    /\ Len(events) < EventCap
    /\ events' = Append(events, [what |-> what, asks |-> asks])

Read ==
    /\ reader.at = "read"
    /\ printed # <<>>
    /\ reader' = [at |-> "send", asks |-> Head(printed)]
    /\ printed' = Tail(printed)
    /\ UNCHANGED <<stays, events, child>>

ReadSends ==
    /\ reader.at = "send"
    /\ Post("data", reader.asks)
    /\ Reader("read")
    /\ UNCHANGED <<stays, child, printed>>

\* Mutated form: the send does not watch t.closed.
ReadLeaves_Never == reader.at = "none" /\ Reader("leave") /\ UNCHANGED <<stays, events, child, printed>>
ReadLeaves ==
    /\ reader.at = "send"
    /\ Closed
    /\ Reader("leave")
    /\ UNCHANGED <<stays, events, child, printed>>

\* Mutated form: the end of the child ends the reading.
ReadFails_AtExit ==
    /\ reader.at = "read"
    /\ Closed \/ child = "exited"
    /\ Reader("wait")
    /\ UNCHANGED <<stays, events, child, printed>>

\* EIO: the PTY is closed, or its other side is and everything was read.
ReadFails ==
    /\ reader.at = "read"
    /\ Closed \/ (~tty /\ printed = <<>>)
    /\ Reader("wait")
    /\ UNCHANGED <<stays, events, child, printed>>

\* cmd.Wait, in either place.
Wait ==
    /\ reader.at \in {"leave", "wait"}
    /\ child = "exited"
    /\ child' = "reaped"
    /\ Reader(IF reader.at = "wait" THEN "end" ELSE "gone")
    /\ UNCHANGED <<stays, events, printed>>

\* Mutated form: a full channel loses the last event.
ReadEnds_Drops ==
    /\ reader.at = "end"
    /\ IF Len(events) < EventCap THEN Post("exit", FALSE) ELSE UNCHANGED events
    /\ Reader("gone")
    /\ UNCHANGED <<stays, child, printed>>
ReadEnds ==
    /\ reader.at = "end"
    /\ Post("exit", FALSE) \/ (Closed /\ UNCHANGED events)
    /\ Reader("gone")
    /\ UNCHANGED <<stays, child, printed>>

-----------------------------------------------------------------------------
(* The writing goroutine.                                                  *)

keeps == <<main, reader, child, tty, printed, prints, keys, accepted, shown, outcome>>

Take ==
    /\ writer.at = "select"
    /\ writes # <<>>
    /\ writer' = [at |-> "write", n |-> Head(writes).n, size |-> Head(writes).size]
    /\ writes' = Tail(writes)
    /\ UNCHANGED <<keeps, queued, events, typed, delivered>>

Write ==
    /\ writer.at = "write"
    /\ tty /\ ~Closed
    /\ typed < TtyCap
    /\ typed' = typed + 1
    /\ delivered' = Append(delivered, writer.n)
    /\ writer' = [writer EXCEPT !.at = "wrote"]
    /\ UNCHANGED <<keeps, queues, events>>

\* EIO: nobody has the other side, or the PTY is closed.
WriteFails ==
    /\ writer.at = "write"
    /\ ~tty \/ Closed
    /\ writer' = [writer EXCEPT !.at = "failed"]
    /\ UNCHANGED <<keeps, queues, events, typed, delivered>>

Wrote ==
    /\ writer.at \in {"wrote", "failed"}
    /\ queued' = queued - writer.size
    /\ writer' = IF writer.at = "wrote" THEN Idle ELSE [Idle EXCEPT !.at = "fail"]
    /\ UNCHANGED <<keeps, writes, events, typed, delivered>>

WriterEnds ==
    /\ \/ writer.at = "fail" /\ Post("input", FALSE)
       \/ writer.at \in {"fail", "select"} /\ Closed /\ UNCHANGED events
    /\ writer' = [Idle EXCEPT !.at = "gone"]
    /\ UNCHANGED <<keeps, queues, typed, delivered>>

-----------------------------------------------------------------------------
Init ==
    /\ main = Loop
    /\ queued = 0 /\ writes = <<>> /\ events = <<>>
    /\ reader = [at |-> "read", asks |-> FALSE]
    /\ writer = Idle
    /\ child = "running" /\ tty = TRUE
    /\ typed = 0 /\ printed = <<>>
    /\ keys = 0 /\ accepted = 0 /\ delivered = <<>>
    /\ prints = 0 /\ shown = 0
    /\ outcome = "none"

Environment == ChildReads \/ ChildPrints \/ ChildExits \/ HangUp
Session == Key \/ Receive \/ Accept \/ Refuse \/ UserCloses
Reading == Read \/ ReadSends \/ ReadLeaves \/ ReadFails \/ Wait \/ ReadEnds
Writing == Take \/ Write \/ WriteFails \/ Wrote \/ WriterEnds

Next == Environment \/ Session \/ Reading \/ Writing

(* The goroutines run; a killed child ends.  A child that is not killed    *)
(* may run for ever, print nothing and read nothing.                       *)
Fairness ==
    /\ WF_vars(Receive) /\ WF_vars(Accept \/ Refuse)
    /\ WF_vars(Reading) /\ WF_vars(Writing)
    /\ WF_vars(Closed /\ ChildExits)

Spec == Init /\ [][Next]_vars /\ Fairness

-----------------------------------------------------------------------------
(* Properties.                                                             *)

SumSizes(s) ==
    LET first[n \in 0..Len(s)] == IF n = 0 THEN 0 ELSE first[n - 1] + s[n].size
    IN first[Len(s)]

\* t.queued, which three places change, is what the limit is about: the bytes
\* in the channel, in the writer's hands and in a send that has not decided;
\* and the limit holds whenever none has.
QueuedIsWaiting ==
    /\ main.at # "send" => queued <= Limit
    /\ queued = SumSizes(writes)
                + (IF writer.at \in {"write", "wrote", "failed"} THEN writer.size ELSE 0)
                + (IF main.at = "send" THEN main.size ELSE 0)

\* What send took reaches the PTY in order and without a hole: input is
\* refused with an error, never lost or reordered on the way.
InputInOrder == \A i \in DOMAIN delivered : delivered[i] = i

\* A shell that is closed because its child ended has shown all it printed.
OutputBeforeEnd == outcome = "exit" => shown = prints

\* A closed shell leaves nothing behind: both goroutines return, whatever
\* they were blocked in, and the child is reaped.
ClosedIsGone ==
    Closed ~> reader.at = "gone" /\ writer.at = "gone" /\ child = "reaped"

\* The end of the shell reaches the user, whatever waits on the channels.
ExitReported == (child # "running" /\ ~tty) ~> Closed

\* The output goes on: the main goroutine never waits for a child that waits
\* for it, with all queues of both directions full.
OutputShown == \A n \in 1..MaxPrints : prints >= n ~> (shown >= n \/ Closed)
=============================================================================
