---------------------------- MODULE TerminalProofs ----------------------------
(***************************************************************************)
(* Input and output of a shell, for any sizes, limits and capacities.      *)
(* Input: as long as the writer goes on, the chunks delivered, the one it  *)
(* holds and those on t.writes are consecutive up to the last one send has *)
(* accepted.  Output: what the screen was given, the reads on t.events,    *)
(* the one the reader holds and those in the kernel add up to what was     *)
(* printed, and the end of the child is behind all of them.                *)
(***************************************************************************)
EXTENDS Terminal, NaturalsInduction, WellFoundedInduction, TLAPS

-----------------------------------------------------------------------------
Mains   == [at : {"loop", "send", "closed"}, size : Sizes \cup {0},
            reply : BOOLEAN, fits : BOOLEAN]
Readers == [at : {"read", "send", "leave", "wait", "end", "gone"}, asks : BOOLEAN]
Writers == [at : {"select", "write", "wrote", "failed", "fail", "gone"},
            n : Nat, size : Sizes \cup {0}]
Events  == Data \cup Ends
Queued  == [n : Nat, size : Sizes \cup {0}]

Types ==
    /\ main \in Mains /\ reader \in Readers /\ writer \in Writers
    /\ queued \in Int /\ accepted \in Nat /\ prints \in Nat /\ shown \in Nat
    /\ writes \in Seq(Queued)
    /\ events \in Seq(Events)
    /\ delivered \in Seq(Nat)
    /\ printed \in Seq(BOOLEAN)
    /\ tty \in BOOLEAN

\* The writer has not failed, and has a chunk in its hands.
Going == writer.at \in {"select", "write", "wrote"}
Held  == IF writer.at = "write" THEN 1 ELSE 0

Input ==
    /\ InputInOrder
    /\ writer.at = "write" => writer.n = Len(delivered) + 1
    /\ Going => /\ accepted = Len(delivered) + Held + Len(writes)
                /\ \A i \in 1..Len(writes) : writes[i].n = Len(delivered) + Held + i

\* f[i] is what the screen will have been given after i more events.
InHand == IF reader.at = "send" THEN 1 ELSE 0
Reads(e) == IF e.what = "data" THEN 1 ELSE 0
Counts(f, ev, sh, pr) ==
    /\ f[0] = sh
    /\ \A i \in 1..Len(ev) : /\ f[i] = f[i - 1] + Reads(ev[i])
                             /\ ev[i].what = "exit" => f[i] = pr
Shows(f) ==
    /\ Counts(f, events, shown, prints)
    /\ f[Len(events)] + InHand + Len(printed) = prints

Drained ==
    /\ reader.at # "leave"
    /\ reader.at \in {"wait", "end"} => ~tty /\ printed = <<>>
    /\ (\E i \in 1..Len(events) : events[i].what = "exit") => ~tty
    /\ \E f \in [0..Len(events) -> Nat] : Shows(f)

Output ==
    /\ outcome = "exit" => Closed /\ ~tty /\ shown = prints
    /\ ~Closed => Drained

IInv == Types /\ Input /\ Output

-----------------------------------------------------------------------------
(* Types.                                                                  *)

LEMMA Constants == \A size \in Sizes \cup {0} : size \in Nat
BY TerminalAssumption

LEMMA InitTypes == Init => Types
BY DEF Init, Types, Mains, Readers, Writers, Loop, Idle

LEMMA TypesKept == Types /\ [Next]_vars => Types'
<1> SUFFICES ASSUME Types, [Next]_vars PROVE Types'
  OBVIOUS
<1> USE DEF Types
<1>1. CASE ChildReads \/ ChildExits \/ HangUp
  BY <1>1 DEF ChildReads, ChildExits, HangUp, others, queues
<1>2. CASE ChildPrints
  BY <1>2 DEF ChildPrints, others, queues
<1>3. ASSUME NEW size \in Sizes, NEW reply \in BOOLEAN, Offer(size, reply)
      PROVE  queued' \in Int /\ main' \in Mains
  <2>1. queued' \in Int
    BY <1>3, Constants DEF Offer
  <2>2. (queued' <= Limit) \in BOOLEAN
    OBVIOUS
  <2> QED
    BY <1>3, <2>1, <2>2 DEF Offer, Mains
<1>4. Loop \in Mains /\ \A why : Close(why) => main' \in Mains
  BY DEF Close, Loop, Mains
<1>5. CASE Key
  BY <1>3, <1>5 DEF Key, rest, pty
<1>6. CASE Receive
  <2>1. events' \in Seq(Events) /\ shown' \in Nat /\ queued' \in Int /\ main' \in Mains
    <3> HIDE DEF Types
    <3>1. events \in Seq(Events) /\ events # <<>> /\ events' = Tail(events)
          /\ shown \in Nat /\ main \in Mains /\ queued \in Int
      BY <1>6 DEF Receive, Types
    <3>2. events' \in Seq(Events)
      BY <3>1
    <3>3. CASE shown' = shown + 1 /\ \E size \in Sizes : Offer(size, TRUE)
      <4>1. PICK size \in Sizes : Offer(size, TRUE)
        BY <3>3
      <4>2. queued' \in Int /\ main' \in Mains
        BY <1>3, <4>1
      <4> QED
        BY <3>1, <3>2, <3>3, <4>2
    <3>4. CASE shown' = shown + 1 /\ UNCHANGED <<main, queued, outcome>>
      BY <3>1, <3>2, <3>4
    <3>5. CASE Close(Head(events).what) /\ UNCHANGED <<queued, shown>>
      BY <1>4, <3>1, <3>2, <3>5
    <3> QED
      BY <1>6, <3>3, <3>4, <3>5 DEF Receive
  <2> QED
    BY <1>6, <2>1 DEF Receive, rest, pty
<1>7. CASE Accept
  <2> DEFINE c == [n |-> accepted', size |-> main.size]
  <2>1. accepted' \in Nat /\ c \in Queued
    BY <1>7 DEF Accept, Mains, Queued
  <2>2. writes' = Append(writes, c)
    BY <1>7 DEF Accept
  <2> HIDE DEF c
  <2>3. writes' \in Seq(Queued)
    BY <2>1, <2>2
  <2> QED
    BY <1>4, <1>7, <2>1, <2>3 DEF Accept, pty
<1>8. CASE Refuse
  <2>1. main.size \in Int
    BY Constants DEF Mains
  <2> QED
    BY <1>4, <1>8, <2>1 DEF Refuse, rest, pty
<1>9. CASE UserCloses
  BY <1>4, <1>9 DEF UserCloses, rest, pty
<1>10. CASE Read
  <2>1. reader' \in Readers /\ printed' \in Seq(BOOLEAN)
    BY <1>10 DEF Read, Readers
  <2> QED
    BY <1>10, <2>1 DEF Read, stays, queues
<1>11. ASSUME NEW what \in {"exit", "input"}, Post(what, FALSE) PROVE events' \in Seq(Events)
  <2> DEFINE e == [what |-> what, asks |-> FALSE]
  <2>1. e \in Events
    BY DEF Events, Data, Ends
  <2>2. events' = Append(events, e)
    BY <1>11 DEF Post
  <2> HIDE DEF e
  <2> QED
    BY <2>1, <2>2
<1>12. CASE ReadSends
  <2>1. [what |-> "data", asks |-> reader.asks] \in Events
    BY DEF Events, Data, Readers
  <2>2. events' \in Seq(Events)
    <3> DEFINE e == [what |-> "data", asks |-> reader.asks]
    <3>1. events' = Append(events, e)
      BY <1>12 DEF ReadSends, Post
    <3> HIDE DEF e
    <3> QED
      BY <2>1, <3>1 DEF e
  <2> QED
    BY <1>12, <2>2 DEF ReadSends, Reader, Readers, stays, queues
<1>13. CASE ReadLeaves \/ ReadFails \/ Wait
  <2>1. \A at \in {"leave", "wait", "end", "gone"} : Reader(at) => reader' \in Readers
    BY DEF Reader, Readers
  <2>2. reader' \in Readers
    BY <1>13, <2>1 DEF ReadLeaves, ReadFails, Wait
  <2> QED
    BY <1>13, <2>2 DEF ReadLeaves, ReadFails, Wait, stays, queues
<1>14. CASE ReadEnds
  <2>1. events' \in Seq(Events)
    <3>1. Post("exit", FALSE) \/ UNCHANGED events
      BY <1>14 DEF ReadEnds
    <3> QED
      BY <1>11, <3>1
  <2> QED
    BY <1>14, <2>1 DEF ReadEnds, Reader, Readers, stays, queues
<1>15. CASE Take
  <2>1. writes # <<>> /\ writes \in Seq(Queued)
    BY <1>15 DEF Take
  <2>2. Head(writes) \in Queued /\ writes' \in Seq(Queued)
    <3> DEFINE C == Queued
    <3> HIDE DEF C
    <3>1. writes \in Seq(C) /\ writes # <<>> /\ writes' = Tail(writes)
      BY <1>15, <2>1 DEF Take, C
    <3>2. Head(writes) \in C /\ writes' \in Seq(C)
      BY <3>1
    <3> QED
      BY <3>2 DEF C
  <2>3. writer' \in Writers
    BY <1>15, <2>2 DEF Take, Writers, Queued
  <2> QED
    BY <1>15, <2>2, <2>3 DEF Take, keeps
<1>16. CASE Write
  <2>1. writer.n \in Nat /\ writer' \in Writers
    BY <1>16 DEF Write, Writers
  <2> QED
    BY <1>16, <2>1 DEF Write, keeps, queues
<1>17. CASE WriteFails
  <2>1. writer' \in Writers
    BY <1>17 DEF WriteFails, Writers
  <2> QED
    BY <1>17, <2>1 DEF WriteFails, keeps, queues
<1>18. CASE Wrote
  <2>1. writer' \in Writers
    BY <1>18 DEF Wrote, Idle, Writers
  <2>2. writer.size \in Int
    BY Constants DEF Writers
  <2> QED
    BY <1>18, <2>1, <2>2 DEF Wrote, keeps
<1>19. CASE WriterEnds
  <2>1. writer' \in Writers
    BY <1>19 DEF WriterEnds, Idle, Writers
  <2>2. events' \in Seq(Events)
    <3>1. Post("input", FALSE) \/ UNCHANGED events
      BY <1>19 DEF WriterEnds
    <3> QED
      BY <1>11, <3>1
  <2> QED
    BY <1>19, <2>1, <2>2 DEF WriterEnds, keeps, queues
<1>20. CASE UNCHANGED vars
  BY <1>20 DEF vars, queues, pty
<1> QED
  BY <1>1, <1>2, <1>5, <1>6, <1>7, <1>8, <1>9, <1>10, <1>12, <1>13, <1>14, <1>15, <1>16,
     <1>17, <1>18, <1>19, <1>20
  DEF Next, Environment, Session, Reading, Writing

-----------------------------------------------------------------------------
(* Input.                                                                  *)

LEMMA InputRest ==
    ASSUME Input, UNCHANGED <<writes, writer, delivered, accepted>>
    PROVE  Input'
BY DEF Input, InputInOrder, Going, Held

LEMMA InputKept == Types /\ Input /\ [Next]_vars => Input'
<1> SUFFICES ASSUME Types, Input, [Next]_vars PROVE Input'
  OBVIOUS
<1>1. CASE Environment \/ UNCHANGED vars
  BY <1>1, InputRest
  DEF Environment, ChildReads, ChildPrints, ChildExits, HangUp, others, queues, vars
<1>2. CASE Key \/ Receive \/ Refuse \/ UserCloses
  BY <1>2, InputRest DEF Key, Receive, Refuse, UserCloses, rest
<1>3. CASE Reading
  BY <1>3, InputRest
  DEF Reading, Read, ReadSends, ReadLeaves, ReadFails, Wait, ReadEnds, stays, queues
<1> DEFINE d == Len(delivered)
           m == Len(writes)
<1>4. d \in Nat /\ m \in Nat /\ accepted \in Nat /\ DOMAIN delivered = 1..d
  BY DEF Types
<1>5. CASE Accept
  <2> DEFINE c == [n |-> accepted + 1, size |-> main.size]
  <2>1. writes' = Append(writes, c) /\ accepted' = accepted + 1 /\ UNCHANGED <<writer, delivered>>
    BY <1>5 DEF Accept
  <2>2. c.n = accepted + 1
    OBVIOUS
  <2> HIDE DEF c
  <2>3. /\ Len(writes') = m + 1 /\ writes'[m + 1] = c
        /\ \A i \in 1..m : writes'[i] = writes[i]
    BY <2>1 DEF Types
  <2>4. Going' = Going /\ Held' = Held /\ Held \in Nat
    BY <2>1 DEF Going, Held
  <2>5. ASSUME Going
        PROVE  /\ accepted' = d + Held + Len(writes')
               /\ \A i \in 1..Len(writes') : writes'[i].n = d + Held + i
    <3>1. accepted = d + Held + m /\ \A i \in 1..m : writes[i].n = d + Held + i
      BY <2>5 DEF Input
    <3>2. accepted' = d + Held + Len(writes') /\ accepted + 1 = d + Held + (m + 1)
      BY <1>4, <2>1, <2>3, <2>4, <3>1
    <3>3. ASSUME NEW i \in 1..m + 1 PROVE writes'[i].n = d + Held + i
      <4>1. CASE i = m + 1
        BY <2>2, <2>3, <3>2, <4>1
      <4>2. CASE i \in 1..m
        BY <2>3, <3>1, <4>2
      <4> QED
        BY <1>4, <4>1, <4>2
    <3> QED
      BY <2>3, <3>2, <3>3
  <2>6. (InputInOrder /\ (writer.at = "write" => writer.n = Len(delivered) + 1))'
    BY <2>1 DEF Input, InputInOrder
  <2> QED
    BY <2>1, <2>4, <2>5, <2>6 DEF Input
<1>6. CASE Take
  <2>1. /\ writer.at = "select" /\ writes # <<>> /\ writes' = Tail(writes)
        /\ writer' = [at |-> "write", n |-> Head(writes).n, size |-> Head(writes).size]
        /\ UNCHANGED <<delivered, accepted>>
    BY <1>6 DEF Take, keeps
  <2>2. Going /\ Held = 0 /\ Held' = 1 /\ writer'.at = "write" /\ writer'.n = Head(writes).n
    BY <2>1 DEF Going, Held
  <2> DEFINE Q == Queued
  <2> HIDE DEF Q
  <2>3. writes \in Seq(Q)
    BY DEF Types, Q
  <2>4. /\ m >= 1 /\ Head(writes) = writes[1] /\ Len(writes') = m - 1
        /\ \A i \in 1..m - 1 : writes'[i] = writes[i + 1]
    BY <2>1, <2>3
  <2>5. accepted = d + m /\ \A i \in 1..m : writes[i].n = d + i
    BY <1>4, <2>2 DEF Input
  <2>6. writer'.n = d + 1
    BY <1>4, <2>2, <2>4, <2>5
  <2>7. accepted' = d + 1 + Len(writes')
    BY <1>4, <2>1, <2>4, <2>5
  <2>8. ASSUME NEW i \in 1..Len(writes') PROVE writes'[i].n = d + 1 + i
    <3>1. i + 1 \in 1..m /\ writes'[i] = writes[i + 1]
      BY <1>4, <2>4
    <3>2. writes[i + 1].n = d + (i + 1)
      BY <2>5, <3>1
    <3> QED
      BY <1>4, <3>1, <3>2
  <2>9. InputInOrder'
    BY <2>1 DEF Input, InputInOrder
  <2> QED
    BY <2>1, <2>2, <2>6, <2>7, <2>8, <2>9 DEF Input
<1>7. CASE Write
  <2>1. /\ writer.at = "write" /\ delivered' = Append(delivered, writer.n)
        /\ writer' = [writer EXCEPT !.at = "wrote"] /\ UNCHANGED <<writes, accepted>>
    BY <1>7 DEF Write, keeps, queues
  <2>2. writer'.at = "wrote" /\ Going /\ Held = 1 /\ Held' = 0
    BY <2>1 DEF Going, Held, Types, Writers
  <2>3. writer.n = d + 1 /\ writer.n \in Nat
    BY <1>4, <2>1 DEF Input
  <2>4. /\ Len(delivered') = d + 1 /\ DOMAIN delivered' = 1..d + 1
        /\ delivered'[d + 1] = d + 1
        /\ \A i \in 1..d : delivered'[i] = delivered[i]
    BY <2>1, <2>3 DEF Types
  <2>5. accepted = d + 1 + m /\ \A i \in 1..m : writes[i].n = d + 1 + i
    BY <2>2 DEF Input
  <2>6. InputInOrder'
    <3>1. ASSUME NEW i \in 1..d + 1 PROVE delivered'[i] = i
      <4>1. CASE i \in 1..d
        BY <1>4, <2>4, <4>1 DEF Input, InputInOrder
      <4>2. CASE i = d + 1
        BY <2>4, <4>2
      <4> QED
        BY <1>4, <4>1, <4>2
    <3> QED
      BY <2>4, <3>1 DEF InputInOrder
  <2>7. /\ accepted' = Len(delivered') + 0 + Len(writes')
        /\ \A i \in 1..Len(writes') : writes'[i].n = Len(delivered') + 0 + i
    BY <1>4, <2>1, <2>4, <2>5
  <2> QED
    BY <2>2, <2>6, <2>7 DEF Input
<1>8. CASE WriteFails \/ (Wrote /\ writer.at = "failed") \/ WriterEnds
  <2>1. ~Going' /\ UNCHANGED delivered
    BY <1>8 DEF WriteFails, Wrote, WriterEnds, Going, Idle, Types, Writers
  <2> QED
    BY <2>1 DEF Input, InputInOrder, Going
<1>9. CASE Wrote /\ writer.at = "wrote"
  <2>1. writer'.at = "select" /\ UNCHANGED <<writes, delivered, accepted>>
    BY <1>9 DEF Wrote, Idle, keeps
  <2>2. Going /\ Held = 0 /\ Held' = 0
    BY <1>9, <2>1 DEF Going, Held
  <2> QED
    BY <2>1, <2>2 DEF Input, InputInOrder
<1> QED
  BY <1>1, <1>2, <1>3, <1>5, <1>6, <1>7, <1>8, <1>9 DEF Next, Session, Writing, Wrote

-----------------------------------------------------------------------------
(* Output.                                                                 *)

LEMMA OutputRest ==
    ASSUME Output, Closed' = Closed,
           UNCHANGED <<events, reader, printed, prints, shown, tty, outcome>>
    PROVE  Output'
<1>1. Drained => Drained'
  BY DEF Drained, Shows, InHand
<1> QED
  BY <1>1 DEF Output

\* A shell that closes for another reason than its child's end.
LEMMA OutputClosed ==
    ASSUME Output, ~Closed, Closed', outcome' \in {"user", "input", "refused"}
    PROVE  Output'
BY DEF Output

LEMMA CountAppend ==
    ASSUME NEW ev \in Seq(Events), NEW e \in Events, NEW sh \in Nat, NEW pr \in Nat,
           NEW f \in [0..Len(ev) -> Nat], Counts(f, ev, sh, pr),
           e.what = "exit" => f[Len(ev)] = pr
    PROVE  \E g \in [0..Len(Append(ev, e)) -> Nat] :
              /\ Counts(g, Append(ev, e), sh, pr)
              /\ g[Len(Append(ev, e))] = f[Len(ev)] + Reads(e)
<1> DEFINE n == Len(ev)
           w == Append(ev, e)
           g == [i \in 0..n + 1 |-> IF i <= n THEN f[i] ELSE f[n] + Reads(e)]
<1>1. n \in Nat /\ f[n] \in Nat /\ Reads(e) \in Nat
  BY DEF Reads
<1>2. Len(w) = n + 1 /\ w[n + 1] = e /\ \A i \in 1..n : w[i] = ev[i]
  OBVIOUS
<1>3. g \in [0..n + 1 -> Nat] /\ g[n + 1] = f[n] + Reads(e) /\ \A i \in 0..n : g[i] = f[i]
  BY <1>1
<1> HIDE DEF w, g
<1>4. g[0] = sh
  BY <1>1, <1>3 DEF Counts
<1>5. ASSUME NEW i \in 1..n + 1
      PROVE  g[i] = g[i - 1] + Reads(w[i]) /\ (w[i].what = "exit" => g[i] = pr)
  <2>1. CASE i \in 1..n
    <3>1. i \in 0..n /\ i - 1 \in 0..n
      BY <1>1, <2>1
    <3> QED
      BY <1>2, <1>3, <2>1, <3>1 DEF Counts
  <2>2. CASE i = n + 1
    <3>1. i - 1 = n /\ n \in 0..n
      BY <1>1, <2>2
    <3>2. g[i] = g[i - 1] + Reads(w[i])
      BY <1>2, <1>3, <2>2, <3>1
    <3>3. e.what = "exit" => Reads(e) = 0
      BY DEF Reads
    <3> QED
      BY <1>1, <1>2, <1>3, <2>2, <3>2, <3>3
  <2> QED
    BY <1>1, <2>1, <2>2
<1>6. Counts(g, w, sh, pr)
  BY <1>2, <1>4, <1>5 DEF Counts
<1> QED
  BY <1>2, <1>3, <1>6 DEF w

LEMMA CountTail ==
    ASSUME NEW ev \in Seq(Events), ev # <<>>, NEW sh \in Nat, NEW pr \in Nat,
           NEW f \in [0..Len(ev) -> Nat], Counts(f, ev, sh, pr)
    PROVE  \E g \in [0..Len(Tail(ev)) -> Nat] :
              /\ Counts(g, Tail(ev), sh + Reads(Head(ev)), pr)
              /\ g[Len(Tail(ev))] = f[Len(ev)]
<1> DEFINE n == Len(ev)
           w == Tail(ev)
           g == [i \in 0..n - 1 |-> f[i + 1]]
<1>1. n \in Nat /\ n >= 1 /\ Head(ev) = ev[1]
  OBVIOUS
<1>2. Len(w) = n - 1 /\ \A i \in 1..n - 1 : w[i] = ev[i + 1]
  OBVIOUS
<1>3. g \in [0..n - 1 -> Nat] /\ \A i \in 0..n - 1 : g[i] = f[i + 1]
  BY <1>1
<1> HIDE DEF w, g
<1>4. g[0] = sh + Reads(Head(ev))
  BY <1>1, <1>3 DEF Counts
<1>5. ASSUME NEW i \in 1..n - 1
      PROVE  g[i] = g[i - 1] + Reads(w[i]) /\ (w[i].what = "exit" => g[i] = pr)
  <2>1. i \in 0..n - 1 /\ i - 1 \in 0..n - 1 /\ i + 1 \in 1..n /\ (i - 1) + 1 = i
        /\ (i + 1) - 1 = i
    BY <1>1
  <2>2. g[i] = f[i + 1] /\ g[i - 1] = f[i] /\ w[i] = ev[i + 1]
    BY <1>2, <1>3, <2>1
  <2>3. f[i + 1] = f[(i + 1) - 1] + Reads(ev[i + 1]) /\ (ev[i + 1].what = "exit" => f[i + 1] = pr)
    BY <2>1 DEF Counts
  <2> QED
    BY <2>1, <2>2, <2>3
<1>6. Counts(g, w, sh + Reads(Head(ev)), pr)
  BY <1>2, <1>4, <1>5 DEF Counts
<1>7. g[n - 1] = f[n]
  BY <1>1, <1>3
<1> QED
  BY <1>2, <1>3, <1>6, <1>7 DEF w

LEMMA OutputAfterClose ==
    ASSUME Output, Closed, [Next]_vars
    PROVE  Output'
<1>1. main.at = "closed" /\ main # Loop
  BY DEF Closed, Loop
<1>2. /\ UNCHANGED <<main, shown, outcome>>
      /\ ~tty => ~tty' /\ UNCHANGED prints
  <2>1. CASE Environment \/ UNCHANGED vars
    BY <2>1 DEF Environment, ChildReads, ChildPrints, ChildExits, HangUp, others, vars, pty
  <2>2. CASE Session
    BY <1>1, <2>2 DEF Session, Key, Receive, Accept, Refuse, UserCloses
  <2>3. CASE Reading
    <3>1. UNCHANGED <<main, shown, outcome, tty, prints>>
      BY <2>3 DEF Reading, Read, ReadSends, ReadLeaves, ReadFails, Wait, ReadEnds, stays
    <3> QED
      BY <3>1
  <2>4. CASE Writing
    <3>1. UNCHANGED <<main, shown, outcome, tty, prints>>
      BY <2>4 DEF Writing, Take, Write, WriteFails, Wrote, WriterEnds, keeps
    <3> QED
      BY <3>1
  <2> QED
    BY <2>1, <2>2, <2>3, <2>4 DEF Next
<1>3. Closed'
  BY <1>2 DEF Closed
<1> QED
  BY <1>2, <1>3 DEF Output

LEMMA OutputKept == Types /\ Output /\ [Next]_vars => Output'
<1> SUFFICES ASSUME Types, Output, [Next]_vars, ~Closed PROVE Output'
  BY OutputAfterClose
<1> DEFINE E == Events
<1>1. /\ Loop.at = "loop" /\ outcome # "exit" /\ Drained
      /\ events \in Seq(E) /\ printed \in Seq(BOOLEAN) /\ shown \in Nat /\ prints \in Nat
      /\ reader \in Readers
  BY DEF Loop, Output, Types
<1>2. PICK f \in [0..Len(events) -> Nat] : Shows(f)
  BY <1>1 DEF Drained
<1>3. Len(events) \in Nat /\ f[Len(events)] \in Nat /\ InHand \in Nat /\ Len(printed) \in Nat
  BY <1>1, <1>2 DEF InHand
<1> HIDE DEF E
<1>4. CASE ChildReads \/ ChildExits \/ Take \/ Write \/ WriteFails \/ Wrote \/ UNCHANGED vars
  <2>1. UNCHANGED <<main, events, reader, printed, prints, shown, tty, outcome>>
    BY <1>4
    DEF ChildReads, ChildExits, Take, Write, WriteFails, Wrote, others, keeps, queues, pty, vars
  <2> QED
    BY <2>1, OutputRest DEF Closed
<1>5. CASE Key \/ Accept \/ Refuse \/ UserCloses
  <2>1. CASE main'.at # "closed" /\ UNCHANGED outcome
    BY <1>5, <2>1, OutputRest DEF Closed, Key, Accept, Refuse, UserCloses, rest, pty
  <2>2. CASE main'.at = "closed" /\ outcome' \in {"user", "refused"}
    BY <2>2, OutputClosed DEF Closed
  <2>3. \/ main'.at # "closed" /\ UNCHANGED outcome
        \/ main'.at = "closed" /\ outcome' \in {"user", "refused"}
    <3>1. CASE Key
      BY <3>1 DEF Key, Offer
    <3>2. CASE Accept
      BY <1>1, <3>2 DEF Accept
    <3>3. \A why : Close(why) => main'.at = "closed" /\ outcome' = why
      BY DEF Close, Loop
    <3>4. CASE Refuse
      BY <1>1, <3>3, <3>4 DEF Refuse
    <3>5. CASE UserCloses
      BY <3>3, <3>5 DEF UserCloses
    <3> QED
      BY <1>5, <3>1, <3>2, <3>4, <3>5
  <2> QED
    BY <2>1, <2>2, <2>3
<1>6. ASSUME ~Closed', outcome' = outcome, Drained' PROVE Output'
  BY <1>1, <1>6 DEF Output
<1>7. CASE ChildPrints
  <2>1. /\ tty /\ prints' = prints + 1 /\ Len(printed') = Len(printed) + 1
        /\ UNCHANGED <<main, events, reader, shown, outcome, tty>>
    BY <1>1, <1>7 DEF ChildPrints, others, queues
  <2>2. \A i \in 1..Len(events) : events[i].what # "exit"
    BY <1>1, <2>1 DEF Drained
  <2>3. Shows(f)'
    <3>1. Counts(f, events, shown, prints + 1)
      BY <1>2, <2>2 DEF Shows, Counts
    <3>2. f[Len(events)] + InHand + Len(printed) = prints
      BY <1>2 DEF Shows
    <3>3. f[Len(events')] + InHand' + Len(printed') = prints'
      <4>1. InHand' = InHand /\ f[Len(events')] = f[Len(events)]
        BY <2>1 DEF InHand
      <4>2. f[Len(events)] \in Nat /\ InHand \in Nat /\ Len(printed) \in Nat
        BY <1>1, <1>3 DEF InHand
      <4> QED
        BY <2>1, <3>2, <4>1, <4>2
    <3> QED
      BY <2>1, <3>1, <3>3 DEF Shows
  <2>4. Drained'
    BY <1>1, <1>2, <2>1, <2>3 DEF Drained
  <2> QED
    BY <1>6, <2>1, <2>4 DEF Closed
<1>8. CASE HangUp
  <2>1. ~tty' /\ UNCHANGED <<main, events, reader, printed, prints, shown, outcome>>
    BY <1>8 DEF HangUp, others, queues
  <2>2. Shows(f)'
    BY <1>2, <2>1 DEF Shows, Counts, InHand
  <2>3. Drained'
    BY <1>1, <1>2, <2>1, <2>2 DEF Drained
  <2> QED
    BY <1>6, <2>1, <2>3 DEF Closed
<1>9. CASE Receive
  <2> DEFINE e == Head(events)
  <2>1. /\ events # <<>> /\ events' = Tail(events) /\ UNCHANGED <<reader, printed, prints, tty>>
    BY <1>9 DEF Receive, rest, pty
  <2>2. /\ Len(events) >= 1 /\ e = events[1] /\ Len(events') = Len(events) - 1
        /\ \A i \in 1..Len(events') : events'[i] = events[i + 1]
    BY <1>1, <2>1
  <2>3. CASE e.what = "data"
    <3>1. shown' = shown + Reads(e) /\ outcome' = outcome /\ main'.at # "closed"
      BY <1>1, <1>9, <2>3 DEF Receive, Reads, Offer
    <3>2. PICK g \in [0..Len(Tail(events)) -> Nat] :
             /\ Counts(g, Tail(events), shown + Reads(e), prints)
             /\ g[Len(Tail(events))] = f[Len(events)]
      BY <1>1, <1>2, <2>1, CountTail DEF Shows, E
    <3>3. Shows(g)'
      BY <1>2, <2>1, <3>1, <3>2 DEF Shows, InHand
    <3>4. (\E i \in 1..Len(events) : events[i].what = "exit")' => ~tty'
      <4>1. \A i \in 1..Len(events') : i + 1 \in 1..Len(events) /\ events'[i] = events[i + 1]
        BY <1>3, <2>2
      <4> QED
        BY <1>1, <2>1, <4>1 DEF Drained
    <3>5. Drained'
      BY <1>1, <2>1, <3>2, <3>3, <3>4 DEF Drained
    <3> QED
      BY <1>6, <3>1, <3>5 DEF Closed
  <2>4. CASE e.what # "data"
    <3>1. main'.at = "closed" /\ outcome' = e.what /\ UNCHANGED shown
      BY <1>9, <2>4 DEF Receive, Close, Loop
    <3>2. e.what \in {"exit", "input"}
      <4>1. e \in E
        BY <1>1, <2>1
      <4> QED
        BY <2>4, <4>1 DEF E, Events, Data, Ends
    <3>3. CASE e.what = "exit"
      <4>1. 1 \in 1..Len(events) /\ 1 - 1 = 0 /\ Reads(e) = 0
        BY <1>3, <2>2, <3>3 DEF Reads
      <4>2. f[1] = prints /\ f[1] = f[0] + Reads(e) /\ f[0] = shown
        BY <1>2, <2>2, <3>3, <4>1 DEF Shows, Counts
      <4>3. ~tty /\ shown = prints
        BY <1>1, <2>2, <3>3, <4>1, <4>2 DEF Drained
      <4> QED
        BY <2>1, <3>1, <4>3 DEF Output, Closed
    <3>4. CASE e.what = "input"
      BY <3>1, <3>4, OutputClosed DEF Closed
    <3> QED
      BY <3>2, <3>3, <3>4
  <2> QED
    BY <2>3, <2>4
<1>10. CASE Read
  <2>1. /\ printed # <<>> /\ Len(printed') = Len(printed) - 1 /\ InHand = 0
        /\ reader'.at = "send" /\ UNCHANGED <<main, events, prints, shown, tty, outcome>>
    BY <1>1, <1>10 DEF Read, stays, queues, InHand
  <2>2. Shows(f)'
    BY <1>2, <1>3, <2>1 DEF Shows, Counts, InHand
  <2>3. Drained'
    BY <1>1, <1>2, <2>1, <2>2 DEF Drained
  <2> QED
    BY <1>6, <2>1, <2>3 DEF Closed
<1>11. CASE ReadSends
  <2> DEFINE e == [what |-> "data", asks |-> reader.asks]
  <2>1. /\ events' = Append(events, e) /\ reader.at = "send" /\ reader'.at = "read"
        /\ UNCHANGED <<main, printed, prints, shown, tty, outcome>>
    BY <1>11 DEF ReadSends, Post, Reader, stays
  <2>2. e \in Events /\ e.what = "data" /\ Reads(e) = 1 /\ InHand = 1 /\ InHand' = 0
    BY <1>1, <2>1 DEF Events, Data, Readers, Reads, InHand
  <2> HIDE DEF e
  <2>3. PICK g \in [0..Len(events') -> Nat] :
           /\ Counts(g, events', shown, prints)
           /\ g[Len(events')] = f[Len(events)] + Reads(e)
    BY <1>1, <1>2, <2>1, <2>2, CountAppend DEF Shows, E
  <2>4. Shows(g)'
    BY <1>2, <1>3, <2>1, <2>2, <2>3 DEF Shows
  <2>5. \A i \in 1..Len(events') : events'[i].what = "exit" =>
           i \in 1..Len(events) /\ events[i].what = "exit"
    BY <1>1, <2>1, <2>2
  <2>6. Drained'
    BY <1>1, <2>1, <2>3, <2>4, <2>5 DEF Drained
  <2> QED
    BY <1>6, <2>1, <2>6 DEF Closed
<1>12. CASE ReadLeaves \/ ReadFails \/ Wait
  <2>1. /\ InHand = 0 /\ InHand' = 0 /\ reader'.at \in {"wait", "end"} /\ ~tty /\ printed = <<>>
        /\ UNCHANGED <<main, events, printed, prints, shown, tty, outcome>>
    <3>1. ~ReadLeaves
      BY DEF ReadLeaves
    <3>2. CASE ReadFails
      BY <1>1, <3>2 DEF ReadFails, Reader, stays, queues, InHand
    <3>3. CASE Wait
      <4>1. reader.at = "wait" /\ reader'.at = "end"
        BY <1>1, <3>3 DEF Wait, Reader, Drained
      <4> QED
        BY <1>1, <3>3, <4>1 DEF Wait, stays, queues, InHand, Drained
    <3> QED
      BY <1>12, <3>1, <3>2, <3>3
  <2>2. Shows(f)'
    BY <1>2, <2>1 DEF Shows, Counts
  <2>3. Drained'
    BY <1>1, <1>2, <2>1, <2>2 DEF Drained
  <2> QED
    BY <1>6, <2>1, <2>3 DEF Closed
<1>13. ASSUME NEW what \in {"exit", "input"}, Post(what, FALSE), InHand' = InHand,
              what = "exit" => f[Len(events)] = prints,
              UNCHANGED <<printed, prints, shown>>
       PROVE  \E g \in [0..Len(events') -> Nat] : Shows(g)'
  <2> DEFINE e == [what |-> what, asks |-> FALSE]
  <2>1. e \in Events /\ e.what = what /\ Reads(e) = 0
    BY DEF Events, Data, Ends, Reads
  <2>2. events' = Append(events, e)
    BY <1>13 DEF Post
  <2> HIDE DEF e
  <2>3. PICK g \in [0..Len(events') -> Nat] :
           /\ Counts(g, events', shown, prints)
           /\ g[Len(events')] = f[Len(events)] + Reads(e)
    BY <1>1, <1>2, <1>13, <2>1, <2>2, CountAppend DEF Shows, E
  <2>4. Shows(g)'
    BY <1>2, <1>3, <1>13, <2>1, <2>3 DEF Shows
  <2> QED
    BY <2>3, <2>4
<1>14. CASE ReadEnds
  <2>1. /\ reader.at = "end" /\ Post("exit", FALSE) /\ reader'.at = "gone"
        /\ UNCHANGED <<main, printed, prints, shown, tty, outcome>>
    BY <1>14 DEF ReadEnds, Reader, stays
  <2>2. ~tty /\ printed = <<>> /\ InHand = 0 /\ InHand' = 0
    BY <1>1, <2>1 DEF Drained, InHand
  <2>3. f[Len(events)] = prints
    BY <1>2, <1>3, <2>2 DEF Shows
  <2>4. \E g \in [0..Len(events') -> Nat] : Shows(g)'
    BY <1>13, <2>1, <2>2, <2>3
  <2>5. Drained'
    BY <2>1, <2>2, <2>4 DEF Drained
  <2> QED
    BY <1>6, <2>1, <2>5 DEF Closed
<1>15. CASE WriterEnds
  <2>1. /\ Post("input", FALSE)
        /\ UNCHANGED <<main, reader, printed, prints, shown, tty, outcome>>
    BY <1>15 DEF WriterEnds, keeps
  <2>2. \E g \in [0..Len(events') -> Nat] : Shows(g)'
    BY <1>13, <2>1 DEF InHand
  <2>3. \A i \in 1..Len(events') : events'[i].what = "exit" =>
           i \in 1..Len(events) /\ events[i].what = "exit"
    <3> DEFINE e == [what |-> "input", asks |-> FALSE]
    <3>1. events' = Append(events, e) /\ e.what = "input" /\ e \in E
      BY <2>1 DEF Post, E, Events, Ends
    <3> HIDE DEF e
    <3> QED
      BY <1>1, <3>1
  <2>4. Drained'
    BY <1>1, <2>1, <2>2, <2>3 DEF Drained
  <2> QED
    BY <1>6, <2>1, <2>4 DEF Closed
<1> QED
  BY <1>4, <1>5, <1>7, <1>8, <1>9, <1>10, <1>11, <1>12, <1>14, <1>15
  DEF Next, Environment, Session, Reading, Writing

-----------------------------------------------------------------------------
LEMMA InitHolds == Init => IInv
<1> SUFFICES ASSUME Init PROVE IInv
  OBVIOUS
<1>1. Types
  BY InitTypes
<1>2. Input
  BY DEF Init, Input, InputInOrder, Idle, Held, Going
<1>3. Output
  <2>1. events = <<>> /\ shown = 0 /\ prints = 0 /\ printed = <<>> /\ reader.at = "read"
        /\ outcome = "none"
    BY DEF Init
  <2> DEFINE f == [i \in {0} |-> 0]
  <2>2. f \in [0..Len(events) -> Nat] /\ f[0] = 0
    BY <2>1
  <2>3. Shows(f)
    BY <2>1, <2>2 DEF Shows, Counts, InHand
  <2> QED
    BY <2>1, <2>2, <2>3 DEF Output, Drained
<1> QED
  BY <1>1, <1>2, <1>3 DEF IInv

LEMMA NextKeeps == IInv /\ [Next]_vars => IInv'
BY TypesKept, InputKept, OutputKept DEF IInv

-----------------------------------------------------------------------------
\* What send has accepted reaches the child in order and without a hole.
THEOREM InputArrives == Spec => []InputInOrder
<1>1. IInv => InputInOrder
  BY DEF IInv, Input
<1> QED
  BY <1>1, InitHolds, NextKeeps, PTL DEF Spec

\* The end of the child closes the shell behind everything it printed.
THEOREM EndComesLast == Spec => []OutputBeforeEnd
<1>1. IInv => OutputBeforeEnd
  BY DEF IInv, Output, OutputBeforeEnd
<1> QED
  BY <1>1, InitHolds, NextKeeps, PTL DEF Spec

-----------------------------------------------------------------------------
(* What is queued.                                                         *)

Less == OpToRel(<, Nat)

LEMMA LeastExists ==
    ASSUME NEW S \in SUBSET Nat, S # {}
    PROVE  \E m \in S : \A i \in S : m <= i
<1>1. PICK m \in S : \A i \in S : <<i, m>> \notin Less
  BY NatLessThanWellFounded, WFMin DEF Less
<1>2. ASSUME NEW i \in S PROVE m <= i
  <2>1. <<i, m>> \in Nat \X Nat /\ <<i, m>>[1] = i /\ <<i, m>>[2] = m
    OBVIOUS
  <2>2. ~(i < m)
    BY <1>1, <2>1 DEF Less, OpToRel
  <2> QED
    BY <2>2
<1> QED
  BY <1>2

\* f[n] is the size of the first n chunks of s, up to the k-th.
Sums(f, s, k) ==
    /\ f[0] = 0
    /\ \A n \in 1..k : f[n] = f[n - 1] + s[n].size

Sized(s, m) == m \in Nat /\ \A i \in 1..m : s[i].size \in Nat

LEMMA WritesSized == ASSUME NEW s \in Seq(Queued) PROVE Sized(s, Len(s))
<1>1. \A c \in Queued : c.size \in Nat
  BY Constants DEF Queued
<1>2. Len(s) \in Nat /\ \A i \in 1..Len(s) : s[i] \in Queued
  OBVIOUS
<1> QED
  BY <1>1, <1>2 DEF Sized

LEMMA SumsExist ==
    ASSUME NEW m, NEW s, Sized(s, m)
    PROVE  \E f : f \in [0..m -> Nat] /\ Sums(f, s, m)
<1> DEFINE Has(k) == \E f : f \in [0..k -> Nat] /\ Sums(f, s, k)
           Bad == {k \in 0..m : ~Has(k)}
<1>0. m \in Nat /\ \A i \in 1..m : s[i].size \in Nat
  BY DEF Sized
<1> HIDE DEF Has
<1>1. SUFFICES ASSUME Bad # {} PROVE FALSE
  <2>1. m \in 0..m
    BY <1>0
  <2>2. Has(m)
    BY <2>1
  <2> QED
    BY <2>2 DEF Has
<1>2. PICK k \in Bad : \A i \in Bad : k <= i
  <2>1. Bad \in SUBSET Nat
    BY <1>0
  <2> QED
    BY <1>1, <2>1, LeastExists
<1>3. k \in 0..m /\ k \in Nat /\ ~Has(k)
  BY <1>0, <1>2
<1>4. k # 0
  <2> SUFFICES ASSUME k = 0 PROVE FALSE
    OBVIOUS
  <2> DEFINE f == [n \in 0..0 |-> 0]
  <2>1. f \in [0..0 -> Nat] /\ f[0] = 0 /\ \A n \in 1..0 : FALSE
    OBVIOUS
  <2> HIDE DEF f
  <2>2. Sums(f, s, 0)
    BY <2>1 DEF Sums
  <2> QED
    BY <1>3, <2>1, <2>2 DEF Has
<1>5. k - 1 \in 0..m /\ k - 1 \in Nat /\ ~(k <= k - 1) /\ k \in 1..m
  BY <1>0, <1>3, <1>4
<1>6. Has(k - 1)
  BY <1>2, <1>5
<1>7. PICK d : d \in [0..k - 1 -> Nat] /\ Sums(d, s, k - 1)
  BY <1>6 DEF Has
<1>8. \A n \in 0..k - 1 : d[n] \in Nat
  BY <1>7
<1> DEFINE x == d[k - 1] + s[k].size
           g == [n \in 0..k |-> IF n = k THEN x ELSE d[n]]
<1>9. x \in Nat
  <2>1. k - 1 \in 0..k - 1
    BY <1>5
  <2> QED
    BY <1>0, <1>5, <1>8, <2>1
<1> HIDE DEF x
<1>10. \A n \in 0..k : n = k \/ n \in 0..k - 1
  BY <1>3
<1>11. g \in [0..k -> Nat]
  BY <1>8, <1>9, <1>10
<1>12. (\A n \in 0..k - 1 : g[n] = d[n]) /\ g[k] = x
  <2>1. (\A n \in 0..k - 1 : n \in 0..k /\ n # k) /\ k \in 0..k
    BY <1>3
  <2> QED
    BY <2>1
<1> HIDE DEF g
<1>13. Sums(g, s, k)
  <2>1. g[0] = 0
    <3>1. 0 \in 0..k - 1
      BY <1>5
    <3> QED
      BY <1>7, <1>12, <3>1 DEF Sums
  <2>2. ASSUME NEW n \in 1..k PROVE g[n] = g[n - 1] + s[n].size
    <3>1. n - 1 \in 0..k - 1
      BY <1>3
    <3>2. CASE n = k
      BY <1>12, <3>1, <3>2 DEF x
    <3>3. CASE n # k
      <4>1. n \in 0..k - 1 /\ n \in 1..k - 1
        BY <1>3, <3>3
      <4>2. d[n] = d[n - 1] + s[n].size
        BY <1>7, <4>1 DEF Sums
      <4> QED
        BY <1>12, <3>1, <4>1, <4>2
    <3> QED
      BY <3>2, <3>3
  <2> QED
    BY <2>1, <2>2 DEF Sums
<1>14. Has(k)
  BY <1>11, <1>13 DEF Has
<1> QED
  BY <1>3, <1>14

LEMMA SumsAgree ==
    ASSUME NEW m \in Nat, NEW s, NEW d, NEW e, Sums(d, s, m), Sums(e, s, m)
    PROVE  \A n \in 0..m : d[n] = e[n]
<1> DEFINE Bad == {i \in 0..m : d[i] # e[i]}
<1>1. SUFFICES ASSUME Bad # {} PROVE FALSE
  OBVIOUS
<1>2. PICK i \in Bad : \A j \in Bad : i <= j
  <2>1. Bad \in SUBSET Nat
    OBVIOUS
  <2> QED
    BY <1>1, <2>1, LeastExists
<1>3. i \in 0..m /\ d[i] # e[i] /\ i # 0
  BY <1>2 DEF Sums
<1>4. i \in 1..m /\ i - 1 \in 0..m /\ ~(i <= i - 1)
  BY <1>3
<1>5. d[i - 1] = e[i - 1]
  BY <1>2, <1>4
<1>6. d[i] = d[i - 1] + s[i].size /\ e[i] = e[i - 1] + s[i].size
  BY <1>4 DEF Sums
<1> QED
  BY <1>3, <1>5, <1>6

LEMMA SumIs ==
    ASSUME NEW s \in Seq(Queued)
    PROVE  \E f : /\ Sums(f, s, Len(s)) /\ SumSizes(s) = f[Len(s)]
                  /\ \A n \in 0..Len(s) : f[n] \in Nat
<1> DEFINE m == Len(s)
           F(f) == [n \in 0..m |-> IF n = 0 THEN 0 ELSE f[n - 1] + s[n].size]
           c == CHOOSE f : f = F(f)
<1>1. SumSizes(s) = c[m]
  BY DEF SumSizes
<1>2. m \in Nat /\ Sized(s, m)
  BY WritesSized
<1> HIDE DEF m
<1>3. PICK d : d \in [0..m -> Nat] /\ Sums(d, s, m)
  BY <1>2, SumsExist
<1>4. \A n \in 0..m : d[n] \in Nat
  BY <1>3
<1>5. d = F(d)
  <2>1. \A n \in 0..m : d[n] = IF n = 0 THEN 0 ELSE d[n - 1] + s[n].size
    <3>1. \A n \in 0..m : n = 0 \/ n \in 1..m
      BY <1>2
    <3>2. \A n \in 1..m : n # 0
      OBVIOUS
    <3> QED
      BY <1>3, <3>1, <3>2 DEF Sums
  <2>2. d = [n \in 0..m |-> d[n]]
    BY <1>3
  <2> QED
    BY <2>1, <2>2
<1>6. c = F(c)
  BY <1>5
<1> HIDE DEF c
<1>7. Sums(c, s, m)
  <2> DEFINE h == F(c)
  <2>1. h[0] = 0 /\ \A n \in 1..m : h[n] = c[n - 1] + s[n].size
    BY <1>2
  <2>2. c = h
    BY <1>6
  <2> HIDE DEF h
  <2> QED
    BY <2>1, <2>2 DEF Sums
<1>8. \A n \in 0..m : d[n] = c[n]
  BY <1>2, <1>3, <1>7, SumsAgree
<1>9. \A n \in 0..m : c[n] \in Nat
  BY <1>4, <1>8
<1> QED
  BY <1>1, <1>7, <1>9 DEF m

LEMMA SumOnly ==
    ASSUME NEW s \in Seq(Queued), NEW g, Sums(g, s, Len(s))
    PROVE  SumSizes(s) = g[Len(s)]
<1>1. PICK f : Sums(f, s, Len(s)) /\ SumSizes(s) = f[Len(s)]
  BY SumIs
<1>2. Len(s) \in Nat /\ Len(s) \in 0..Len(s)
  OBVIOUS
<1>3. \A n \in 0..Len(s) : f[n] = g[n]
  BY <1>1, <1>2, SumsAgree
<1> QED
  BY <1>1, <1>2, <1>3

LEMMA SumNone == SumSizes(<<>>) = 0
<1> DEFINE g == [n \in 0..0 |-> 0]
<1>1. g[0] = 0 /\ (\A n \in 1..0 : FALSE) /\ <<>> \in Seq(Queued) /\ Len(<<>>) = 0
  OBVIOUS
<1> HIDE DEF g
<1>2. Sums(g, <<>>, Len(<<>>))
  BY <1>1 DEF Sums
<1> QED
  BY <1>1, <1>2, SumOnly

LEMMA SumAppend ==
    ASSUME NEW s \in Seq(Queued), NEW c \in Queued
    PROVE  SumSizes(Append(s, c)) = SumSizes(s) + c.size /\ SumSizes(s) \in Nat
<1> DEFINE n == Len(s)
           w == Append(s, c)
<1>1. n \in Nat /\ w \in Seq(Queued) /\ Len(w) = n + 1 /\ w[n + 1] = c
      /\ \A i \in 1..n : w[i] = s[i]
  OBVIOUS
<1>2. PICK f : Sums(f, s, n) /\ SumSizes(s) = f[n] /\ \A i \in 0..n : f[i] \in Nat
  BY SumIs
<1> DEFINE g == [i \in 0..n + 1 |-> IF i = n + 1 THEN f[n] + c.size ELSE f[i]]
<1>3. g[n + 1] = f[n] + c.size /\ \A i \in 0..n : g[i] = f[i]
  <2>1. n + 1 \in 0..n + 1 /\ \A i \in 0..n : i \in 0..n + 1 /\ i # n + 1
    BY <1>1
  <2> HIDE DEF n, w
  <2> QED
    BY <2>1
<1> HIDE DEF g, n, w
<1>4. g[0] = 0
  <2>1. 0 \in 0..n
    BY <1>1
  <2> QED
    BY <1>2, <1>3, <2>1 DEF Sums
<1>5. ASSUME NEW i \in 1..n + 1 PROVE g[i] = g[i - 1] + w[i].size
  <2>1. i - 1 \in 0..n
    BY <1>1
  <2>2. CASE i = n + 1
    <3>1. i - 1 = n
      BY <1>1, <2>2
    <3> QED
      BY <1>1, <1>3, <2>1, <2>2, <3>1
  <2>3. CASE i # n + 1
    <3>1. i \in 1..n /\ i \in 0..n
      BY <1>1, <2>3
    <3>2. f[i] = f[i - 1] + s[i].size
      BY <1>2, <3>1 DEF Sums
    <3> QED
      BY <1>1, <1>3, <2>1, <3>1, <3>2
  <2> QED
    BY <2>2, <2>3
<1>6. Sums(g, w, Len(w))
  BY <1>1, <1>4, <1>5 DEF Sums
<1>7. SumSizes(w) = g[n + 1]
  BY <1>1, <1>6, SumOnly
<1>8. f[n] \in Nat
  BY <1>1, <1>2
<1> QED
  BY <1>2, <1>3, <1>7, <1>8 DEF w

LEMMA SumTail ==
    ASSUME NEW s \in Seq(Queued), s # <<>>
    PROVE  /\ SumSizes(s) = Head(s).size + SumSizes(Tail(s)) /\ Head(s).size \in Nat
           /\ SumSizes(Tail(s)) \in Int
<1> DEFINE n == Len(s)
           w == Tail(s)
           a == Head(s).size
<1>1. n \in Nat /\ n >= 1 /\ w \in Seq(Queued) /\ Len(w) = n - 1 /\ Head(s) = s[1]
      /\ \A i \in 1..n - 1 : w[i] = s[i + 1]
  OBVIOUS
<1>2. PICK f : Sums(f, s, n) /\ SumSizes(s) = f[n] /\ \A i \in 0..n : f[i] \in Nat
  BY SumIs
<1>3. Sized(s, n)
  BY WritesSized
<1> HIDE DEF n, w
<1>4. a \in Nat /\ f[1] = a /\ f[0] = 0
  <2>1. 1 \in 1..n /\ 1 - 1 = 0
    BY <1>1
  <2>2. f[1] = f[1 - 1] + s[1].size /\ s[1].size \in Nat
    BY <1>2, <1>3, <2>1 DEF Sums, Sized
  <2> QED
    BY <1>1, <1>2, <2>1, <2>2 DEF Sums
<1> HIDE DEF a
<1> DEFINE g == [i \in 0..n - 1 |-> f[i + 1] - a]
<1>5. \A i \in 0..n - 1 : g[i] = f[i + 1] - a
  OBVIOUS
<1> HIDE DEF g
<1>6. g[0] = 0
  <2>1. 0 \in 0..n - 1 /\ 0 + 1 = 1
    BY <1>1
  <2> QED
    BY <1>4, <1>5, <2>1
<1>7. ASSUME NEW i \in 1..n - 1 PROVE g[i] = g[i - 1] + w[i].size
  <2>1. /\ i \in 0..n - 1 /\ i - 1 \in 0..n - 1 /\ i + 1 \in 1..n /\ i \in 0..n /\ i + 1 \in 0..n
        /\ (i - 1) + 1 = i /\ (i + 1) - 1 = i
    BY <1>1
  <2>2. g[i] = f[i + 1] - a /\ g[i - 1] = f[i] - a /\ w[i] = s[i + 1]
    BY <1>1, <1>5, <2>1
  <2>3. f[i + 1] = f[i] + s[i + 1].size /\ f[i] \in Nat /\ s[i + 1].size \in Nat
    BY <1>2, <1>3, <2>1 DEF Sums, Sized
  <2> QED
    BY <1>4, <2>2, <2>3
<1>8. Sums(g, w, Len(w))
  BY <1>1, <1>6, <1>7 DEF Sums
<1>9. SumSizes(w) = g[n - 1]
  BY <1>1, <1>8, SumOnly
<1>10. g[n - 1] = f[n] - a /\ f[n] \in Nat
  <2>1. n - 1 \in 0..n - 1 /\ n - 1 + 1 = n /\ n \in 0..n
    BY <1>1
  <2> QED
    BY <1>2, <1>5, <2>1
<1> QED
  BY <1>2, <1>4, <1>9, <1>10 DEF a, w

\* What the writer has in its hands, and what send has not decided about.
Hand(w) == IF w.at \in {"write", "wrote", "failed"} THEN w.size ELSE 0
Sending(m) == IF m.at = "send" THEN m.size ELSE 0

\* A send has counted its bytes before it compares the sum, and the sum can
\* only have become less since.
Counted(q, ws, w, m) ==
    /\ q = SumSizes(ws) + Hand(w) + Sending(m)
    /\ q - Sending(m) <= Limit
    /\ m.at = "send" /\ m.fits => q <= Limit

QInv == Types /\ Counted(queued, writes, writer, main)

LEMMA MainParts ==
    ASSUME NEW m \in Mains
    PROVE  m.size \in Nat /\ Sending(m) \in Nat /\ m.fits \in BOOLEAN
BY Constants DEF Mains, Sending

LEMMA WriterParts ==
    ASSUME NEW w \in Writers
    PROVE  w.size \in Nat /\ Hand(w) \in Nat
BY Constants DEF Writers, Hand

LEMMA CountedSame ==
    ASSUME QInv, UNCHANGED <<queued, writes, writer, main>>
    PROVE  Counted(queued, writes, writer, main)'
BY DEF QInv

LEMMA CountedOffers ==
    ASSUME QInv, main = Loop, UNCHANGED <<writes, writer>>,
           NEW size \in Sizes, NEW reply \in BOOLEAN, Offer(size, reply)
    PROVE  Counted(queued, writes, writer, main)'
<1>1. /\ queued \in Int /\ size \in Nat /\ Limit \in Int
      /\ queued = SumSizes(writes) + Hand(writer) + Sending(main)
      /\ queued - Sending(main) <= Limit
  BY Constants, TerminalAssumption DEF QInv, Types, Counted
<1>2. /\ queued' = queued + size /\ main'.at = "send" /\ main'.size = size
      /\ main'.fits = (queued' <= Limit)
  BY DEF Offer
<1>3. Sending(main) = 0 /\ Sending(main') = size
  BY <1>2 DEF Loop, Sending
<1>4. SumSizes(writes) \in Nat /\ Hand(writer) \in Nat
  <2>1. writes \in Seq(Queued) /\ writer \in Writers
    BY DEF QInv, Types
  <2>2. Hand(writer) \in Nat
    BY <2>1, WriterParts
  <2>3. PICK f : SumSizes(writes) = f[Len(writes)] /\ \A n \in 0..Len(writes) : f[n] \in Nat
    BY <2>1, SumIs
  <2>4. Len(writes) \in 0..Len(writes)
    BY <2>1
  <2> QED
    BY <2>2, <2>3, <2>4
<1>5. queued' = SumSizes(writes) + Hand(writer) + size
  BY <1>1, <1>2, <1>3, <1>4
<1>6. queued' - size <= Limit
  BY <1>1, <1>2, <1>3
<1> QED
  BY <1>2, <1>3, <1>5, <1>6 DEF Counted

\* send has decided, or never began.
LEMMA CountedRests ==
    ASSUME QInv, UNCHANGED <<writes, writer>>, main'.at # "send",
           queued' = queued - Sending(main)
    PROVE  Counted(queued, writes, writer, main)'
<1>1. /\ queued \in Int /\ Limit \in Int /\ main \in Mains /\ writes \in Seq(Queued)
      /\ writer \in Writers
      /\ queued = SumSizes(writes) + Hand(writer) + Sending(main)
      /\ queued - Sending(main) <= Limit
  BY TerminalAssumption DEF QInv, Types, Counted
<1>2. Sending(main') = 0
  BY DEF Sending
<1>3. SumSizes(writes) \in Nat
  <2>3. PICK f : SumSizes(writes) = f[Len(writes)] /\ \A n \in 0..Len(writes) : f[n] \in Nat
    BY <1>1, SumIs
  <2>4. Len(writes) \in 0..Len(writes)
    BY <1>1
  <2> QED
    BY <2>3, <2>4
<1>4. Hand(writer) \in Nat /\ Sending(main) \in Nat
  BY <1>1, WriterParts, MainParts
<1>5. queued' = SumSizes(writes) + Hand(writer) /\ queued' <= Limit /\ queued' \in Int
  BY <1>1, <1>3, <1>4
<1> QED
  BY <1>2, <1>3, <1>4, <1>5 DEF Counted

LEMMA CountedKept == QInv /\ [Next]_vars => Counted(queued, writes, writer, main)'
<1> SUFFICES ASSUME QInv, [Next]_vars PROVE Counted(queued, writes, writer, main)'
  OBVIOUS
<1>1. CASE Environment \/ UNCHANGED vars
  BY <1>1, CountedSame
  DEF Environment, ChildReads, ChildPrints, ChildExits, HangUp, others, queues, vars
<1>2. CASE Reading
  BY <1>2, CountedSame
  DEF Reading, Read, ReadSends, ReadLeaves, ReadFails, Wait, ReadEnds, stays, queues
<1>3. CASE Key
  <2>1. PICK size \in Sizes : Offer(size, FALSE)
    BY <1>3 DEF Key
  <2>2. main = Loop /\ UNCHANGED <<writes, writer>>
    BY <1>3 DEF Key, rest
  <2> QED
    BY <2>1, <2>2, CountedOffers
<1>4. ASSUME main = Loop PROVE Sending(main) = 0 /\ main.at # "send"
  BY <1>4 DEF Loop, Sending
<1>0. queued \in Int /\ queued - 0 = queued
  BY DEF QInv, Types
<1>5. CASE Receive
  <2>1. main = Loop /\ UNCHANGED <<writes, writer>>
    BY <1>5 DEF Receive, rest
  <2>2. \/ \E size \in Sizes : Offer(size, TRUE)
        \/ UNCHANGED <<main, queued>>
        \/ Close(Head(events).what) /\ UNCHANGED queued
    BY <1>5 DEF Receive
  <2>3. CASE \E size \in Sizes : Offer(size, TRUE)
    BY <2>1, <2>3, CountedOffers
  <2>4. CASE UNCHANGED <<main, queued>>
    BY <2>1, <2>4, CountedSame
  <2>5. CASE Close(Head(events).what) /\ UNCHANGED queued
    <3>1. main'.at # "send" /\ queued' = queued - Sending(main)
      BY <1>0, <1>4, <2>1, <2>5 DEF Close, Loop
    <3> QED
      BY <2>1, <3>1, CountedRests
  <2> QED
    BY <2>2, <2>3, <2>4, <2>5
<1>6. CASE UserCloses
  <2>1. main = Loop /\ UNCHANGED <<writes, writer, queued>> /\ main'.at # "send"
    BY <1>6 DEF UserCloses, Close, Loop, rest
  <2>2. queued' = queued - Sending(main)
    BY <1>0, <1>4, <2>1
  <2> QED
    BY <2>1, <2>2, CountedRests
<1>7. CASE Refuse
  <2>1. /\ main.at = "send" /\ queued' = queued - main.size /\ UNCHANGED <<writes, writer>>
        /\ (\/ Close("refused") \/ main' = Loop)
    BY <1>7 DEF Refuse, rest
  <2>2. main'.at # "send"
    BY <2>1 DEF Close, Loop
  <2>3. Sending(main) = main.size
    BY <2>1 DEF Sending
  <2> QED
    BY <2>1, <2>2, <2>3, CountedRests
<1>8. /\ queued \in Int /\ Limit \in Int /\ main \in Mains /\ writes \in Seq(Queued)
      /\ writer \in Writers /\ accepted \in Nat
      /\ queued = SumSizes(writes) + Hand(writer) + Sending(main)
      /\ queued - Sending(main) <= Limit
      /\ (main.at = "send" /\ main.fits => queued <= Limit)
  BY TerminalAssumption DEF QInv, Types, Counted
<1>9. /\ main.size \in Nat /\ Sending(main) \in Nat /\ writer.size \in Nat /\ Hand(writer) \in Nat
  BY <1>8, MainParts, WriterParts
<1>10. CASE Accept
  <2> DEFINE c == [n |-> accepted + 1, size |-> main.size]
  <2>1. /\ main.at = "send" /\ main.fits /\ writes' = Append(writes, c) /\ main' = Loop
        /\ UNCHANGED <<queued, writer>>
    BY <1>10 DEF Accept
  <2>2. c.size = main.size /\ c \in Queued
    BY <1>8 DEF Queued, Mains
  <2> HIDE DEF c
  <2>3. SumSizes(writes') = SumSizes(writes) + main.size /\ SumSizes(writes) \in Nat
    BY <1>8, <2>1, <2>2, SumAppend
  <2>4. Sending(main) = main.size /\ Sending(main') = 0 /\ main'.at # "send" /\ queued <= Limit
    BY <1>8, <2>1 DEF Sending, Loop
  <2>5. queued = SumSizes(writes') + Hand(writer) /\ queued - 0 <= Limit
    BY <1>8, <1>9, <2>3, <2>4
  <2>6. queued = SumSizes(writes') + Hand(writer) + 0
    BY <1>8, <1>9, <2>3, <2>5
  <2> QED
    BY <2>1, <2>4, <2>5, <2>6 DEF Counted
<1>11. CASE Take
  <2>1. /\ writer.at = "select" /\ writes # <<>> /\ writes' = Tail(writes)
        /\ writer'.at = "write" /\ writer'.size = Head(writes).size
        /\ UNCHANGED <<queued, main>>
    BY <1>11 DEF Take, keeps
  <2>2. /\ SumSizes(writes) = Head(writes).size + SumSizes(Tail(writes))
        /\ Head(writes).size \in Nat /\ SumSizes(Tail(writes)) \in Int
    BY <1>8, <2>1, SumTail
  <2>3. Hand(writer) = 0 /\ Hand(writer') = Head(writes).size
    BY <2>1 DEF Hand
  <2>4. queued = SumSizes(writes') + Hand(writer') + Sending(main)
    BY <1>8, <1>9, <2>1, <2>2, <2>3
  <2> QED
    BY <1>8, <2>1, <2>4 DEF Counted
<1>12. CASE Write \/ WriteFails
  <2>1. /\ UNCHANGED <<queued, main, writes>> /\ writer'.size = writer.size
        /\ writer'.at \in {"wrote", "failed"} /\ writer.at = "write"
    BY <1>8, <1>12 DEF Write, WriteFails, keeps, queues, Writers
  <2>2. Hand(writer') = Hand(writer)
    BY <2>1 DEF Hand
  <2> QED
    BY <1>8, <2>1, <2>2 DEF Counted
<1>13. CASE Wrote
  <2>1. /\ UNCHANGED <<main, writes>> /\ queued' = queued - writer.size
        /\ writer'.at \in {"select", "fail"} /\ writer.at \in {"wrote", "failed"}
    BY <1>13 DEF Wrote, Idle, keeps
  <2>2. Hand(writer') = 0 /\ Hand(writer) = writer.size
    BY <2>1 DEF Hand
  <2>3. SumSizes(writes) \in Nat
    <3>1. PICK f : SumSizes(writes) = f[Len(writes)] /\ \A n \in 0..Len(writes) : f[n] \in Nat
      BY <1>8, SumIs
    <3>2. Len(writes) \in 0..Len(writes)
      BY <1>8
    <3> QED
      BY <3>1, <3>2
  <2>4. /\ queued' = SumSizes(writes) + 0 + Sending(main)
        /\ queued' - Sending(main) <= Limit /\ queued' <= queued /\ queued' \in Int
    <3>1. PICK a, b, c, d : a = SumSizes(writes) /\ b = writer.size /\ c = Sending(main) /\ d = queued'
      OBVIOUS
    <3>2. a \in Nat /\ b \in Nat /\ c \in Nat /\ queued \in Int /\ Limit \in Int
          /\ queued = a + b + c /\ queued - c <= Limit /\ d = queued - b
      BY <1>8, <1>9, <2>1, <2>2, <2>3, <3>1
    <3>3. d = a + 0 + c /\ d - c <= Limit /\ d <= queued /\ d \in Int
      BY <3>2
    <3> QED
      BY <3>1, <3>3
  <2>5. main.at = "send" /\ main.fits => queued' <= Limit
    BY <1>8, <2>4
  <2> QED
    BY <2>1, <2>2, <2>4, <2>5 DEF Counted
<1>14. CASE WriterEnds
  <2>1. /\ UNCHANGED <<queued, main, writes>> /\ writer.at \in {"fail", "select"}
        /\ writer'.at = "gone"
    BY <1>14 DEF WriterEnds, Idle, keeps, queues
  <2>2. Hand(writer') = Hand(writer)
    BY <2>1 DEF Hand
  <2> QED
    BY <1>8, <2>1, <2>2 DEF Counted
<1> QED
  BY <1>1, <1>2, <1>3, <1>5, <1>6, <1>7, <1>10, <1>11, <1>12, <1>13, <1>14
  DEF Next, Session, Writing

(* t.queued counts every byte that has been offered and is not in the PTY, *)
(* refused or lost with a failed write, exactly once, and the limit holds  *)
(* whenever no send is under way: interactiveTerminal.send and the         *)
(* writing goroutine (src/src/interactive_terminal.go), in any order.      *)
THEOREM QueueIsCounted == Spec => []QueuedIsWaiting
<1>1. Init => QInv
  <2> SUFFICES ASSUME Init PROVE QInv
    OBVIOUS
  <2>1. Types
    BY InitTypes
  <2>2. queued = 0 /\ writes = <<>> /\ Hand(writer) = 0 /\ Sending(main) = 0 /\ main.at # "send"
    BY DEF Init, Loop, Idle, Hand, Sending
  <2>3. 0 <= Limit
    BY TerminalAssumption
  <2> QED
    BY <2>1, <2>2, <2>3, SumNone DEF QInv, Counted
<1>2. QInv /\ [Next]_vars => QInv'
  BY TypesKept, CountedKept DEF QInv
<1>3. QInv => QueuedIsWaiting
  <2> SUFFICES ASSUME QInv PROVE QueuedIsWaiting
    OBVIOUS
  <2>1. /\ queued = SumSizes(writes) + Hand(writer) + Sending(main)
        /\ queued - Sending(main) <= Limit /\ queued \in Int
    BY DEF QInv, Counted, Types
  <2>2. main.at # "send" => queued <= Limit
    BY <2>1 DEF Sending
  <2> QED
    BY <2>1, <2>2 DEF QueuedIsWaiting, Hand, Sending
<1> QED
  BY <1>1, <1>2, <1>3, PTL DEF Spec

-----------------------------------------------------------------------------
(* What ClosedIsGone and ExitReported rest on: nobody waits for an end that *)
(* was lost, or for a child that was already waited for.                   *)

Posted(ev, what) == \E i \in 1..Len(ev) : ev[i].what = what

\* The reading goroutine has not given up while the shell is open, it has called
\* cmd.Wait if and only if the child is reaped, and a goroutine of an open shell
\* that has returned has left its last event on the channel.
EndsAreReported ==
    /\ reader.at = "leave" => Closed
    /\ reader.at \in {"end", "gone"} <=> child = "reaped"
    /\ ~Closed /\ reader.at = "gone" => Posted(events, "exit")
    /\ ~Closed /\ writer.at = "gone" => Posted(events, "input")

\* What stands on the channel stays there when something is put behind it, or
\* something else is taken off.
LEMMA PostedStays ==
    ASSUME NEW ev \in Seq(Events), NEW e \in Events, NEW what
    PROVE  /\ Append(ev, e) \in Seq(Events)
           /\ Posted(Append(ev, e), e.what)
           /\ Posted(ev, what) => Posted(Append(ev, e), what)
<1>1. /\ Len(ev) \in Nat /\ Len(Append(ev, e)) = Len(ev) + 1
      /\ \A i \in 1..Len(ev) : Append(ev, e)[i] = ev[i]
      /\ Append(ev, e)[Len(ev) + 1] = e
      /\ Append(ev, e) \in Seq(Events)
  OBVIOUS
<1> DEFINE a == Append(ev, e)
<1> HIDE DEF a
<1>2. Len(ev) + 1 \in 1..Len(a) /\ \A i \in 1..Len(ev) : i \in 1..Len(a)
  BY <1>1 DEF a
<1>3. Posted(a, e.what) /\ (Posted(ev, what) => Posted(a, what))
  BY <1>1, <1>2 DEF Posted, a
<1> QED
  BY <1>1, <1>3 DEF a

LEMMA PostedBehind ==
    ASSUME NEW ev \in Seq(Events), ev # <<>>, NEW what, Head(ev).what # what, Posted(ev, what)
    PROVE  Posted(Tail(ev), what)
<1>1. /\ Len(ev) \in Nat /\ Len(Tail(ev)) = Len(ev) - 1 /\ Head(ev) = ev[1]
      /\ \A i \in 1..Len(Tail(ev)) : Tail(ev)[i] = ev[i + 1]
  OBVIOUS
<1>2. PICK i \in 1..Len(ev) : ev[i].what = what
  BY DEF Posted
<1>3. i # 1
  BY <1>1, <1>2
<1> DEFINE t == Tail(ev)
<1> HIDE DEF t
<1>4. i - 1 \in 1..Len(t) /\ (i - 1) + 1 = i
  BY <1>1, <1>2, <1>3 DEF t
<1>5. t[i - 1] = ev[i]
  BY <1>1, <1>4 DEF t
<1>6. Posted(t, what)
  BY <1>2, <1>4, <1>5 DEF Posted
<1> QED
  BY <1>6 DEF t

LEMMA EndsKept == Types /\ EndsAreReported /\ [Next]_vars => EndsAreReported'
<1> SUFFICES ASSUME Types, EndsAreReported, [Next]_vars PROVE EndsAreReported'
  OBVIOUS
<1> USE DEF EndsAreReported, Closed
<1>1. events \in Seq(Events) /\ reader \in Readers /\ writer \in Writers
  BY DEF Types
<1>2. ASSUME UNCHANGED <<reader, writer, child, events>>, Closed => Closed' PROVE EndsAreReported'
  BY <1>2
<1>3. CASE Environment
  <2>1. UNCHANGED <<main, reader, writer, events>>
        /\ (child' = child \/ (child = "running" /\ child' = "exited"))
    BY <1>3 DEF Environment, ChildReads, ChildPrints, ChildExits, HangUp, others, queues
  <2> QED
    BY <2>1
<1>4. CASE Session
  <2>1. ~Closed /\ UNCHANGED <<reader, writer, child>>
    <3>1. main = Loop \/ main.at = "send"
      BY <1>4 DEF Session, Key, Receive, Accept, Refuse, UserCloses
    <3>2. Loop.at = "loop"
      BY DEF Loop
    <3>3. UNCHANGED rest \/ UNCHANGED <<reader, writer, pty>>
      BY <1>4 DEF Session, Key, Receive, Accept, Refuse, UserCloses
    <3> QED
      BY <3>1, <3>2, <3>3 DEF rest, pty
  <2>2. CASE Closed'
    BY <2>1, <2>2
  <2>3. CASE UNCHANGED events
    BY <1>2, <2>1, <2>3
  <2>4. CASE Receive /\ ~Closed'
    <3>1. events # <<>> /\ events' = Tail(events) /\ Head(events).what = "data"
      <4>1. events # <<>> /\ events' = Tail(events)
        BY <2>4 DEF Receive
      <4>2. CASE Head(events).what # "data"
        <5>1. main' = [Loop EXCEPT !.at = "closed"]
          BY <2>4, <4>2 DEF Receive, Close
        <5> QED
          BY <2>4, <5>1 DEF Loop
      <4> QED
        BY <4>1, <4>2
    <3>2. /\ Posted(events, "exit") => Posted(events', "exit")
          /\ Posted(events, "input") => Posted(events', "input")
      BY <1>1, <3>1, PostedBehind
    <3> QED
      BY <2>1, <2>4, <3>2
  <2>5. UNCHANGED events \/ Receive
    BY <1>4 DEF Session, Key, Accept, Refuse, UserCloses, rest
  <2> QED
    BY <2>2, <2>3, <2>4, <2>5
<1>5. ASSUME NEW what, NEW asks, Post(what, asks), [what |-> what, asks |-> asks] \in Events
      PROVE  /\ Posted(events', what)
             /\ Posted(events, "exit") => Posted(events', "exit")
             /\ Posted(events, "input") => Posted(events', "input")
  <2> DEFINE e == [what |-> what, asks |-> asks]
  <2>1. e \in Events /\ e.what = what /\ events' = Append(events, e)
    BY <1>5 DEF Post
  <2> HIDE DEF e
  <2> QED
    BY <1>1, <2>1, PostedStays
<1>6. CASE Reading
  <2>1. UNCHANGED <<main, writer>>
    BY <1>6 DEF Reading, Read, ReadSends, ReadLeaves, ReadFails, Wait, ReadEnds, stays
  <2>2. CASE Read
    BY <2>1, <2>2 DEF Read
  <2>3. CASE ReadSends
    <3>1. [what |-> "data", asks |-> reader.asks] \in Events
      BY <1>1 DEF Events, Data, Readers
    <3>2. /\ Posted(events, "exit") => Posted(events', "exit")
          /\ Posted(events, "input") => Posted(events', "input")
      BY <1>5, <2>3, <3>1 DEF ReadSends
    <3>3. reader.at = "send" /\ reader'.at = "read" /\ UNCHANGED child
      BY <2>3 DEF ReadSends, Reader
    <3> QED
      BY <2>1, <3>2, <3>3
  <2>4. CASE ReadLeaves
    BY <2>1, <2>4 DEF ReadLeaves, Reader
  <2>5. CASE ReadFails
    BY <2>1, <2>5 DEF ReadFails, Reader
  <2>6. CASE Wait
    <3>1. /\ reader.at \in {"leave", "wait"} /\ child' = "reaped" /\ UNCHANGED events
          /\ reader'.at = IF reader.at = "wait" THEN "end" ELSE "gone"
      BY <2>6 DEF Wait, Reader, stays
    <3> QED
      BY <2>1, <3>1
  <2>7. CASE ReadEnds
    <3>1. reader.at = "end" /\ reader'.at = "gone" /\ UNCHANGED child
      BY <2>7 DEF ReadEnds, Reader
    <3>2. CASE Closed /\ UNCHANGED events
      BY <2>1, <3>1, <3>2
    <3>3. CASE Post("exit", FALSE)
      <4>1. [what |-> "exit", asks |-> FALSE] \in Events
        BY DEF Events, Ends
      <4> QED
        BY <1>5, <2>1, <3>1, <3>3, <4>1
    <3> QED
      BY <2>7, <3>2, <3>3 DEF ReadEnds
  <2> QED
    BY <1>6, <2>2, <2>3, <2>4, <2>5, <2>6, <2>7 DEF Reading
<1>7. CASE Writing
  <2>1. UNCHANGED <<main, reader, child>>
    BY <1>7 DEF Writing, Take, Write, WriteFails, Wrote, WriterEnds, keeps
  <2>2. CASE Take \/ Write \/ WriteFails \/ Wrote
    <3>1. UNCHANGED events /\ writer'.at # "gone"
      BY <1>1, <2>2 DEF Take, Write, WriteFails, Wrote, Idle, Writers
    <3> QED
      BY <2>1, <3>1
  <2>3. CASE WriterEnds
    <3>1. CASE Closed /\ UNCHANGED events
      BY <2>1, <3>1
    <3>2. CASE Post("input", FALSE)
      <4>1. [what |-> "input", asks |-> FALSE] \in Events
        BY DEF Events, Ends
      <4> QED
        BY <1>5, <2>1, <3>2, <4>1
    <3> QED
      BY <2>3, <3>1, <3>2 DEF WriterEnds
  <2> QED
    BY <1>7, <2>2, <2>3 DEF Writing
<1>8. CASE UNCHANGED vars
  BY <1>2, <1>8 DEF vars, queues, pty
<1> QED
  BY <1>3, <1>4, <1>6, <1>7, <1>8 DEF Next

(* A goroutine of an open shell ends only behind an event on the channel   *)
(* that closes the shell, also when the other one has filled the channel;  *)
(* cmd.Wait (src/src/interactive_terminal.go) is called once, so that the   *)
(* reading goroutine never waits for a child that is reaped.               *)
THEOREM EndsReachTheChannel == Spec => []EndsAreReported
<1>1. Init => EndsAreReported
  BY DEF Init, EndsAreReported, Closed, Loop, Idle
<1>2. Init => Types
  BY InitTypes
<1>3. Types /\ [Next]_vars => Types'
  BY TypesKept
<1> QED
  BY <1>1, <1>2, <1>3, EndsKept, PTL DEF Spec
=============================================================================
