---------------------------- MODULE SessionProofs ------------------------------
(***************************************************************************)
(* What a session keeps true, for any number of sessions, on every way     *)
(* out.  The invariant ties everything to how much of the session is       *)
(* built, which is what its stack of deferred calls says: at level n the   *)
(* calls of the first n parts are on the stack (without the archive's when *)
(* there is none), a part is open and its goroutines may run only if its   *)
(* call is there.                                                          *)
(***************************************************************************)
EXTENDS Session, TLAPS

Levels == 0..9

Base == IF archived THEN <<"database", "cancel">> ELSE <<"cancel">>

Stack(n) ==
    CASE n = 0 -> <<>>
      [] n = 1 -> <<"cancel">>
      [] n = 2 -> Base
      [] n = 3 -> <<"api">> \o Base
      [] n = 4 -> <<"recording", "api">> \o Base
      [] n = 5 -> <<"workers", "recording", "api">> \o Base
      [] n = 6 -> <<"pod", "workers", "recording", "api">> \o Base
      [] n = 7 -> <<"shell", "pod", "workers", "recording", "api">> \o Base
      [] n = 8 -> <<"viewers", "shell", "pod", "workers", "recording", "api">> \o Base
      [] n = 9 -> <<"reader", "viewers", "shell", "pod", "workers", "recording", "api">>
                     \o Base

Call(n) ==
    CASE n = 1 -> "cancel"    [] n = 2 -> "database" [] n = 3 -> "api"
      [] n = 4 -> "recording" [] n = 5 -> "workers"  [] n = 6 -> "pod"
      [] n = 7 -> "shell"     [] n = 8 -> "viewers"  [] n = 9 -> "reader"

\* An archive that is not kept has no level of its own.
Below(n) == IF n = 3 /\ ~archived THEN 1 ELSE n - 1

Types ==
    /\ collect \in BOOLEAN /\ archived \in BOOLEAN /\ recording \in BOOLEAN
    /\ failed \in BOOLEAN /\ shell \in BOOLEAN
    /\ tasks \subseteq Tasks /\ services \subseteq {"database", "api"}
    /\ ctx \in {"live", "SIGTERM", "cancel"}

\* Where the main goroutine is says how much is built, until it leaves.
Reached(n) ==
    /\ defers = Stack(n)
    /\ n = 2 => archived
    /\ at \in {"config", "closing", "exited"} => n = 0
    /\ at = "archive" => n = 1
    /\ at = "api" => n = IF archived THEN 2 ELSE 1
    /\ at = "recording" => n = 3
    /\ at \in {"terminal", "collect"} => n = 4
    /\ at \in {"loop", "joining", "child"} => n = 9

\* What runs or is open has its call on the stack.
Owned(n) ==
    /\ "reader" \in tasks => n = 9
    /\ "stream" \in tasks => n >= 8
    /\ shell => n >= 7
    /\ "pod" \in tasks \/ "refresh" \in tasks => n >= 5
    /\ "page" \in tasks => n >= 5 \/ ctx # "live"
    /\ "collector" \in tasks => n >= 4 /\ archived
    /\ "api" \in services <=> n >= 3
    /\ "database" \in services <=> n >= 2 /\ archived
    /\ ctx = "cancel" => n <= 5 /\ at \in {"leaving", "closing", "exited"}

Level(n) == Reached(n) /\ Owned(n)

\* The terminal changes hands only between its users.
Screen ==
    /\ at = "child" => screen = "child" /\ "reader" \notin tasks
    /\ Animated => ~collect /\ at \notin {"loop", "joining", "child", "collect"}
    /\ at \in {"terminal", "loop", "joining", "child"} => ~collect
    /\ at \in {"loop", "joining"} => screen = "app"
    /\ at = "exited" => screen = "tty" /\ ~Animated

Ledger ==
    /\ at \in {"joining", "child"} => ~shell
    /\ ledger = "started" => archived /\ (shell \/ at = "child")
    /\ ledger = "lost" => ctx = "SIGTERM" \/ failed

Built == Types /\ (\E n \in Levels : Level(n)) /\ Screen /\ Ledger

\* What nobody waits for belongs to an open shell or to the session, or has been
\* told to stop.
Behind ==
    /\ "left" \in tasks => "left" \in told
    /\ "pump" \in tasks => shell
    /\ "page" \in tasks => at \in {"loop", "joining", "child", "leaving"}

IInv == Built /\ Behind

-----------------------------------------------------------------------------
(* The stack.                                                              *)

LEMMA StackEnds ==
    ASSUME archived \in BOOLEAN, NEW n \in Levels, n # 0, n = 2 => archived
    PROVE  /\ Stack(n) # <<>> /\ Head(Stack(n)) = Call(n)
           /\ Below(n) \in Levels /\ Tail(Stack(n)) = Stack(Below(n))
<1>1. CASE n = 1
  BY <1>1 DEF Stack, Call, Below, Levels
<1>2. CASE n = 2
  BY <1>2 DEF Stack, Call, Below, Levels, Base
<1>3. CASE n = 3
  <2>1. Stack(n) = <<"api">> \o Base /\ Call(n) = "api"
    BY <1>3 DEF Stack, Call
  <2>2. Stack(Below(n)) = Base /\ Below(n) \in Levels
    <3>1. CASE archived
      BY <1>3, <3>1 DEF Stack, Below, Levels
    <3>2. CASE ~archived
      <4>1. Below(n) = 1
        BY <1>3, <3>2 DEF Below
      <4> QED
        BY <3>2, <4>1 DEF Stack, Base, Levels
    <3> QED
      BY <3>1, <3>2
  <2> DEFINE Calls == {"cancel", "database", "api"}
  <2>3. Base \in Seq(Calls)
    <3>1. "cancel" \in Calls /\ "database" \in Calls
      OBVIOUS
    <3> HIDE DEF Calls
    <3>2. <<"cancel">> \in Seq(Calls)
      BY <3>1
    <3>3. <<"database", "cancel">> \in Seq(Calls)
      BY <3>1
    <3> QED
      BY <3>2, <3>3 DEF Base
  <2>4. /\ <<"api">> \o Base # <<>> /\ Head(<<"api">> \o Base) = "api"
        /\ Tail(<<"api">> \o Base) = Base
    <3> HIDE DEF Calls
    <3>1. "api" \in Calls
      BY DEF Calls
    <3> QED
      BY <2>3, <3>1
  <2> QED
    BY <2>1, <2>2, <2>4
<1>4. CASE n = 4
  BY <1>4 DEF Stack, Call, Below, Levels, Base
<1>5. CASE n = 5
  BY <1>5 DEF Stack, Call, Below, Levels, Base
<1>6. CASE n = 6
  BY <1>6 DEF Stack, Call, Below, Levels, Base
<1>7. CASE n = 7
  BY <1>7 DEF Stack, Call, Below, Levels, Base
<1>8. CASE n = 8
  BY <1>8 DEF Stack, Call, Below, Levels, Base
<1>9. CASE n = 9
  BY <1>9 DEF Stack, Call, Below, Levels, Base
<1> QED
  BY <1>1, <1>2, <1>3, <1>4, <1>5, <1>6, <1>7, <1>8, <1>9 DEF Levels

\* What the parts push takes the stack to their level.
LEMMA StackGrows ==
    ASSUME archived \in BOOLEAN
    PROVE  /\ <<"cancel">> \o Stack(0) = Stack(1)
           /\ archived => <<"database">> \o Stack(1) = Stack(2)
           /\ <<"api">> \o Stack(IF archived THEN 2 ELSE 1) = Stack(3)
           /\ <<"recording">> \o Stack(3) = Stack(4)
           /\ Deferred \o Stack(4) = Stack(9)
BY DEF Stack, Base, Deferred

-----------------------------------------------------------------------------
(* Building a session.                                                     *)

LEMMA InitHolds == Init => IInv
<1> SUFFICES ASSUME Init PROVE IInv
  OBVIOUS
<1>1. Level(0)
  BY DEF Init, Level, Reached, Owned, Stack
<1>2. Types
  BY DEF Init, Types, Tasks
<1>3. Screen /\ Ledger
  BY DEF Init, Screen, Ledger, Animated
<1>4. Behind
  BY DEF Init, Behind
<1> QED
  BY <1>1, <1>2, <1>3, <1>4 DEF IInv, Built, Levels

LEMMA StartupKeeps == IInv /\ Startup => Built'
<1> SUFFICES ASSUME IInv, Startup PROVE Built'
  OBVIOUS
<1> USE DEF Types, Screen, Ledger, Animated, Tasks, Users, Workers, Strays
<1>1. PICK n \in Levels : Level(n)
  BY DEF IInv, Built
<1>2. UNCHANGED <<archived, collect, failed, shell, ctx, ledger>>
  BY DEF Startup, Configure, OpenArchive, startAPI, StartRecording, Dashboard
<1>3. \A m \in Levels : Stack(m)' = Stack(m)
  BY <1>2 DEF Stack, Base
<1>4. Types /\ Screen /\ Ledger
  BY DEF IInv, Built
<1>5. ASSUME Leave("error"), UNCHANGED <<tasks, services, screen, defers, recording>>
      PROVE  Built'
  <2>1. Level(n)'
    BY <1>1, <1>2, <1>3, <1>5 DEF Leave, Level, Reached, Owned
  <2>2. Types'
    BY <1>2, <1>4, <1>5
  <2>3. Screen'
    BY <1>2, <1>4, <1>5 DEF Leave
  <2>4. Ledger'
    <3>1. at # "child"
      BY DEF Startup, Configure, OpenArchive, startAPI, StartRecording, Dashboard
    <3> QED
      BY <1>2, <1>4, <1>5, <3>1 DEF Leave
  <2> QED
    BY <2>1, <2>2, <2>3, <2>4 DEF IInv, Built
<1>6. CASE Configure
  <2>1. CASE Leave("error") /\ UNCHANGED defers
    BY <1>5, <1>6, <2>1 DEF Configure
  <2>2. CASE at' = "archive" /\ Push(<<"cancel">>)
    <3>1. n = 0
      BY <1>1, <1>6 DEF Configure, Level, Reached
    <3>2. defers' = Stack(1)'
      <4>1. defers = Stack(0) /\ Stack(1)' = Stack(1)
        BY <1>1, <1>3, <3>1 DEF Level, Reached, Levels
      <4>2. <<"cancel">> \o Stack(0) = Stack(1)
        BY <1>4, StackGrows
      <4> QED
        BY <2>2, <4>1, <4>2 DEF Push
    <3>3. Reached(1)'
      BY <2>2, <3>2 DEF Reached
    <3>4. Owned(1)'
      BY <1>1, <1>2, <1>6, <2>2, <3>1 DEF Configure, Level, Owned
    <3> QED
      BY <1>2, <1>4, <1>6, <2>2, <3>3, <3>4 DEF Configure, IInv, Built, Level, Levels
  <2> QED
    BY <1>6, <2>1, <2>2 DEF Configure
<1>7. CASE OpenArchive
  <2>1. n = 1
    BY <1>1, <1>7 DEF OpenArchive, Level, Reached
  <2>2. CASE Leave("error") /\ UNCHANGED <<services, defers>>
    BY <1>5, <1>7, <2>2 DEF OpenArchive
  <2>3. CASE archived /\ services' = services \cup {"database"} /\ Push(<<"database">>)
             /\ at' = "api"
    <3>1. defers' = Stack(2)'
      BY <1>1, <1>2, <1>4, <2>1, <2>3, StackGrows DEF Push, Level, Reached, Stack, Base
    <3>2. Reached(2)'
      BY <1>2, <2>3, <3>1 DEF Reached
    <3>3. Owned(2)'
      BY <1>1, <1>2, <1>4, <1>7, <2>1, <2>3 DEF OpenArchive, Level, Owned
    <3>4. Level(2)'
      BY <3>2, <3>3 DEF Level
    <3> QED
      BY <1>2, <1>4, <1>7, <2>3, <3>4 DEF OpenArchive, IInv, Built, Levels
  <2>4. CASE ~archived /\ at' = "api" /\ UNCHANGED <<services, defers, result>>
    <3>1. Level(1)'
      BY <1>1, <1>2, <1>3, <1>4, <1>7, <2>1, <2>4
      DEF OpenArchive, Level, Reached, Owned, Levels
    <3> QED
      BY <1>2, <1>4, <1>7, <2>4, <3>1 DEF OpenArchive, IInv, Built, Levels
  <2> QED
    BY <1>7, <2>2, <2>3, <2>4 DEF OpenArchive
<1>8. CASE startAPI
  <2>1. n = IF archived THEN 2 ELSE 1
    BY <1>1, <1>8 DEF startAPI, Level, Reached
  <2>2. CASE Leave("error") /\ UNCHANGED <<services, defers>>
    BY <1>5, <1>8, <2>2 DEF startAPI
  <2>3. CASE services' = services \cup {"api"} /\ Push(<<"api">>) /\ at' = "recording"
    <3>1. defers' = Stack(3)'
      <4>1. defers = Stack(n) /\ Stack(3)' = Stack(3)
        BY <1>1, <1>3 DEF Level, Reached, Levels
      <4>2. <<"api">> \o Stack(n) = Stack(3)
        BY <1>4, <2>1, StackGrows
      <4> QED
        BY <2>3, <4>1, <4>2 DEF Push
    <3>2. Level(3)'
      BY <1>1, <1>2, <1>4, <1>8, <2>1, <2>3, <3>1
      DEF startAPI, Level, Reached, Owned, Levels
    <3> QED
      BY <1>2, <1>4, <1>8, <2>3, <3>2 DEF startAPI, IInv, Built, Levels
  <2> QED
    BY <1>8, <2>2, <2>3 DEF startAPI
<1>9. CASE StartRecording
  <2>1. n = 3
    BY <1>1, <1>9 DEF StartRecording, Level, Reached
  <2>2. CASE Leave("error") /\ UNCHANGED <<recording, tasks, told, defers>>
    BY <1>5, <1>9, <2>2 DEF StartRecording
  <2>3. CASE Push(<<"recording">>)
             /\ IF archived THEN startCollector ELSE UNCHANGED <<recording, tasks, told>>
    <3>1. tasks' = tasks \/ (archived /\ tasks' = tasks \cup {"collector"})
      BY <2>3 DEF startCollector, Start
    <3>2. recording' \in BOOLEAN
      BY <1>4, <2>3 DEF startCollector
    <3>3. defers' = Stack(4)'
      BY <1>1, <1>2, <1>4, <2>1, <2>3, StackGrows DEF Push, Level, Reached, Stack, Base
    <3>4. at' \in {"terminal", "collect", "leaving"} /\ (at' = "terminal" => ~collect)
          /\ (at' = "collect" => collect)
      BY <1>9 DEF StartRecording, Leave
    <3>5. UNCHANGED <<services, screen>>
      BY <1>9 DEF StartRecording
    <3>6. Level(4)'
      BY <1>1, <1>2, <1>4, <1>9, <2>1, <3>1, <3>3, <3>4, <3>5
      DEF StartRecording, Level, Reached, Owned, Levels
    <3>7. at = "recording" /\ UNCHANGED <<archived, collect, failed, shell, ctx, ledger>>
      BY <1>2, <1>9 DEF StartRecording
    <3>8. Types'
      BY <1>4, <3>1, <3>2, <3>5, <3>7
    <3>9. Screen'
      BY <1>4, <3>1, <3>4, <3>5, <3>7
    <3>10. Ledger'
      BY <1>4, <3>4, <3>7
    <3> QED
      BY <3>6, <3>8, <3>9, <3>10 DEF IInv, Built, Levels
  <2> QED
    BY <1>9, <2>2, <2>3 DEF StartRecording
<1>10. CASE Dashboard
  <2>1. n = 4
    BY <1>1, <1>10 DEF Dashboard, Level, Reached
  <2>2. CASE Leave("error") /\ UNCHANGED <<tasks, told, defers, screen>>
    BY <1>5, <1>10, <2>2 DEF Dashboard
  <2>3. CASE /\ TakeScreen /\ Push(Deferred)
             /\ tasks' = tasks \cup {"reader", "refresh"} /\ at' = "loop"
    <3>1. defers' = Stack(9)'
      BY <1>1, <1>2, <1>4, <2>1, <2>3, StackGrows DEF Push, Level, Reached, Stack, Base
    <3>2. UNCHANGED <<services, recording>>
      BY <1>10 DEF Dashboard
    <3>3. Level(9)'
      BY <1>1, <1>2, <1>4, <1>10, <2>1, <2>3, <3>1, <3>2
      DEF Dashboard, Level, Reached, Owned, Levels
    <3> QED
      BY <1>2, <1>4, <1>10, <2>3, <3>2, <3>3 DEF Dashboard, TakeScreen, IInv, Built, Levels
  <2> QED
    BY <1>10, <2>2, <2>3 DEF Dashboard
<1> QED
  BY <1>6, <1>7, <1>8, <1>9, <1>10 DEF Startup

-----------------------------------------------------------------------------
(* The loop, where everything is built.                                    *)

\* What an add may answer, and what it leaves in the ledger.
LEMMA Recorded ==
    ASSUME Types, Ledger,
           recordEnded \/ recordStarted,
           ctx # "cancel"
    PROVE  /\ ledger' = "lost" => ctx = "SIGTERM" \/ failed
           /\ ledger' = "started" => archived
           /\ recordEnded => ledger' # "started"
<1> QED
  BY DEF recordEnded, recordStarted, Accepts, Types, Ledger

LEMMA LoopKeeps ==
    ASSUME IInv, Loop \/ Paint \/ Done \/ StartChild \/ CollectTick
    PROVE  Built'
<1> USE DEF Types, Screen, Animated, Tasks, Users, Workers, Strays
<1>1. PICK n \in Levels : Level(n)
  BY DEF IInv, Built
<1>2. Types /\ Screen /\ Ledger
  BY DEF IInv, Built
<1>3. UNCHANGED <<archived, collect, ctx, services, failed, defers>>
  BY DEF Loop, Work, TakeOver, Key, OpenShell, CloseShell, StopReader, ChildEnds, Quit, Switch,
         Paint, Done, StartChild, CollectTick
<1>4. \A m \in Levels : Stack(m)' = Stack(m)
  BY <1>3 DEF Stack, Base
<1>5. at \in {"loop", "joining", "child", "collect"}
  BY DEF Loop, Work, TakeOver, Key, OpenShell, CloseShell, StopReader, ChildEnds, Quit, Switch,
         Paint, Done, StartChild, CollectTick
<1>6. n >= 4 /\ n \in Nat /\ (at # "collect" => n = 9)
  BY <1>1, <1>5 DEF Level, Reached, Levels
<1>7. ctx # "cancel"
  BY <1>1, <1>5 DEF Level, Owned
\* A step that stays at its level: what it starts must be below that.
<1>8. ASSUME at' \in {at, "leaving"} \/ (n = 9 /\ at' \in {"loop", "joining", "child"}),
             tasks' \subseteq tasks \/ n = 9,
             \/ "collector" \notin tasks' \ tasks
             \/ archived,
             tasks' \subseteq Tasks,
             shell' => shell \/ n = 9
      PROVE  Level(n)'
  BY <1>1, <1>3, <1>4, <1>6, <1>7, <1>8 DEF Level, Reached, Owned, Levels
<1>9. ASSUME NEW t, Work(t) PROVE Built'
  <2>1. Level(n)'
    BY <1>2, <1>6, <1>8, <1>9 DEF Work, Start
  <2> QED
    BY <1>2, <1>3, <1>9, <2>1 DEF Work, Start, Built, Ledger
<1>10. CASE TakeOver
  <2>1. tasks' \in {tasks, tasks \cup {"collector"}} /\ recording' \in BOOLEAN
    BY <1>2, <1>10 DEF TakeOver, startCollector, Start
  <2>2. UNCHANGED <<at, shell, ledger, screen>> /\ archived /\ at = "loop"
    BY <1>10 DEF TakeOver
  <2>3. Level(n)'
    BY <1>2, <1>6, <1>8, <2>1, <2>2
  <2> QED
    BY <1>2, <1>3, <2>1, <2>2, <2>3 DEF IInv, Built, Ledger
<1>11. CASE OpenShell \/ CloseShell
  <2>1. /\ at = "loop" /\ shell' \in BOOLEAN /\ UNCHANGED <<at, screen, recording>>
        /\ tasks' \subseteq tasks \cup {"pump", "left"}
    BY <1>11 DEF OpenShell, CloseShell, closeShell, Start, LeaveBehind
  <2>2. Level(n)'
    BY <1>2, <1>6, <1>8, <2>1
  <2>3. Ledger'
    <3>1. CASE OpenShell
      BY <1>2, <1>3, <1>7, <2>1, <3>1, Recorded DEF OpenShell, Ledger
    <3>2. CASE CloseShell
      BY <1>2, <1>3, <1>7, <2>1, <3>2, Recorded DEF CloseShell, closeShell, Ledger
    <3> QED
      BY <1>11, <3>1, <3>2
  <2> QED
    BY <1>2, <1>3, <2>1, <2>2, <2>3 DEF IInv, Built
<1>12. CASE StopReader
  <2>1. Level(n)'
    BY <1>2, <1>6, <1>8, <1>12 DEF StopReader
  <2> QED
    BY <1>2, <1>3, <1>12, <2>1 DEF StopReader, Built, Ledger
<1>13. CASE StartChild
  <2>1. /\ at = "joining" /\ "reader" \notin tasks /\ UNCHANGED <<tasks, shell, recording>>
        /\ \/ at' = "child" /\ screen' = "child" /\ recordStarted
           \/ at' = "leaving" /\ UNCHANGED ledger
    BY <1>13 DEF StartChild, ReaderGone, Leave
  <2>2. Level(n)'
    BY <1>2, <1>6, <1>8, <2>1
  <2>3. Ledger'
    BY <1>2, <1>3, <1>7, <2>1, Recorded DEF Ledger
  <2> QED
    BY <1>2, <1>3, <2>1, <2>2, <2>3 DEF IInv, Built
<1>14. CASE ChildEnds
  <2>1. /\ at = "child" /\ recordEnded /\ UNCHANGED <<shell, recording>>
        /\ \/ at' = "loop" /\ screen' = "app" /\ tasks' = tasks \cup {"reader"}
           \/ at' = "leaving" /\ UNCHANGED <<tasks, screen>>
    BY <1>14 DEF ChildEnds, Leave, Start
  <2>2. Level(n)'
    BY <1>2, <1>6, <1>8, <2>1
  <2>3. Ledger'
    BY <1>2, <1>3, <1>7, <2>1, Recorded DEF Ledger
  <2> QED
    BY <1>2, <1>3, <2>1, <2>2, <2>3 DEF IInv, Built
<1>15. CASE Quit \/ Done \/ CollectTick
  <2>1. at' = "leaving" /\ at # "child" /\ UNCHANGED <<tasks, shell, ledger, screen, recording>>
    BY <1>15 DEF Quit, Done, CollectTick, Leave
  <2>2. Level(n)'
    BY <1>2, <1>6, <1>8, <2>1
  <2> QED
    BY <1>2, <1>3, <2>1, <2>2 DEF IInv, Built, Ledger
<1>16. CASE Switch
  <2>1. /\ at = "loop" /\ at' = "leaving" /\ tasks' = tasks \cup {"spinner"}
        /\ UNCHANGED <<shell, ledger, screen, recording>>
    BY <1>16 DEF Switch, Leave, Start
  <2>2. Level(n)'
    BY <1>2, <1>6, <1>8, <2>1
  <2> QED
    BY <1>2, <1>3, <2>1, <2>2 DEF IInv, Built, Ledger
<1>17. CASE Paint \/ Key
  <2>1. UNCHANGED <<at, tasks, shell, ledger, screen, recording>>
    BY <1>17 DEF Paint, Key
  <2>2. Level(n)'
    BY <1>2, <1>6, <1>8, <2>1
  <2> QED
    BY <1>2, <1>3, <2>1, <2>2 DEF IInv, Built, Ledger
<1> QED
  BY <1>9, <1>10, <1>11, <1>12, <1>13, <1>14, <1>15, <1>16, <1>17 DEF Loop

-----------------------------------------------------------------------------
(* Leaving: the calls in the opposite order.                               *)

LEMMA FinishKeeps ==
    ASSUME IInv, Finish
    PROVE  Built'
<1> USE DEF Types, Tasks, Users, Workers, Strays
<1>1. PICK n \in Levels : Level(n)
  BY DEF IInv, Built
<1>2. Types /\ Screen /\ Ledger
  BY DEF IInv, Built
<1>3. /\ at = "leaving" /\ defers # <<>>
      /\ UNCHANGED <<at, collect, archived, ctx, recording, failed, screen>>
      /\ tasks' \subseteq tasks \cup {"left"}
  BY DEF Finish, closeShell, LeaveBehind
<1>4. n # 0 /\ n \in Nat /\ (n = 2 => archived)
  BY <1>1, <1>3 DEF Level, Reached, Levels, Stack
<1>5. Head(defers) = Call(n) /\ Below(n) \in Levels /\ defers' = Stack(Below(n))
  BY <1>1, <1>2, <1>4, StackEnds DEF Level, Reached, Finish
<1>6. Stack(Below(n)) = Stack(Below(n))'
  BY <1>3 DEF Stack, Base, Below
<1>7. Joins(Call(n)) \cap tasks = {} /\ (Call(n) = "workers" => ctx # "live")
  BY <1>5 DEF Finish, CancelsFirst
<1>8. /\ services' = services \ {Call(n)}
      /\ shell' = IF Call(n) = "shell" THEN FALSE ELSE shell
      /\ IF Call(n) = "shell" /\ shell THEN recordEnded ELSE UNCHANGED ledger
  BY <1>2, <1>5 DEF Finish, closeShell
<1>9. Reached(Below(n))'
  BY <1>1, <1>3, <1>4, <1>5, <1>6 DEF Level, Reached, Below, Levels
<1>10. Owned(Below(n))'
  <2>1. n = 9 => "reader" \notin tasks
    BY <1>7 DEF Call, Joins, Tells
  <2>2. n = 8 => "stream" \notin tasks
    BY <1>7 DEF Call, Joins, Tells
  <2>3. n = 5 => tasks \cap Workers = {}
    BY <1>7 DEF Call, Joins, Tells
  <2>4. n = 4 => "collector" \notin tasks
    BY <1>7 DEF Call, Joins, Tells
  <2>5. n >= 7 => Below(n) >= 7 \/ ~shell'
    BY <1>4, <1>8 DEF Call, Below
  <2>6. shell' => shell
    BY <1>8
  <2>7. "api" \in services' <=> Below(n) >= 3
    BY <1>1, <1>4, <1>8 DEF Level, Owned, Below, Call, Levels
  <2>8. "database" \in services' <=> Below(n) >= 2 /\ archived
    BY <1>1, <1>4, <1>8 DEF Level, Owned, Below, Call, Levels
  <2>9. Below(n) <= n /\ (n # 3 => Below(n) = n - 1) /\ Below(n) \in Int
    BY <1>4 DEF Below
  <2> DEFINE m == Below(n)
  <2>10. Owned(n)
    BY <1>1 DEF Level
  <2>11. m <= n /\ (n # 3 => m = n - 1) /\ m \in Int /\ n \in Int
    BY <1>4, <2>9
  <2> HIDE DEF m
  <2>18. n = 5 => ctx # "live"
    BY <1>7 DEF Call
  <2>12. /\ "reader" \in tasks' => m = 9
         /\ "stream" \in tasks' => m >= 8
    BY <1>3, <2>1, <2>2, <2>10, <2>11 DEF Owned
  <2>13. /\ "pod" \in tasks' \/ "refresh" \in tasks' => m >= 5
         /\ "page" \in tasks' => m >= 5 \/ ctx' # "live"
         /\ "collector" \in tasks' => m >= 4 /\ archived
    BY <1>3, <2>3, <2>4, <2>10, <2>11, <2>18 DEF Owned
  <2>14. ctx' = "cancel" => m <= 5 /\ at = "leaving"
    BY <1>3, <2>10, <2>11 DEF Owned
  <2>15. shell' => m >= 7
    BY <2>5, <2>6, <2>10, <2>11 DEF Owned, m
  <2>16. Below(n)' = m
    BY <1>3 DEF Below, m
  <2>17. /\ "api" \in services' <=> m >= 3
         /\ "database" \in services' <=> m >= 2 /\ archived
    BY <2>7, <2>8 DEF m
  <2> QED
    BY <1>3, <2>12, <2>13, <2>14, <2>15, <2>16, <2>17 DEF Owned
<1>11. Ledger'
  <2>1. CASE Call(n) = "shell" /\ shell
    <3>1. n = 7
      BY <1>4, <2>1 DEF Call, Levels
    <3>2. ctx # "cancel"
      BY <1>1, <3>1 DEF Level, Owned
    <3> QED
      BY <1>2, <1>3, <1>8, <2>1, <3>2, Recorded DEF Ledger
  <2>2. CASE ~(Call(n) = "shell" /\ shell)
    BY <1>2, <1>3, <1>8, <2>2 DEF Ledger
  <2> QED
    BY <2>1, <2>2
<1>12. Types' /\ Screen'
  BY <1>2, <1>3, <1>8 DEF Screen, Animated
<1> QED
  <2>1. Below(n)' = Below(n)
    BY <1>3 DEF Below
  <2>2. Level(Below(n))'
    BY <1>9, <1>10 DEF Level
  <2> QED
    BY <1>5, <1>11, <1>12, <2>1, <2>2 DEF IInv, Built

LEMMA UnwindKeeps ==
    ASSUME IInv, Unwind
    PROVE  Built'
<1> USE DEF Types, Screen, Ledger, Animated, Tasks, Users, Workers, Strays
<1>1. PICK n \in Levels : Level(n)
  BY DEF IInv, Built
<1>2. Types /\ Screen /\ Ledger
  BY DEF IInv, Built
<1>3. CASE Finish
  BY <1>3, FinishKeeps
<1>4. UNCHANGED archived
  BY DEF Unwind, Finish, Tell, Return, StopSwitching, CloseTerminal
<1>5. \A m \in Levels : Stack(m)' = Stack(m)
  BY <1>4 DEF Stack, Base
<1>6. CASE Tell
  <2>1. /\ at = "leaving" /\ defers # <<>>
        /\ UNCHANGED <<at, collect, tasks, services, recording, failed, shell, ledger, screen,
                       defers>>
        /\ ctx' = ctx \/ (ctx' = "cancel" /\ ctx = "live" /\ Head(defers) = "workers")
    BY <1>6 DEF Tell, CancelsFirst
  <2>2. n # 0 /\ (n = 2 => archived) /\ n \in Nat
    BY <1>1, <2>1 DEF Level, Reached, Levels, Stack
  <2>3. Head(defers) = Call(n)
    BY <1>1, <1>2, <2>2, StackEnds DEF Level, Reached
  <2>4. Head(defers) = "workers" => n = 5
    BY <2>2, <2>3 DEF Call, Levels
  <2>5. Level(n)'
    BY <1>1, <1>4, <1>5, <2>1, <2>2, <2>4 DEF Level, Reached, Owned, Levels
  <2> QED
    BY <1>2, <1>4, <2>1, <2>5 DEF IInv, Built
<1>7. CASE Return
  <2>1. /\ at = "leaving" /\ defers = <<>>
        /\ UNCHANGED <<collect, defers, services, shell, screen>>
        /\ tasks' \subseteq (tasks \cup {"left"}) \ {"page"}
    BY <1>7 DEF Return, LeaveBehind
  <2>2. n = 0
    BY <1>1, <1>2, <2>1, StackEnds DEF Level, Reached
  <2>3. \/ /\ at' = "config" /\ ctx' = "live" /\ ledger' = "none"
           /\ recording' = FALSE /\ failed' = FALSE
        \/ at' = "closing" /\ UNCHANGED <<ctx, ledger, recording, failed>>
    BY <1>7 DEF Return
  <2>4. Level(0)'
    BY <1>1, <1>4, <1>5, <2>1, <2>2, <2>3 DEF Level, Reached, Owned, Levels
  <2>5. Types' /\ Screen' /\ Ledger'
    BY <1>2, <1>4, <2>1, <2>2, <2>3, <1>1 DEF Level, Owned
  <2> QED
    BY <2>4, <2>5 DEF IInv, Built, Levels
<1>8. CASE StopSwitching
  <2>1. UNCHANGED <<at, collect, defers, tasks, ctx, services, recording, failed, shell, ledger,
                    screen>>
    BY <1>8 DEF StopSwitching
  <2>2. Level(n)'
    BY <1>1, <1>4, <1>5, <2>1 DEF Level, Reached, Owned, Levels
  <2> QED
    BY <1>2, <1>4, <2>1, <2>2 DEF IInv, Built
<1>9. CASE CloseTerminal
  <2>1. /\ at = "closing" /\ ~Animated /\ at' = "exited" /\ screen' = "tty"
        /\ UNCHANGED <<collect, defers, tasks, ctx, services, recording, failed, shell, ledger>>
    BY <1>9 DEF CloseTerminal
  <2>2. Level(n)'
    BY <1>1, <1>4, <1>5, <2>1 DEF Level, Reached, Owned, Levels
  <2> QED
    BY <1>2, <1>4, <2>1, <2>2 DEF IInv, Built
<1> QED
  BY <1>3, <1>6, <1>7, <1>8, <1>9 DEF Unwind

-----------------------------------------------------------------------------
(* The rest of the world.                                                  *)

LEMMA WorldKeeps ==
    ASSUME IInv, (\E t \in Tasks : TaskEnds(t)) \/ ArchiveFails \/ Terminate \/ UNCHANGED vars
    PROVE  Built'
<1> USE DEF Types, Screen, Ledger, Animated, Tasks, Users, Workers, Strays
<1>1. PICK n \in Levels : Level(n)
  BY DEF IInv, Built
<1>2. Types /\ Screen /\ Ledger
  BY DEF IInv, Built
<1>3. /\ UNCHANGED <<at, collect, archived, defers, services, recording, shell, ledger, screen>>
      /\ tasks' \subseteq tasks
      /\ ctx' = ctx \/ (ctx = "live" /\ ctx' = "SIGTERM")
      /\ failed' \in BOOLEAN /\ (failed => failed')
  BY <1>2 DEF TaskEnds, ArchiveFails, Terminate, vars
<1>4. \A m \in Levels : Stack(m)' = Stack(m)
  BY <1>3 DEF Stack, Base
<1>5. Level(n)'
  BY <1>1, <1>3, <1>4 DEF Level, Reached, Owned, Levels
<1> QED
  BY <1>2, <1>3, <1>5 DEF IInv, Built

(* What is left behind.                                                    *)
LEMMA BehindKeeps ==
    ASSUME IInv, [Next]_vars
    PROVE  Behind'
<1> USE DEF Behind
<1>1. PICK n \in Levels : Level(n)
  BY DEF IInv, Built
<1>2. Types /\ Behind
  BY DEF IInv, Built
<1> DEFINE Live == {"loop", "joining", "child", "leaving"}
\* Steps that tell nobody off, start none of the three and keep the shell.
<1>3. ASSUME tasks' \cap Strays \subseteq tasks, "left" \in told => "left" \in told',
             shell' = shell, at \in Live => at' \in Live
      PROVE  Behind'
  BY <1>2, <1>3 DEF Strays
<1>4. CASE Startup
  <2>1. tasks' \cap Strays \subseteq tasks /\ ("left" \in told => "left" \in told')
    BY <1>4 DEF Startup, Configure, OpenArchive, startAPI, StartRecording, startCollector,
                Dashboard, Start, Strays
  <2>2. shell' = shell /\ at \notin Live
    BY <1>4 DEF Startup, Configure, OpenArchive, startAPI, StartRecording, Dashboard
  <2> QED
    BY <1>3, <2>1, <2>2
<1>5. ASSUME NEW t, Work(t) PROVE Behind'
  <2>1. /\ at = "loop" /\ at' = at /\ shell' = shell /\ t \notin {"left", "pump"}
        /\ tasks' = tasks \cup {t} /\ told' = told \ {t}
    BY <1>5 DEF Work, Start, Workers
  <2> QED
    BY <1>2, <2>1
<1>6. CASE TakeOver \/ ChildEnds \/ Switch
  <2>1. tasks' \cap Strays \subseteq tasks /\ ("left" \in told => "left" \in told')
    BY <1>6 DEF TakeOver, startCollector, ChildEnds, Switch, Start, Strays
  <2>2. shell' = shell /\ at' \in Live
    BY <1>6 DEF TakeOver, ChildEnds, Switch, Leave
  <2> QED
    BY <1>3, <2>1, <2>2
<1>7. CASE Key \/ Paint \/ StopReader \/ StartChild
  <2>1. tasks' = tasks /\ ("left" \in told => "left" \in told')
    BY <1>7 DEF Key, Paint, StopReader, StartChild
  <2>2. shell' = shell /\ at' \in Live
    BY <1>7 DEF Key, Paint, StopReader, StartChild, Leave
  <2> QED
    BY <1>3, <2>1, <2>2
<1>8. CASE Quit \/ Done \/ CollectTick
  <2>1. UNCHANGED <<tasks, told, shell>> /\ at' \in Live
    BY <1>8 DEF Quit, Done, CollectTick, Leave
  <2> QED
    BY <1>3, <2>1
<1>9. CASE OpenShell
  <2>1. /\ at = "loop" /\ at' = at /\ shell' = TRUE
        /\ tasks' = tasks \cup {"pump"} /\ told' = told \ {"pump"}
    BY <1>9 DEF OpenShell, Start
  <2> QED
    BY <1>2, <2>1
<1>10. ASSUME closeShell, at' = at
       PROVE  Behind'
  <2>1. {"pump", "left"} \cap tasks \subseteq told \cup {"pump"}
    BY <1>2
  <2>2. "left" \in told' /\ tasks' \subseteq (tasks \ {"pump"}) \cup {"left"}
    BY <1>10, <2>1 DEF closeShell, LeaveBehind
  <2> QED
    BY <1>2, <1>10, <2>2
<1>11. CASE CloseShell
  BY <1>10, <1>11 DEF CloseShell
<1>12. CASE Finish
  <2>1. CASE closeShell
    BY <1>10, <1>12, <2>1 DEF Finish
  <2>2. CASE UNCHANGED <<shell, ledger, tasks, told>>
    BY <1>3, <1>12, <2>2 DEF Finish
  <2> QED
    BY <1>12, <2>1, <2>2 DEF Finish
<1>13. CASE Tell
  <2>1. UNCHANGED <<at, tasks, shell>> /\ told \subseteq told'
    BY <1>13 DEF Tell
  <2> QED
    BY <1>3, <2>1
<1>14. CASE Return
  <2>1. "page" \in tasks => ctx # "live"
    <3>1. n = 0
      BY <1>1, <1>2, <1>14, StackEnds DEF Return, Level, Reached, Types
    <3> QED
      BY <1>1, <3>1 DEF Level, Owned
  <2>2. {"page", "left"} \cap tasks \subseteq {t \in Tasks : Cancelled(t)}
    BY <1>2, <2>1 DEF Cancelled, Tasks, Strays
  <2>3. "left" \in told' /\ tasks' \subseteq (tasks \ {"page"}) \cup {"left"} /\ shell' = shell
    BY <1>14, <2>2 DEF Return, LeaveBehind
  <2> QED
    BY <1>2, <2>3
<1>15. CASE StopSwitching \/ CloseTerminal
  <2>1. UNCHANGED <<tasks, shell>> /\ told \subseteq told' /\ at \notin Live
    BY <1>15 DEF StopSwitching, CloseTerminal
  <2> QED
    BY <1>3, <2>1
<1>16. CASE (\E t \in Tasks : TaskEnds(t)) \/ ArchiveFails \/ Terminate \/ UNCHANGED vars
  <2>1. tasks' \subseteq tasks /\ UNCHANGED <<told, shell, at>>
    BY <1>16 DEF TaskEnds, ArchiveFails, Terminate, vars
  <2> QED
    BY <1>3, <2>1
<1> QED
  BY <1>4, <1>5, <1>6, <1>7, <1>8, <1>9, <1>11, <1>12, <1>13, <1>14, <1>15, <1>16
  DEF Next, Loop, Unwind

LEMMA NextKeeps == IInv /\ [Next]_vars => IInv'
<1>1. IInv /\ [Next]_vars => Built'
  BY StartupKeeps, LoopKeeps, UnwindKeeps, WorldKeeps DEF Next
<1> QED
  BY <1>1, BehindKeeps DEF IInv

-----------------------------------------------------------------------------
\* Nothing outlives what it uses, however the session is left: a user of the
\* API proxy has its call above the proxy's, the collector and a session to be
\* recorded have theirs above the archive's.
THEOREM InnermostFirst == Spec => []NothingOutlives
<1>1. IInv => NothingOutlives
  BY DEF IInv, Built, Behind, NothingOutlives, Types, Level, Reached, Owned, Ledger, Levels, Users, Workers,
         Strays, Tasks
<1> QED
  BY <1>1, InitHolds, NextKeeps, PTL DEF Spec

\* The keys, a child and the animation never have the terminal together, and it
\* is given back at the end.
THEOREM TerminalHandedOver == Spec => []OneTerminalUser
<1>1. IInv => OneTerminalUser
  BY DEF IInv, Built, OneTerminalUser, Screen, Animated
<1> QED
  BY <1>1, InitHolds, NextKeeps, PTL DEF Spec

\* A recorded start gets its outcome before the archive closes, or the reason is
\* SIGTERM or a failed archive.
THEOREM OutcomesAreRecorded == Spec => []OutcomeRecorded
<1>1. IInv => OutcomeRecorded
  BY DEF IInv, Built, OutcomeRecorded, Ledger
<1> QED
  BY <1>1, InitHolds, NextKeeps, PTL DEF Spec

-----------------------------------------------------------------------------
(* What FailureSurfaces and LeavingEnds rest on.  That they come true needs *)
(* fairness and is left to TLC; these are the parts that do not.           *)

\* A failure of the archive is never forgotten: the archive is open, so that
\* its close still reports it, or it is the error the session ends with.  In
\* particular no session that failed is followed by one of another cluster.
FailureIsKept == failed => "database" \in services \/ result = "error"

Kept == FailureIsKept /\ (failed => archived /\ at \notin {"config", "archive"})

LEMMA KeptHolds == IInv /\ Kept /\ [Next]_vars => Kept'
<1> SUFFICES ASSUME IInv, Kept, [Next]_vars PROVE Kept'
  OBVIOUS
<1> USE DEF Kept, FailureIsKept
<1>1. PICK n \in Levels : Level(n)
  BY DEF IInv, Built
<1>2. Types
  BY DEF IInv, Built
<1>3. archived' = archived
  BY DEF Next, vars, Startup, Configure, OpenArchive, startAPI, StartRecording, Dashboard, Loop,
         Work, TakeOver, Key, Paint, OpenShell, CloseShell, StopReader, StartChild, ChildEnds, Quit,
         Done, Switch, CollectTick, Unwind, Tell, Finish, Return, StopSwitching, CloseTerminal,
         TaskEnds, ArchiveFails, Terminate
<1>4. CASE UNCHANGED <<failed, services, result, at>>
  BY <1>3, <1>4
<1>5. CASE Startup
  <2>1. UNCHANGED failed
    BY <1>5 DEF Startup, Configure, OpenArchive, startAPI, StartRecording, Dashboard
  <2>2. CASE Configure \/ OpenArchive
    BY <2>1, <2>2 DEF Configure, OpenArchive
  <2>3. CASE startAPI \/ StartRecording \/ Dashboard
    <3>1. /\ services \subseteq services' /\ (result' = result \/ result' = "error")
          /\ at' \notin {"config", "archive"}
      BY <2>3 DEF startAPI, StartRecording, Dashboard, Leave
    <3> QED
      BY <1>3, <2>1, <3>1
  <2> QED
    BY <1>5, <2>2, <2>3 DEF Startup
<1>6. CASE Loop \/ Paint \/ Done \/ StartChild \/ CollectTick
  <2>1. at \in {"loop", "joining", "child", "collect"}
    BY <1>6 DEF Loop, Work, TakeOver, Key, Paint, OpenShell, CloseShell, StopReader, StartChild,
                ChildEnds, Quit, Done, Switch, CollectTick
  <2>2. archived => "database" \in services
    BY <1>1, <2>1 DEF Level, Reached, Owned
  <2>3. UNCHANGED <<failed, services>> /\ at' \notin {"config", "archive"}
    BY <1>6 DEF Loop, Work, TakeOver, Key, Paint, OpenShell, CloseShell, StopReader, StartChild,
                ChildEnds, Quit, Done, Switch, CollectTick, Leave
  <2> QED
    BY <1>3, <2>2, <2>3
<1>7. CASE Finish
  <2>1. /\ UNCHANGED <<at, failed>> /\ defers # <<>>
        /\ services' = services \ {Head(defers)}
        /\ result' = IF Head(defers) = "database" THEN CloseResult ELSE result
    BY <1>7 DEF Finish
  <2> QED
    BY <1>2, <1>3, <2>1 DEF CloseResult
<1>8. CASE Return
  <2>1. /\ UNCHANGED services
        /\ failed' = FALSE \/ (UNCHANGED <<failed, result>> /\ at' = "closing")
    BY <1>8 DEF Return
  <2> QED
    BY <1>3, <2>1
<1>9. CASE CloseTerminal
  BY <1>3, <1>9 DEF CloseTerminal
<1>10. CASE Tell \/ StopSwitching
  BY <1>4, <1>10 DEF Tell, StopSwitching
<1>11. CASE ArchiveFails
  <2>1. "database" \in services /\ UNCHANGED <<services, at>>
    BY <1>11 DEF ArchiveFails
  <2>2. archived /\ at \notin {"config", "archive"}
    BY <1>1, <2>1 DEF Level, Reached, Owned
  <2> QED
    BY <1>3, <2>1, <2>2
<1>12. CASE Terminate \/ UNCHANGED vars \/ \E t \in Tasks : TaskEnds(t)
  BY <1>4, <1>12 DEF Terminate, vars, TaskEnds
<1> QED
  BY <1>5, <1>6, <1>7, <1>8, <1>9, <1>10, <1>11, <1>12 DEF Next, Unwind

\* No failure is lost on a way out: errors.Join in runSession's deferred close
\* makes it the error of the session, also of one that leaves for another cluster
\* or was asked to quit.
THEOREM FailuresAreKept == Spec => []FailureIsKept
<1>1. Init => Kept
  BY DEF Init, Kept, FailureIsKept
<1>2. Kept => FailureIsKept
  BY DEF Kept
<1> QED
  BY <1>1, <1>2, InitHolds, NextKeeps, KeptHolds, PTL DEF Spec

\* A session that is left only gets smaller: no goroutine starts, only the shell's
\* and those of replaced pages are left to themselves, no call is deferred,
\* nothing that was told is told otherwise; what a deferred call still has to wait
\* for once it has done its telling will end; and the session ends with nothing
\* running but the animation and goroutines that were told, and not for another
\* cluster if its archive failed.
Unwinds ==
    at = "leaving" =>
        /\ tasks' \subseteq tasks \cup {"left"}
        /\ "left" \in tasks' \ tasks => \E t \in {"page", "pump"} : t \in tasks \ tasks'
        /\ defers' = defers \/ defers' = Tail(defers)
        /\ at' = "leaving" => told \subseteq told' /\ (ctx # "live" => ctx' # "live")
        /\ at' # "leaving" => /\ defers = <<>> /\ tasks' \subseteq {"spinner", "left"}
                              /\ "left" \in tasks' => "left" \in told'
                              /\ services = {}
                              /\ result = "switch" => ~failed
        /\ defers # <<>> =>
              \/ ~(Tells(Head(defers)) \subseteq told)
              \/ CancelsFirst(Head(defers)) /\ ctx = "live"
              \/ \A t \in Joins(Head(defers)) : Cancelled(t)

\* Leaving a session makes progress only: what each deferred call of runSession
\* waits for has been told to stop, or is told by the call itself, nothing is
\* started behind its back, and what nobody waits for has been told.
THEOREM LeavingOnlyUnwinds == Spec => [][Unwinds]_vars
<1>1. IInv /\ Kept /\ [Next]_vars => [Unwinds]_vars
  <2> SUFFICES ASSUME IInv, Kept, Next, at = "leaving" PROVE Unwinds
    BY DEF Unwinds
  <2>1. PICK n \in Levels : Level(n)
    BY DEF IInv, Built
  <2>2. \/ Tell \/ Finish \/ Return \/ ArchiveFails \/ Terminate
        \/ \E t \in Tasks : TaskEnds(t)
    BY DEF Next, Startup, Configure, OpenArchive, startAPI, StartRecording, Dashboard, Loop, Work,
           TakeOver, Key, Paint, OpenShell, CloseShell, StopReader, StartChild, ChildEnds, Quit, Done,
           Switch, CollectTick, Unwind, StopSwitching, CloseTerminal
  <2>3. /\ tasks' \subseteq tasks \cup {"left"}
        /\ "left" \in tasks' \ tasks => \E t \in {"page", "pump"} : t \in tasks \ tasks'
        /\ defers' = defers \/ defers' = Tail(defers)
    <3>1. CASE Tell \/ ArchiveFails \/ Terminate \/ \E t \in Tasks : TaskEnds(t)
      BY <3>1 DEF Tell, ArchiveFails, Terminate, TaskEnds
    <3>2. CASE Finish
      BY <3>2 DEF Finish, closeShell, LeaveBehind
    <3>3. CASE Return
      BY <3>3 DEF Return, LeaveBehind
    <3> QED
      BY <2>2, <3>1, <3>2, <3>3
  <2>4. ASSUME at' = "leaving"
        PROVE  told \subseteq told' /\ (ctx # "live" => ctx' # "live")
    <3>1. CASE Tell \/ ArchiveFails \/ Terminate \/ \E t \in Tasks : TaskEnds(t)
      BY <3>1 DEF Tell, ArchiveFails, Terminate, TaskEnds
    <3>2. CASE Finish
      <4>1. closeShell => "left" \in told'
        <5>1. {"pump", "left"} \cap tasks \subseteq told \cup {"pump"}
          BY DEF IInv, Behind
        <5> QED
          BY <5>1 DEF closeShell, LeaveBehind
      <4> QED
        BY <3>2, <4>1 DEF Finish, closeShell, LeaveBehind
    <3>3. ~Return
      BY <2>4 DEF Return
    <3> QED
      BY <2>2, <3>1, <3>2, <3>3
  <2>5. ASSUME at' # "leaving"
        PROVE  /\ defers = <<>> /\ tasks' \subseteq {"spinner", "left"}
               /\ "left" \in tasks' => "left" \in told'
               /\ services = {}
               /\ result = "switch" => ~failed
    <3>1. Return
      BY <2>2, <2>5 DEF Tell, Finish, ArchiveFails, Terminate, TaskEnds
    <3>2. defers = <<>>
      BY <3>1 DEF Return
    <3>3. n = 0
      BY <2>1, <3>2, StackEnds DEF Level, Reached, IInv, Built, Types
    <3>4. tasks \subseteq {"spinner", "left", "page"} /\ services = {}
      BY <2>1, <3>3 DEF Level, Owned, IInv, Built, Behind, Types, Tasks, Users, Workers, Strays
    <3>5. tasks' \subseteq {"spinner", "left"}
      BY <3>1, <3>4 DEF Return, LeaveBehind
    <3>6. "left" \in tasks' => "left" \in told'
      BY BehindKeeps DEF Behind
    <3> QED
      BY <3>2, <3>4, <3>5, <3>6 DEF Kept, FailureIsKept
  <2>6. \A d : \/ ~(Tells(d) \subseteq told) \/ (CancelsFirst(d) /\ ctx = "live")
               \/ \A t \in Joins(d) : Cancelled(t)
    <3> SUFFICES ASSUME NEW d, Tells(d) \subseteq told, ~(CancelsFirst(d) /\ ctx = "live"),
                        NEW t \in Joins(d)
                 PROVE  Cancelled(t)
      OBVIOUS
    <3>1. CASE d \in {"reader", "viewers", "recording"}
      BY <3>1 DEF Joins, Cancelled
    <3>2. CASE d = "workers"
      <4>1. t \in Workers
        BY <3>2 DEF Joins
      <4> QED
        BY <3>2, <4>1 DEF CancelsFirst, Workers, Cancelled
    <3>3. CASE d \notin {"reader", "viewers", "recording", "workers"}
      BY <3>3 DEF Joins
    <3> QED
      BY <3>1, <3>2, <3>3
  <2> QED
    BY <2>3, <2>4, <2>5, <2>6 DEF Unwinds
<1>2. Init => Kept
  BY DEF Init, Kept, FailureIsKept
<1> QED
  BY <1>1, <1>2, InitHolds, NextKeeps, KeptHolds, PTL DEF Spec
=============================================================================
