------------------------------ MODULE MCReaders --------------------------------
(***************************************************************************)
(* The parts that turn what arrives into what is shown, side by side: the  *)
(* keyboard, the gauges of a node, the pages of the archive and the rows   *)
(* of the objects.  They share nothing, so a behaviour exercises one part  *)
(* and leaves the others in one of their initial states.                   *)
(***************************************************************************)
EXTENDS Input, NodeStats, Pager, Status

VARIABLE part

\* Everything of up to three bytes, and two sequences a terminal sends in a row.
Phrases == {<<"esc", "[", "5", "~">>, <<"esc", "[", "<", "5", ";", "5", ";", "5", "M">>,
            <<"esc", "[", "<", "5", "M">>, <<"esc", "[", "A">>, <<"esc", "O", "A">>,
            <<"esc", "x">>, <<"esc">>, <<"C", "c">>, <<"C">>, <<"cr">>, <<"del">>}
Short == BoundedSeq({"esc", "[", "O", "A", "cr", "tab", "C", "c"}, 3)
MCInputs == Short \cup {p \o q : p, q \in Phrases}

Reasons  == {"", "Completed", "CrashLoopBackOff"}
Statuses == UNION {[1..n -> [ready : BOOLEAN, reason : Reasons]] : n \in 0..2}
Pods == {p \in [kind : {"Pod"}, phase : {"Pending", "Running", "Succeeded", "Failed"},
                statuses : Statuses, inits : {<<>>} \cup {<<r>> : r \in Reasons},
                deleting : BOOLEAN, containers : 0..2] :
           p.containers > 0 => Len(p.statuses) <= p.containers}
Workloads == [kind : {"Deployment", "StatefulSet", "DaemonSet"}, generation : {2},
              observed : 1..2, desired : 0..2, ready : 0..2, updated : 0..2,
              available : 0..2, failing : {"", "ReplicaFailure"}]
Others ==
    [kind : {"Job"}, conditions : BoundedSeq({"Complete", "Failed"}, 2)]
      \cup [kind : {"CronJob"}, suspended : BOOLEAN]
      \cup [kind : {"PersistentVolumeClaim"}, phase : {"Bound", "Pending", "Lost"}]
      \cup [kind : {"Event"}, type : {"Normal", "Warning"}]
      \cup [kind : {"Node"}, isReady : BOOLEAN, pressure : {"", "DiskPressure"},
            cordoned : BOOLEAN]
Metrics == UNION {[kind : {"PodMetrics"}, limits : [1..n -> 0..2], podLimit : {0, 3},
                   usage : [1..n -> 0..2], answer : [1..n -> {"listed", "partial", "absent"}],
                   capacity : {0, 4}] : n \in 1..2}
MCObjects == Pods \cup Workloads \cup Others \cup Metrics

ReadersInit ==
    /\ part \in {"input", "node", "pager", "status"}
    /\ InputInit  /\ (part # "input" => typed = <<>>)
    /\ NodeInit   /\ (part # "node" => iface = CHOOSE i \in Interfaces : TRUE)
                  /\ (part # "node" => \A i \in Interfaces : counter[i] = 0)
    /\ PagerInit
    /\ StatusInit /\ (part # "status" => object = CHOOSE o \in Others : TRUE)

ReadersNext ==
    /\ UNCHANGED part
    /\ \/ part = "input"  /\ InputNext
                          /\ UNCHANGED <<nodeVars, pagerVars, statusVars>>
       \/ part = "node"   /\ NodeNext
                          /\ UNCHANGED <<inputVars, pagerVars, statusVars>>
       \/ part = "pager"  /\ PagerNext
                          /\ UNCHANGED <<inputVars, nodeVars, statusVars>>
       \/ part = "status" /\ StatusNext
                          /\ UNCHANGED <<inputVars, nodeVars, pagerVars>>

ReadersSpec ==
    ReadersInit /\ [][ReadersNext]_<<part, inputVars, nodeVars, pagerVars, statusVars>>
=============================================================================
