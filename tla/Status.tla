-------------------------------- MODULE Status ---------------------------------
(***************************************************************************)
(* What a row says of its object (src/src/kube.go: object.record), and the *)
(* gauges of a pod (src/src/pod_metrics.go).  A row has a state and a      *)
(* tone; a row without a tone is one an operator does not look at.         *)
(*                                                                         *)
(* Only the fields the state and the tone depend on are kept; a quantity   *)
(* is a number, 0 where the object has none.                               *)
(***************************************************************************)
EXTENDS Integers, Sequences, SequencesExt, FiniteSetsExt

CONSTANTS
    Objects    \* the objects a list can return

Missing == -1

\* A phase is never the reason a kubelet gives for a container.
Containers == Seq([ready : BOOLEAN, reason : STRING \ {"Succeeded"}])
PodKind == [kind : {"Pod"}, phase : {"Pending", "Running", "Succeeded", "Failed", "Unknown"},
            statuses : Containers, inits : Seq(STRING), deleting : BOOLEAN, containers : Nat]
WorkloadKind == [kind : {"Deployment", "StatefulSet", "DaemonSet"}, generation : Int,
                 observed : Int, desired : Int, ready : Int, updated : Int,
                 available : Int, failing : STRING]
OtherKind ==
    [kind : {"Job"}, conditions : Seq({"Complete", "Failed"})]
      \cup [kind : {"CronJob"}, suspended : BOOLEAN]
      \cup [kind : {"PersistentVolumeClaim"}, phase : STRING]
      \cup [kind : {"Event"}, type : STRING]
      \cup [kind : {"Node"}, isReady : BOOLEAN, pressure : STRING, cordoned : BOOLEAN]

\* A pod and what metrics.k8s.io answers of it.  usage is what the containers
\* use, whether or not the answer says so: of each one, it lists the usage, it
\* lists the container without this resource, or it does not list it.
MetricsKind == [kind : {"PodMetrics"}, limits : Seq(Nat), podLimit : Nat, usage : Seq(Nat),
                answer : Seq({"listed", "partial", "absent"}), capacity : Nat]

InitState(reason) == "Init:" \o reason

\* A pod has no more statuses than containers; that no "Init:..." is a state a
\* pod ends in is a fact about strings.
ASSUME StatusAssumption ==
    /\ Objects \subseteq PodKind \cup WorkloadKind \cup OtherKind \cup MetricsKind
    /\ \A o \in Objects : o.kind = "Pod" =>
          /\ o.containers > 0 => Len(o.statuses) <= o.containers
          /\ \A i \in DOMAIN o.inits :
                InitState(o.inits[i]) \notin {"Running", "Succeeded", "Completed"}
    /\ \A o \in Objects : o.kind = "PodMetrics" =>
          Len(o.limits) = Len(o.usage) /\ Len(o.answer) = Len(o.usage)

VARIABLES
    object,    \* the object of a row
    row        \* its state and tone, or its gauge; Unread before it is decoded

statusVars == <<object, row>>

Row(state, tone) == [state |-> state, tone |-> tone]
Unread == Row("", "unread")

SumOf(s) == LET first[n \in 0..Len(s)] == IF n = 0 THEN 0 ELSE first[n - 1] + s[n]
            IN first[Len(s)]
Count(s, Test(_)) == Cardinality({i \in DOMAIN s : Test(s[i])})

\* The place of the last one, 0 when there is none.
LastOf(s, Test(_)) == Max({0} \cup {i \in DOMAIN s : Test(s[i])})

\* Mutated form: the last container decides, ready or not.
PodStatus_Last(o) ==
    LET n == Len(o.statuses) IN
    IF o.deleting THEN "Terminating"
    ELSE IF n # 0 /\ ~o.statuses[n].ready /\ o.statuses[n].reason # ""
         THEN o.statuses[n].reason ELSE o.phase

\* The reason of the last container that is not ready; an init container's
\* reason goes before it, the deletion before both.
PodStatus(o) ==
    LET main == LastOf(o.statuses, LAMBDA c : ~c.ready /\ c.reason # "")
        init == LastOf(o.inits, LAMBDA reason : reason \notin {"", "Completed"})
    IN IF o.deleting THEN "Terminating"
       ELSE IF init # 0 THEN InitState(o.inits[init])
       ELSE IF main # 0 THEN o.statuses[main].reason
       ELSE o.phase

PodRow(o) ==
    LET status == PodStatus(o)
        ready  == Count(o.statuses, LAMBDA c : c.ready)
        total  == IF o.containers = 0 THEN Len(o.statuses) ELSE o.containers
    IN Row(status,
           IF (status # "Running" \/ ready < total) /\ status \notin {"Succeeded", "Completed"}
           THEN "warn" ELSE "")

Rollout(o, ready) ==
    IF o.observed < o.generation \/ ready < o.desired \/ o.updated < o.desired
    THEN Row("Progressing", "warn") ELSE Row("Ready", "")

WorkloadRow(o) ==
    IF o.failing # "" THEN Row(o.failing, "bad")
    ELSE IF o.kind = "Deployment" /\ o.available < o.desired
         THEN Row("Progressing", "warn")
    ELSE Rollout(o, o.ready)

DaemonRow(o) == Rollout(o, Min({o.ready, o.available}))

\* The last condition that is true.
JobRow(o) ==
    LET state == IF o.conditions = <<>> THEN "Running" ELSE Last(o.conditions) IN
    Row(state, IF state = "Failed" THEN "bad" ELSE "")

\* Not ready is bad, a pressure or a cordon is worth a warning.
NodeRow(o) ==
    LET ready == IF o.isReady THEN Row("Ready", "") ELSE Row("NotReady", "bad")
        pressed == IF o.pressure = "" THEN ready ELSE Row(o.pressure, "warn")
    IN IF o.cordoned THEN Row(pressed.state \o "/Cordoned", "warn") ELSE pressed

CronRow(o)  == IF o.suspended THEN Row("Suspended", "warn") ELSE Row("Scheduled", "")
ClaimRow(o) == Row(o.phase, IF o.phase # "Bound" THEN "warn" ELSE "")
EventRow(o) == Row(o.type, IF o.type = "Warning" THEN "warn" ELSE "")

\* Mutated form: the limit is that of the containers that have one.
PodLimit_Skips(o) == IF o.podLimit > 0 THEN o.podLimit ELSE SumOf(o.limits)

\* A pod has a limit when it is set for the pod, or for every container.
PodLimit(o) ==
    IF o.podLimit > 0 THEN o.podLimit
    ELSE IF \E i \in DOMAIN o.limits : o.limits[i] <= 0 THEN 0
    ELSE SumOf(o.limits)

\* Mutated form: a container without this resource counts as one that uses none.
Used_AsZero(o) ==
    IF \A i \in DOMAIN o.answer : o.answer[i] = "absent" THEN Missing
    ELSE SumOf([i \in DOMAIN o.usage |-> IF o.answer[i] = "listed" THEN o.usage[i] ELSE 0])

\* The sum over the containers of the answer; none of them may lack the
\* resource.  Those the answer does not list are not missed.
Used(o) ==
    IF \/ \A i \in DOMAIN o.answer : o.answer[i] = "absent"
       \/ \E i \in DOMAIN o.answer : o.answer[i] = "partial"
    THEN Missing
    ELSE SumOf([i \in DOMAIN o.usage |-> IF o.answer[i] = "absent" THEN 0 ELSE o.usage[i]])

loadPodMetrics(o) ==
    LET limit == PodLimit(o) IN
    [used  |-> Used(o),
     limit |-> IF limit > 0 THEN limit ELSE o.capacity,
     basis |-> IF Used(o) # Missing /\ limit <= 0 /\ o.capacity <= 0
               THEN "no capacity available"
               ELSE IF limit > 0 THEN "limit" ELSE "node capacity"]

record(o) ==
    CASE o.kind = "Pod" -> PodRow(o)
      [] o.kind \in {"Deployment", "StatefulSet"} -> WorkloadRow(o)
      [] o.kind = "DaemonSet" -> DaemonRow(o)
      [] o.kind = "Job" -> JobRow(o)
      [] o.kind = "CronJob" -> CronRow(o)
      [] o.kind = "PersistentVolumeClaim" -> ClaimRow(o)
      [] o.kind = "Event" -> EventRow(o)
      [] o.kind = "Node" -> NodeRow(o)
      [] o.kind = "PodMetrics" -> loadPodMetrics(o)

decodeSnapshot ==
    /\ row = Unread
    /\ row' = record(object)
    /\ UNCHANGED object

StatusInit == object \in Objects /\ row = Unread
StatusNext == decodeSnapshot

StatusSpec == StatusInit /\ [][StatusNext]_statusVars

-----------------------------------------------------------------------------
(* What an operator means by healthy, whatever record does with it.        *)

Ready(o)    == \A i \in DOMAIN o.statuses : o.statuses[i].ready
Waiting(o)  == {i \in DOMAIN o.statuses : ~o.statuses[i].ready}
InitTrouble(o) == \E i \in DOMAIN o.inits : o.inits[i] \notin {"", "Completed"}

\* A pod is well when every container it asks for is ready, or when it has ended
\* well: the phase says so and no container gives another reason.
PodHealthy(o) ==
    /\ ~o.deleting /\ ~InitTrouble(o)
    /\ \/ o.phase = "Running" /\ Ready(o) /\ Len(o.statuses) >= o.containers
       \/ o.phase = "Succeeded" /\ \A i \in Waiting(o) : o.statuses[i].reason \in {"", "Completed"}

\* A container of the pod has completed and is not ready: all that a quiet row
\* with the state Completed tells of a pod.  One before it may be failing, and
\* the phase may still be Running.
CompletedSeen(o) ==
    /\ ~o.deleting /\ ~InitTrouble(o)
    /\ \E i \in Waiting(o) : o.statuses[i].reason = "Completed"

Healthy(o) ==
    CASE o.kind = "Pod" -> PodHealthy(o)
      [] o.kind \in {"Deployment", "StatefulSet", "DaemonSet"} ->
            /\ o.observed >= o.generation
            /\ o.ready >= o.desired /\ o.updated >= o.desired
            /\ o.kind \in {"Deployment", "DaemonSet"} => o.available >= o.desired
            /\ o.kind = "DaemonSet" \/ o.failing = ""
      [] o.kind = "Job" -> o.conditions = <<>> \/ Last(o.conditions) # "Failed"
      [] o.kind = "CronJob" -> ~o.suspended
      [] o.kind = "PersistentVolumeClaim" -> o.phase = "Bound"
      [] o.kind = "Event" -> o.type # "Warning"
      [] o.kind = "Node" -> o.isReady /\ o.pressure = "" /\ ~o.cordoned

\* A row without a tone is the row of an object that is well: a rollout that
\* the controller has not seen, a replica that is not updated or not available,
\* a container that is not ready and a node under pressure all show.  The one
\* exception is in the row's own words: a pod that says Completed has a
\* container that completed, and need not be well.
QuietRowsAreHealthy ==
    row # Unread /\ object.kind # "PodMetrics" /\ row.tone = "" =>
        \/ Healthy(object)
        \/ object.kind = "Pod" /\ row.state = "Completed" /\ CompletedSeen(object)

\* The containers use what they may: what is set for the pod, or else what is
\* set for each of them.
WithinLimits(o) ==
    IF o.podLimit > 0 THEN SumOf(o.usage) <= o.podLimit
    ELSE \A i \in DOMAIN o.usage : o.limits[i] > 0 => o.usage[i] <= o.limits[i]

\* The gauge of a pod, whatever the answer leaves out and whichever limits are
\* not set: it never shows more than the pod uses, it shows all of it when the
\* answer lists every container, and a pod within its limits is never shown
\* above the limit of the gauge.  (An answer that lists fewer containers than
\* the pod has is shown as it is: a gauge can be too low.)
GaugesAreFair ==
    row # Unread /\ object.kind = "PodMetrics" /\ row.used # Missing =>
        /\ row.used <= SumOf(object.usage)
        /\ "absent" \notin Range(object.answer) => row.used = SumOf(object.usage)
        /\ row.basis = "limit" /\ WithinLimits(object) => row.used <= row.limit
=============================================================================
