------------------------------ MODULE NodeStats --------------------------------
(***************************************************************************)
(* The live gauges of a node (src/src/node_stats.go).  The kubelet serves  *)
(* a summary it refreshes on its own, so that two polls may return the     *)
(* same sample; counters start again at a reboot, and the default network  *)
(* interface, whose counter is the one reported, may change.  The worker   *)
(* keeps the last fresh sample as the baseline of its rates.               *)
(*                                                                         *)
(* A rate is the increase of a counter and the two times it is taken       *)
(* between; times are the numbers of the kubelet's samples.  Receive and   *)
(* transmit are alike, as are memory and disk, which are shown as they     *)
(* come; one of each is kept.                                              *)
(***************************************************************************)
EXTENDS Integers

CONSTANTS
    Interfaces,   \* names a default interface can have
    MaxTime,      \* bound: samples the kubelet takes
    MaxStep,      \* bound: what a counter grows by between two samples
    Width         \* counters are unsigned, of Width bits in all

ASSUME NodeStatsAssumption ==
    /\ MaxTime \in Nat /\ MaxStep \in Nat /\ Width \in Nat
    /\ (MaxTime + 1) * MaxStep < Width

VARIABLES
    now,       \* the kubelet's clock
    iface,     \* the default interface
    counter,   \* interface -> bytes since the last reboot
    truth,     \* interface -> time -> bytes ever, what no program can see
    sample,    \* the summary the kubelet serves
    previous,  \* baseline: previous.Node.Network
    stats,     \* lastStats: the traffic gauge shown last, and its sample
    peak       \* the scale of the gauge

nodeVars == <<now, iface, counter, truth, sample, previous, stats, peak>>

None   == -1                     \* a metric that is missing
Zero   == [at |-> 0, name |-> "", bytes |-> None]
Times  == 0..MaxTime
Amount == 0..Width - 1
NoRate == [bytes |-> None, from |-> 0, to |-> 0]

Summary == [at : Times, name : Interfaces \cup {""}, bytes : Amount \cup {None}]
Rate    == [bytes : Amount \cup {None}, from : Times, to : Times]

NodeTypeOK ==
    /\ now \in Times /\ iface \in Interfaces
    /\ counter \in [Interfaces -> Amount]
    /\ truth \in [Interfaces -> [Times -> Amount]]
    /\ sample \in Summary /\ previous \in Summary
    /\ stats \in [name : Interfaces \cup {""}, rate : Rate]
    /\ peak \in Rate

-----------------------------------------------------------------------------
(* The node carries traffic and the kubelet takes a sample; metrics may be *)
(* missing from it, and the node may have been rebooted just before.       *)
Collect(d, reboot, interface, missing) ==
    /\ now < MaxTime
    /\ now' = now + 1
    /\ iface' = interface
    /\ counter' = [i \in Interfaces |-> (IF reboot THEN 0 ELSE counter[i]) + d[i]]
    /\ truth' = [i \in Interfaces |->
                   [t \in Times |-> IF t > now THEN truth[i][now] + d[i] ELSE truth[i][t]]]
    /\ sample' = [at |-> now + 1, name |-> interface,
                  bytes |-> IF missing THEN None ELSE counter'[interface]]
    /\ UNCHANGED <<previous, stats, peak>>

Fresh(current, old) == current.at > old.at

\* Mutated form: a counter that started again is not noticed.
counterRate_Wraps(current, old) ==
    IF current.bytes = None \/ old.bytes = None \/ ~Fresh(current, old) THEN NoRate
    ELSE [bytes |-> (current.bytes - old.bytes) % Width, from |-> old.at, to |-> current.at]

counterRate(current, old) ==
    IF \/ current.bytes = None \/ old.bytes = None
       \/ current.at = 0 \/ old.at = 0 \/ ~Fresh(current, old)
       \/ current.bytes < old.bytes
    THEN NoRate
    ELSE [bytes |-> (current.bytes - old.bytes) % Width, from |-> old.at, to |-> current.at]

makeNodeStats(current, old) ==
    [name |-> current.name,
     rate |-> IF current.name = old.name THEN counterRate(current, old) ELSE NoRate]

\* A sample that was shown before keeps the gauge it had.
Shown(current, old) ==
    IF current.name = old.name /\ current.at = old.at THEN stats
    ELSE makeNodeStats(current, old)

Baseline(current, old) == IF Fresh(current, old) THEN current ELSE old

\* Bytes per unit of time, compared without a division.
Faster(a, b) ==
    /\ a.bytes # None
    /\ b.bytes = None \/ a.bytes * (b.to - b.from) > b.bytes * (a.to - a.from)

Peak(rate) == IF Faster(rate, peak) THEN rate ELSE peak

(* A round of pollNodeStats; one that fails changes nothing.  (The first   *)
(* round finds lastStats nil, and the zero baseline is older.)             *)
pollNodeStats ==
    /\ sample # Zero
    /\ stats' = Shown(sample, previous)
    /\ peak' = Peak(makeNodeStats(sample, previous).rate)
    /\ previous' = Baseline(sample, previous)
    /\ UNCHANGED <<now, iface, counter, truth, sample>>

NodeInit ==
    /\ now = 0 /\ iface \in Interfaces
    /\ counter \in [Interfaces -> 0..MaxStep]
    /\ truth = [i \in Interfaces |-> [t \in Times |-> counter[i]]]
    /\ sample = Zero /\ previous = Zero
    /\ stats = [name |-> "", rate |-> NoRate]
    /\ peak = NoRate

NodeNext ==
    \/ \E d \in [Interfaces -> 0..MaxStep], reboot, missing \in BOOLEAN, i \in Interfaces :
          Collect(d, reboot, i, missing)
    \/ pollNodeStats

NodeSpec == NodeInit /\ [][NodeNext]_nodeVars

-----------------------------------------------------------------------------
\* The traffic shown never exceeds what the interface in the label carried
\* between the two samples, nor the peak it is drawn against, whatever is
\* rebooted, renamed, missing or served twice.
NeverOverstates ==
    LET r == stats.rate IN
    /\ r.bytes # None => r.bytes <= truth[stats.name][r.to] - truth[stats.name][r.from]
    /\ ~Faster(r, peak)
===============================================================================
