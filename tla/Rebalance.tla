------------------------------ MODULE Rebalance ------------------------------
(***************************************************************************)
(* The leader's pressure-based rebalance loop (scheduler/rebalance) over   *)
(* the samples every node publishes (daemon/grpc/heartbeat.go).  Pressure  *)
(* is in percent.  A replica loads the host its container runs on, which   *)
(* follows its desired host when the runtime has moved it.                 *)
(*                                                                         *)
(* What a cycle reads and what it commits are two steps: the scheduler may *)
(* remove the replica in between.  A heartbeat is shorter than a cycle, so *)
(* a cycle reads the present load of every node that is up.  The moving    *)
(* average moves from its value towards the sample.                        *)
(***************************************************************************)
EXTENDS Integers, FiniteSetsExt

CONSTANTS Hosts, Replicas, None,
          ServiceOf,       \* the spec of a replica: name, placement, hosts
          Footprint,       \* Footprint[r]: what r costs, [cpu, memory]
          Bases,           \* the loads of the hosts without the replicas
          Placements,      \* where the scheduler may have put the replicas
          TriggerThreshold, ImbalanceGap, ReliefFloor, DstCap, ConsecutiveCycles,
          CooldownReplica, CooldownNode,   \* in cycles
          MaxShifts        \* bounds changes of base load, leaders and removals

VARIABLES
    base,        \* the hosts' own load; None for a node that is down
    host,        \* state.ReplicasDesired: the host of each replica, or None
    runs,        \* where each replica's container runs
    ewma, over,  \* pressureEWMA and consecutiveOverThreshold
    replicaAge, nodeAge,   \* cycles since the last move, up to the cooldown
    pending,     \* the move a cycle is about to commit
    shifts

vars == <<base, host, runs, ewma, over, replicaAge, nodeAge, pending, shifts>>
memory == <<ewma, over, replicaAge, nodeAge>>

NewRebalancer ==
    [ewma |-> [h \in Hosts |-> None], over |-> [h \in Hosts |-> 0],
     replicaAge |-> [r \in Replicas |-> CooldownReplica], nodeAge |-> [h \in Hosts |-> CooldownNode]]

Init ==
    /\ base \in Bases
    /\ host \in Placements /\ runs = host
    /\ ewma = NewRebalancer.ewma /\ over = NewRebalancer.over
    /\ replicaAge = NewRebalancer.replicaAge /\ nodeAge = NewRebalancer.nodeAge
    /\ pending = None /\ shifts = 0

(****************************** pressure ************************************)
(* The sample of a node: its own load and its replicas'.                    *)
Cost(S, dim) == MapThenSumSet(LAMBDA r : Footprint[r][dim], S)

NodePressure(h) ==
    LET here == {r \in Replicas : runs[r] = h}
    IN  [cpu |-> base[h].cpu + Cost(here, "cpu"), memory |-> base[h].memory + Cost(here, "memory")]

Composite(s) == IF s.memory > s.cpu THEN s.memory ELSE s.cpu

reliefEstimate(r, s) == IF s.memory > s.cpu THEN Footprint[r].memory ELSE Footprint[r].cpu

Sampled == {h \in Hosts : base[h] # None}

(* EWMA.Update: the first sample seeds it.                                  *)
Update(v, sample) == IF v = None THEN sample ELSE v + (sample - v) \div 2

(****************************** candidates **********************************)
(* PostMovePressure, from the samples P.                                    *)
PostSrc(P, r, src) ==
    LET minus(a, b) == IF a < b THEN 0 ELSE a - b
    IN  [cpu |-> minus(P[src].cpu, Footprint[r].cpu), memory |-> minus(P[src].memory, Footprint[r].memory)]

PostDst(P, r, dst) ==
    [cpu |-> P[dst].cpu + Footprint[r].cpu, memory |-> P[dst].memory + Footprint[r].memory]

dstResourceFits(P, r, dst) == PostDst(P, r, dst).cpu <= 100 /\ PostDst(P, r, dst).memory <= 100

PerHostCount(r, dst) ==
    Cardinality({s \in Replicas : host[s] = dst /\ ServiceOf[s].name = ServiceOf[r].name})

AntiAffinityByHost(r, dst) ==
    CASE ServiceOf[r].placement = "hosts"  -> dst \in ServiceOf[r].hosts
      [] ServiceOf[r].placement = "global" -> FALSE
      [] OTHER                             -> TRUE

antiAffinityOK(r, dst) ==
    CASE ServiceOf[r].placement = "hosts"  -> dst \in ServiceOf[r].hosts
      [] ServiceOf[r].placement = "spread" -> PerHostCount(r, dst) = 0
      [] ServiceOf[r].placement = "global" -> FALSE
      [] OTHER                             -> TRUE

(* The cooldowns, HardFilter and the two gates on pressure after the move.  *)
Survives(P, r, src, dst, ages, nages) ==
    /\ ages[r] >= CooldownReplica /\ nages[dst] >= CooldownNode
    /\ dstResourceFits(P, r, dst) /\ antiAffinityOK(r, dst)
    /\ Composite(PostDst(P, r, dst)) < DstCap
    /\ Composite(P[src]) - Composite(PostSrc(P, r, src)) >= ReliefFloor

(****************************** the cycle ***********************************)
Older(age, cap) == [x \in DOMAIN age |-> IF age[x] < cap THEN age[x] + 1 ELSE age[x]]

(* A destination's cooldown outlasts the container's move to it.            *)
Settling(h) == \E r \in Replicas : host[r] = h /\ runs[r] # h

OlderNodes == [h \in Hosts |-> IF nodeAge[h] < CooldownNode - 1 \/ (nodeAge[h] < CooldownNode /\ ~Settling(h))
                               THEN nodeAge[h] + 1 ELSE nodeAge[h]]

(* The hottest node, by average; ties fall either way.                      *)
Hot(avg, h) == h \in Sampled /\ avg[h] > 0 /\ \A g \in Sampled : avg[g] <= avg[h]

Triggered(avg, count, h) ==
    /\ Hot(avg, h) /\ count[h] >= ConsecutiveCycles
    /\ \E g \in Sampled : avg[h] - avg[g] >= ImbalanceGap

Candidates(P, avg, count, ages, nages) ==
    {m \in [replica : Replicas, src : {h \in Sampled : Triggered(avg, count, h)}, dst : Sampled] :
        /\ m.src # m.dst /\ host[m.replica] = m.src
        /\ Survives(P, m.replica, m.src, m.dst, ages, nages)}

(* Cycle up to the commit: with fewer than two samples it only averages.    *)
Cycle ==
    /\ pending = None
    /\ LET P == [h \in Sampled |-> NodePressure(h)]
           avg == [h \in Hosts |-> IF h \in Sampled THEN Update(ewma[h], Composite(P[h])) ELSE ewma[h]]
           count == [h \in Hosts |->
                        IF h \notin Sampled THEN over[h]
                        ELSE IF avg[h] < TriggerThreshold THEN 0
                        ELSE IF over[h] < ConsecutiveCycles THEN over[h] + 1 ELSE over[h]]
           moves == Candidates(P, avg, count, Older(replicaAge, CooldownReplica), OlderNodes)
           score(m) == reliefEstimate(m.replica, P[m.src])
       IN  /\ ewma' = avg
           /\ over' = IF Cardinality(Sampled) < 2 THEN over ELSE count
           /\ IF Cardinality(Sampled) < 2 \/ moves = {} THEN pending' = None
              ELSE \E m \in moves : pending' = m /\ \A k \in moves : score(k) <= score(m)
    /\ replicaAge' = Older(replicaAge, CooldownReplica) /\ nodeAge' = OlderNodes
    /\ UNCHANGED <<base, host, runs, shifts>>

(* commitMove upserts the row it read, even when it is gone by now (the     *)
(* scheduler's next pass drops it again).                                   *)
Commit ==
    /\ pending # None /\ pending' = None
    /\ host' = [host EXCEPT ![pending.replica] = pending.dst]
    /\ replicaAge' = [replicaAge EXCEPT ![pending.replica] = 0]
    /\ nodeAge' = [nodeAge EXCEPT ![pending.dst] = 0]
    /\ UNCHANGED <<base, runs, ewma, over, shifts>>

(****************************** the others **********************************)
Shift == shifts < MaxShifts /\ shifts' = shifts + 1

LoadShift ==
    /\ Shift /\ base' \in Bases \ {base}
    /\ UNCHANGED <<host, runs, memory, pending>>

(* The scheduler removes a replica; its container goes with it.             *)
Remove(r) ==
    /\ Shift /\ host[r] # None
    /\ host' = [host EXCEPT ![r] = None] /\ runs' = [runs EXCEPT ![r] = None]
    /\ UNCHANGED <<base, memory, pending>>

(* The runtimes stop the container on one host and start it on the other.   *)
Migrate(r) ==
    /\ runs[r] # host[r]
    /\ runs' = [runs EXCEPT ![r] = host[r]]
    /\ UNCHANGED <<base, host, memory, pending, shifts>>

(* A new leader starts from nothing; the old one's move is lost.            *)
Failover ==
    /\ Shift /\ pending' = None
    /\ ewma' = NewRebalancer.ewma /\ over' = NewRebalancer.over
    /\ replicaAge' = NewRebalancer.replicaAge /\ nodeAge' = NewRebalancer.nodeAge
    /\ UNCHANGED <<base, host, runs>>

Next == Cycle \/ Commit \/ LoadShift \/ Failover \/ \E r \in Replicas : Remove(r) \/ Migrate(r)

Spec == Init /\ [][Next]_vars

(* The values the variables take.                                           *)
TypeOK ==
    /\ host \in [Replicas -> Hosts \cup {None}] /\ runs \in [Replicas -> Hosts \cup {None}]
    /\ \A h \in Hosts : over[h] \in 0..ConsecutiveCycles /\ nodeAge[h] \in 0..CooldownNode
    /\ \A r \in Replicas : replicaAge[r] \in 0..CooldownReplica

(* A move never puts two replicas of a spread service on one host, nor a    *)
(* pinned one on a host outside its list, although a row can be removed     *)
(* between the cycle that chose the move and its commit.                    *)
PlacementKept ==
    \A r, s \in Replicas :
        /\ ServiceOf[r].placement = "spread" /\ ServiceOf[s].name = ServiceOf[r].name /\ r # s /\ host[r] # None
              => host[r] # host[s]
        /\ ServiceOf[r].placement = "hosts" => host[r] \in ServiceOf[r].hosts \cup {None}

=============================================================================
